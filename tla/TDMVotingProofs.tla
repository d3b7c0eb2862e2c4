-------------------------- MODULE TDMVotingProofs --------------------------
(***************************************************************************)
(* Agreement of the voting rules for any number of validators, of which    *)
(* fewer than a third do not follow them, any blocks and any number of     *)
(* rounds.  The argument: a quorum that precommitted b is locked on b, and *)
(* two quorums share a validator that follows the rules; it prevotes       *)
(* nothing else while its lock binds, unless it saw a majority for another *)
(* block in between, of which there can be no first one.                   *)
(***************************************************************************)
EXTENDS TDMVoting, FiniteSetTheorems, TLAPS

Prevoted(v, r, b) == [val |-> v, round |-> r, block |-> b] \in prevotes
Precommitted(v, r, b) == [val |-> v, round |-> r, block |-> b] \in precommits

\* A validator prevotes in a round it has reached, after its propose step.
PrevotesInOrder ==
    \A v \in Honest, r \in Round, b \in Block \cup {Nil} :
        Prevoted(v, r, b) => r < round[v] \/ (r = round[v] /\ step[v] # "propose")

\* A validator precommits in a round it has reached, at its precommit step,
\* and once.
PrecommitsInOrder ==
    \A v \in Honest, r \in Round, b \in Block \cup {Nil} :
        Precommitted(v, r, b) =>
            /\ PastPrecommit(v, r)
            /\ \A c \in Block \cup {Nil} : Precommitted(v, r, c) => b = c

\* Validators that follow the rules prevote blocks that some one of them
\* validated.
PrevotesValid ==
    \A v \in Honest, r \in Round, b \in Block : Prevoted(v, r, b) => b \in ValidBlock

\* A precommit for a block follows a majority of prevotes for it.
PrecommitHasMajority ==
    \A v \in Honest, r \in Round, b \in Block :
        Precommitted(v, r, b) => Majority(prevotes, r, b)

\* A validator that precommitted b keeps its lock on b until it sees a
\* majority for another block.
LockHeld ==
    relockMissed = {} =>
        \A v \in Honest, q \in Round, b \in Block :
            Precommitted(v, q, b) /\ decision[v] = Nil =>
                \/ lockedBlock[v] = b /\ lockedRound[v] >= q
                \/ \E p \in Round, c \in Block :
                      /\ q < p /\ PastPrecommit(v, p)
                      /\ c # b /\ Majority(prevotes, p, c)

\* So it prevotes another block, while that lock binds, only after such a
\* majority in an earlier round.
PrevoteExplained ==
    relockMissed = {} =>
        \A v \in Honest, q, r \in Round, b, c \in Block :
            /\ Precommitted(v, q, b)
            /\ Prevoted(v, r, c)
            /\ q < r /\ r < q + N /\ b # c
            => \E p \in Round, d \in Block :
                  q < p /\ p < r /\ d # b /\ Majority(prevotes, p, d)

\* The validators that precommitted b in round q or may still do so.
Committers(q, b) ==
    {v \in Honest : Precommitted(v, q, b) \/ ~PastPrecommit(v, q)} \cup Faulty

\* Once another block has a majority of prevotes, b can no longer be
\* committed in an earlier round, less than N rounds before.
CommitExcluded ==
    relockMissed = {} =>
        \A q, r \in Round, b, c \in Block :
            /\ Majority(prevotes, r, c)
            /\ q < r /\ r < q + N /\ b # c
            => Cardinality(Committers(q, b)) < Quorum

IInv ==
    /\ TypeOK
    /\ PrevotesInOrder
    /\ PrecommitsInOrder
    /\ PrevotesValid
    /\ LockIsValidated
    /\ PrecommitHasMajority
    /\ LockHeld
    /\ PrevoteExplained
    /\ CommitExcluded

-----------------------------------------------------------------------------

\* The numbers of validators are natural numbers, and a quorum is more than
\* two thirds of them.
LEMMA Sizes ==
    /\ N \in Nat /\ Quorum \in Nat
    /\ IsFiniteSet(Faulty) /\ Cardinality(Faulty) \in Nat
    /\ 3 * Cardinality(Faulty) < N
    /\ 3 * Quorum > 2 * N
<1>1. N \in Nat
    BY ValidatorAssumption, FS_CardinalityType DEF N
<1>2. IsFiniteSet(Faulty) /\ Cardinality(Faulty) \in Nat
    BY ValidatorAssumption, FaultyAssumption, FS_Subset, FS_CardinalityType
<1>3. Quorum \in Nat /\ 3 * Quorum > 2 * N
    BY <1>1 DEF Quorum
<1> QED
    BY <1>1, <1>2, <1>3, FaultyAssumption

\* A set of validators that contains a quorum is one.
LEMMA QuorumMonotone ==
    ASSUME NEW A, NEW B \in SUBSET Validator, A \subseteq B,
           Cardinality(A) >= Quorum
    PROVE  Cardinality(B) >= Quorum
<1>1. IsFiniteSet(B)
    BY ValidatorAssumption, FS_Subset
<1>2. Cardinality(A) <= Cardinality(B) /\ IsFiniteSet(A)
    BY <1>1, FS_Subset
<1>3. Cardinality(A) \in Nat /\ Cardinality(B) \in Nat
    BY <1>1, <1>2, FS_CardinalityType
<1> QED
    BY <1>2, <1>3, Sizes

\* Two quorums share a validator that follows the rules.
LEMMA QuorumsShareHonest ==
    ASSUME NEW A \in SUBSET Validator, NEW B \in SUBSET Validator,
           Cardinality(A) >= Quorum, Cardinality(B) >= Quorum
    PROVE  \E v \in Honest : v \in A /\ v \in B
<1>1. IsFiniteSet(A) /\ IsFiniteSet(B) /\ A \cup B \subseteq Validator
    BY ValidatorAssumption, FS_Subset
<1>2. Cardinality(A \cup B) = Cardinality(A) + Cardinality(B) - Cardinality(A \cap B)
    BY <1>1, FS_Union
<1>3. Cardinality(A \cup B) <= N
    BY <1>1, ValidatorAssumption, FS_Subset DEF N
<1>4. IsFiniteSet(A \cup B) /\ IsFiniteSet(A \cap B)
    BY <1>1, FS_Union, FS_Intersection
<1>5. /\ Cardinality(A) \in Nat /\ Cardinality(B) \in Nat
      /\ Cardinality(A \cup B) \in Nat /\ Cardinality(A \cap B) \in Nat
    BY <1>1, <1>4, FS_CardinalityType
<1>6. Cardinality(A \cap B) > Cardinality(Faulty)
    BY <1>2, <1>3, <1>5, Sizes
<1>7. ~(A \cap B \subseteq Faulty)
    <2>1. SUFFICES ASSUME A \cap B \subseteq Faulty PROVE FALSE
        OBVIOUS
    <2>2. Cardinality(A \cap B) <= Cardinality(Faulty)
        BY <2>1, Sizes, FS_Subset
    <2> QED
        BY <2>2, <1>5, <1>6, Sizes
<1> QED
    BY <1>7 DEF Honest

\* Voters are validators.
LEMMA VotersType ==
    ASSUME NEW votes, NEW r, NEW b
    PROVE  Voters(votes, r, b) \in SUBSET Validator
BY FaultyAssumption DEF Voters, Honest

\* A majority stays one when votes are added.
LEMMA MajorityMonotone ==
    ASSUME NEW votes, NEW more, votes \subseteq more, NEW r, NEW b,
           Majority(votes, r, b)
    PROVE  Majority(more, r, b)
<1>1. Voters(votes, r, b) \subseteq Voters(more, r, b)
    BY DEF Voters
<1> QED
    BY <1>1, VotersType, QuorumMonotone DEF Majority

\* A vote only counts in its round.
LEMMA MajorityElsewhere ==
    ASSUME NEW votes, NEW more, NEW v, NEW p, NEW c, NEW r, NEW b, p # r,
           more = votes \cup {[val |-> v, round |-> p, block |-> c]}
    PROVE  Majority(more, r, b) <=> Majority(votes, r, b)
<1>1. Voters(more, r, b) = Voters(votes, r, b)
    BY DEF Voters
<1> QED
    BY <1>1 DEF Majority

\* A majority for b has a vote for b of a validator that follows the rules.
LEMMA MajorityHasHonest ==
    ASSUME NEW votes, NEW r, NEW b, Majority(votes, r, b)
    PROVE  \E v \in Honest : [val |-> v, round |-> r, block |-> b] \in votes
<1>1. PICK v \in Honest : v \in Voters(votes, r, b)
    BY VotersType, QuorumsShareHonest DEF Majority
<1> QED
    BY <1>1 DEF Voters, Honest
-----------------------------------------------------------------------------

\* What every step does: rounds and steps only advance, votes are only added,
\* and a precommit is only added by a validator that may still cast it.
Advances ==
    /\ prevotes \subseteq prevotes'
    /\ precommits \subseteq precommits'
    /\ relockMissed \subseteq relockMissed'
    /\ \A v \in Honest, r \in Round : PastPrecommit(v, r) => PastPrecommit(v, r)'
    /\ \A v \in Honest, r \in Round, b \in Block \cup {Nil} :
          Precommitted(v, r, b)' => Precommitted(v, r, b) \/ ~PastPrecommit(v, r)

\* The initial states satisfy the inductive invariant.
LEMMA InitIInv == Init => IInv
<1> SUFFICES ASSUME Init PROVE IInv
    OBVIOUS
<1>1. 0 \in Round
    BY RoundAssumption DEF Round
<1>2. TypeOK
    BY <1>1 DEF Init, TypeOK
<1>3. /\ PrevotesInOrder /\ PrecommitsInOrder /\ PrevotesValid
      /\ PrecommitHasMajority /\ LockHeld /\ PrevoteExplained
    BY DEF Init, PrevotesInOrder, PrecommitsInOrder, PrevotesValid, Prevoted,
           Precommitted, PrecommitHasMajority, LockHeld, PrevoteExplained
<1>4. LockIsValidated
    BY DEF Init, LockIsValidated
<1>5. CommitExcluded
    <2>1. \A r \in Round, c \in Block : ~Majority(prevotes, r, c)
        <3>1. SUFFICES ASSUME NEW r \in Round, NEW c \in Block, Majority(prevotes, r, c)
                       PROVE FALSE
            OBVIOUS
        <3>2. PICK v \in Honest : [val |-> v, round |-> r, block |-> c] \in prevotes
            BY <3>1, MajorityHasHonest
        <3> QED
            BY <3>2 DEF Init
    <2> QED
        BY <2>1 DEF CommitExcluded
<1> QED
    BY <1>2, <1>3, <1>4, <1>5 DEF IInv

\* The block a validator prevotes is a block or nil, and valid.
LEMMA PrevoteBlockValid ==
    ASSUME TypeOK, LockIsValidated, NEW v \in Honest
    PROVE  PrevoteBlock(v) \in ValidBlock \cup {Nil}
BY BlockAssumption DEF PrevoteBlock, LockBinds, LockIsValidated, TypeOK

\* Every step of the handler keeps the types.
LEMMA TypeKept ==
    ASSUME TypeOK, LockIsValidated, [Next]_vars
    PROVE  TypeOK'
<1> USE DEF TypeOK
<1>1. ASSUME NEW v \in Honest, NEW r \in Round, EnterNewRound(v, r) PROVE TypeOK'
    BY <1>1 DEF EnterNewRound
<1>2. ASSUME NEW v \in Honest, NEW b \in Block, DecideProposal(v, b) PROVE TypeOK'
    BY <1>2 DEF DecideProposal
<1>3. ASSUME NEW v \in Honest, NEW b \in Block, ReceiveProposal(v, b) PROVE TypeOK'
    BY <1>3 DEF ReceiveProposal
<1>4. ASSUME NEW v \in Honest, EnterPrevote(v) PROVE TypeOK'
    <2>1. PrevoteBlock(v) \in Block \cup {Nil}
        BY PrevoteBlockValid, BlockAssumption
    <2>2. [val |-> v, round |-> round[v], block |-> PrevoteBlock(v)] \in Vote
        BY <2>1 DEF Vote
    <2> QED
        BY <1>4, <2>2 DEF EnterPrevote
<1>5. ASSUME NEW v \in Honest, EnterPrevoteWait(v) PROVE TypeOK'
    BY <1>5 DEF EnterPrevoteWait
<1>6. ASSUME NEW v \in Honest, PrecommitNil(v) PROVE TypeOK'
    <2>1. [val |-> v, round |-> round[v], block |-> Nil] \in Vote
        BY DEF Vote
    <2> QED
        BY <1>6, <2>1 DEF PrecommitNil, Precommit
<1>7. ASSUME NEW v \in Honest, PrecommitLock(v) PROVE TypeOK'
    <2>1. [val |-> v, round |-> round[v], block |-> proposal[v]] \in Vote
        BY DEF Vote
    <2> QED
        BY <1>7, <2>1 DEF PrecommitLock, Precommit
<1>8. ASSUME NEW v \in Honest, NEW b \in Block, PrecommitUnlock(v, b) PROVE TypeOK'
    <2>1. [val |-> v, round |-> round[v], block |-> Nil] \in Vote
        BY DEF Vote
    <2>2. 0 \in Round
        BY RoundAssumption DEF Round
    <2> QED
        BY <1>8, <2>1, <2>2 DEF PrecommitUnlock, Precommit
<1>9. ASSUME NEW v \in Honest, NEW r \in Round, NEW b \in Block, EnterCommit(v, r, b)
      PROVE TypeOK'
    <2>1. 0 \in Round
        BY RoundAssumption DEF Round
    <2> QED
        BY <1>9, <2>1 DEF EnterCommit
<1>10. ASSUME UNCHANGED vars PROVE TypeOK'
    BY <1>10 DEF vars
<1> QED
    BY <1>1, <1>2, <1>3, <1>4, <1>5, <1>6, <1>7, <1>8, <1>9, <1>10 DEF Next
\* Every step advances.
LEMMA StepAdvances ==
    ASSUME TypeOK, [Next]_vars
    PROVE  Advances
<1> USE DEF TypeOK, Advances, PastPrecommit, Precommitted, Round
<1>1. ASSUME NEW v \in Honest, NEW r \in Round, EnterNewRound(v, r) PROVE Advances
    BY <1>1 DEF EnterNewRound
<1>2. ASSUME NEW v \in Honest, NEW b \in Block, DecideProposal(v, b) PROVE Advances
    BY <1>2 DEF DecideProposal
<1>3. ASSUME NEW v \in Honest, NEW b \in Block, ReceiveProposal(v, b) PROVE Advances
    BY <1>3 DEF ReceiveProposal
<1>4. ASSUME NEW v \in Honest, EnterPrevote(v) PROVE Advances
    BY <1>4 DEF EnterPrevote
<1>5. ASSUME NEW v \in Honest, EnterPrevoteWait(v) PROVE Advances
    BY <1>5 DEF EnterPrevoteWait
<1>6. ASSUME NEW v \in Honest, PrecommitNil(v) PROVE Advances
    BY <1>6 DEF PrecommitNil, Precommit
<1>7. ASSUME NEW v \in Honest, PrecommitLock(v) PROVE Advances
    BY <1>7 DEF PrecommitLock, Precommit
<1>8. ASSUME NEW v \in Honest, NEW b \in Block, PrecommitUnlock(v, b) PROVE Advances
    BY <1>8 DEF PrecommitUnlock, Precommit
<1>9. ASSUME NEW v \in Honest, NEW r \in Round, NEW b \in Block, EnterCommit(v, r, b)
      PROVE Advances
    BY <1>9 DEF EnterCommit
<1>10. ASSUME UNCHANGED vars PROVE Advances
    BY <1>10 DEF vars
<1> QED
    BY <1>1, <1>2, <1>3, <1>4, <1>5, <1>6, <1>7, <1>8, <1>9, <1>10 DEF Next

\* So the validators that can still commit a block in a round only get fewer.
LEMMA CommittersShrink ==
    ASSUME Advances, NEW q \in Round, NEW b \in Block
    PROVE  Committers(q, b)' \subseteq Committers(q, b)
BY DEF Committers, Advances

\* A step adds no prevote, or is an EnterPrevote.
LEMMA PrevoteStep ==
    ASSUME [Next]_vars
    PROVE  prevotes' = prevotes \/ \E v \in Honest : EnterPrevote(v)
BY DEF Next, vars, EnterNewRound, DecideProposal, ReceiveProposal, EnterPrevoteWait,
       PrecommitNil, PrecommitLock, PrecommitUnlock, Precommit, EnterCommit
\* Prevotes stay in order.
LEMMA PrevotesInOrderKept ==
    ASSUME IInv, [Next]_vars
    PROVE  PrevotesInOrder'
<1> USE DEF IInv, TypeOK, PrevotesInOrder, Prevoted, Round
<1>1. ASSUME NEW v \in Honest, NEW r \in Round, EnterNewRound(v, r)
      PROVE  PrevotesInOrder'
    BY <1>1 DEF EnterNewRound
<1>2. ASSUME NEW v \in Honest, EnterPrevote(v) PROVE PrevotesInOrder'
    BY <1>2 DEF EnterPrevote
<1>3. ASSUME NEW v \in Honest, EnterPrevoteWait(v) PROVE PrevotesInOrder'
    BY <1>3 DEF EnterPrevoteWait
<1>4. ASSUME NEW v \in Honest, NEW b, Precommit(v, b) PROVE PrevotesInOrder'
    BY <1>4 DEF Precommit
<1>5. ASSUME UNCHANGED <<prevotes, round, step>> PROVE PrevotesInOrder'
    BY <1>5
<1> QED
    BY <1>1, <1>2, <1>3, <1>4, <1>5 DEF Next, vars, DecideProposal, ReceiveProposal,
       PrecommitNil, PrecommitLock, PrecommitUnlock, EnterCommit

\* Precommits stay in order, one per round.
LEMMA PrecommitsInOrderKept ==
    ASSUME IInv, [Next]_vars
    PROVE  PrecommitsInOrder'
<1> USE DEF IInv, TypeOK, PrecommitsInOrder, Precommitted, PastPrecommit, Round
<1>1. ASSUME NEW v \in Honest, NEW r \in Round, EnterNewRound(v, r)
      PROVE  PrecommitsInOrder'
    BY <1>1 DEF EnterNewRound
<1>2. ASSUME NEW v \in Honest, EnterPrevote(v) \/ EnterPrevoteWait(v)
      PROVE  PrecommitsInOrder'
    BY <1>2 DEF EnterPrevote, EnterPrevoteWait
<1>3. ASSUME NEW v \in Honest, NEW b, Precommit(v, b) PROVE PrecommitsInOrder'
    BY <1>3 DEF Precommit
<1>4. ASSUME UNCHANGED <<precommits, round, step>> PROVE PrecommitsInOrder'
    BY <1>4
<1> QED
    BY <1>1, <1>2, <1>3, <1>4 DEF Next, vars, DecideProposal, ReceiveProposal,
       PrecommitNil, PrecommitLock, PrecommitUnlock, EnterCommit

\* Only validated blocks are prevoted.
LEMMA PrevotesValidKept ==
    ASSUME IInv, [Next]_vars
    PROVE  PrevotesValid'
<1>1. CASE prevotes' = prevotes
    BY <1>1 DEF IInv, PrevotesValid, Prevoted
<1>2. ASSUME NEW v \in Honest, EnterPrevote(v) PROVE PrevotesValid'
    <2>1. PrevoteBlock(v) \in ValidBlock \cup {Nil}
        BY PrevoteBlockValid DEF IInv
    <2> QED
        BY <1>2, <2>1, BlockAssumption DEF EnterPrevote, IInv, PrevotesValid, Prevoted
<1> QED
    BY <1>1, <1>2, PrevoteStep

\* Only validated blocks are locked: a majority of prevotes contains one of a
\* validator that follows the rules.
LEMMA LockIsValidatedKept ==
    ASSUME IInv, [Next]_vars
    PROVE  LockIsValidated'
<1> USE DEF LockIsValidated
<1>1. CASE lockedBlock' = lockedBlock
    BY <1>1 DEF IInv
<1>2. ASSUME NEW v \in Honest, PrecommitLock(v) PROVE LockIsValidated'
    <2>1. PICK w \in Honest : Prevoted(w, round[v], proposal[v])
        BY <1>2, MajorityHasHonest DEF PrecommitLock, Prevoted
    <2>2. proposal[v] \in ValidBlock
        BY <1>2, <2>1 DEF IInv, TypeOK, PrevotesValid, PrecommitLock
    <2> QED
        BY <1>2, <2>2 DEF IInv, TypeOK, PrecommitLock
<1>3. ASSUME NEW v \in Honest, NEW b \in Block, PrecommitUnlock(v, b)
      PROVE  LockIsValidated'
    BY <1>3 DEF IInv, TypeOK, PrecommitUnlock
<1>4. ASSUME NEW v \in Honest, NEW r \in Round, NEW b \in Block, EnterCommit(v, r, b)
      PROVE  LockIsValidated'
    BY <1>4 DEF IInv, TypeOK, EnterCommit
<1> QED
    BY <1>1, <1>2, <1>3, <1>4 DEF Next, vars, EnterNewRound, DecideProposal,
       ReceiveProposal, EnterPrevote, EnterPrevoteWait, PrecommitNil

\* A block is precommitted on a majority of prevotes only.
LEMMA PrecommitHasMajorityKept ==
    ASSUME IInv, Advances, [Next]_vars
    PROVE  PrecommitHasMajority'
<1>1. \A r \in Round, b \in Block : Majority(prevotes, r, b) => Majority(prevotes', r, b)
    BY MajorityMonotone DEF Advances
<1>2. (\A r \in Round, b \in Block : Majority(prevotes, r, b) => Majority(prevotes, r, b)')
    BY <1>1 DEF Majority, Voters
<1>3. CASE precommits' = precommits
    BY <1>2, <1>3 DEF IInv, PrecommitHasMajority, Precommitted
<1>4. ASSUME NEW v \in Honest, Precommit(v, Nil) PROVE PrecommitHasMajority'
    BY <1>2, <1>4, BlockAssumption
    DEF IInv, PrecommitHasMajority, Precommitted, Precommit
<1>5. ASSUME NEW v \in Honest, PrecommitLock(v) PROVE PrecommitHasMajority'
    BY <1>2, <1>5 DEF IInv, TypeOK, PrecommitHasMajority, Precommitted, Precommit, PrecommitLock
<1> QED
    BY <1>3, <1>4, <1>5 DEF Next, vars, EnterNewRound, DecideProposal,
       ReceiveProposal, EnterPrevote, EnterPrevoteWait, PrecommitNil, PrecommitUnlock,
       EnterCommit

\* Who prevoted c and is still able to commit b, in an earlier round,
\* precommitted b and, as its lock bound it, has an explanation.
LEMMA ExcludedByPrevote ==
    ASSUME IInv, TypeOK', Advances, PrevotesInOrder', PrevoteExplained',
           relockMissed' = {},
           NEW v \in Honest, EnterPrevote(v),
           NEW q \in Round, NEW r \in Round, NEW b \in Block, NEW c \in Block,
           Majority(prevotes', r, c), q < r, r < q + N, b # c
    PROVE  Cardinality(Committers(q, b)') < Quorum
<1> DEFINE old == Committers(q, b)
           new == Committers(q, b)'
<1>1. new \subseteq old /\ old \in SUBSET Validator /\ new \in SUBSET Validator
    BY CommittersShrink, FaultyAssumption DEF IInv, Committers, Honest
<1>2. SUFFICES ASSUME Cardinality(new) >= Quorum PROVE FALSE
    <2>1. Cardinality(new) \in Nat
        BY <1>1, ValidatorAssumption, FS_Subset, FS_CardinalityType
    <2> QED
        BY <2>1, Sizes
<1>3. relockMissed = {}
    BY DEF Advances
<1>4. Cardinality(old) >= Quorum
    BY <1>1, <1>2, QuorumMonotone
<1>5. PICK w \in Honest : w \in Voters(prevotes', r, c) /\ w \in new
    BY <1>1, <1>2, VotersType, QuorumsShareHonest DEF Majority
<1>6. Prevoted(w, r, c)'
    BY <1>5 DEF Voters, Prevoted, Honest
<1>7. PastPrecommit(w, q)'
    BY <1>6 DEF PrevotesInOrder, PastPrecommit, TypeOK, Round
<1>8. Precommitted(w, q, b)'
    BY <1>5, <1>7 DEF Committers, Honest
<1>9. PICK p \in Round, d \in Block :
          q < p /\ p < r /\ d # b /\ Majority(prevotes', p, d)
    BY <1>6, <1>8 DEF PrevoteExplained
<1>10. SUFFICES \E p1 \in Round, d1 \in Block :
           q < p1 /\ p1 < q + N /\ d1 # b /\ Majority(prevotes, p1, d1)
    <2>1. Cardinality(old) \in Nat
        BY <1>1, ValidatorAssumption, FS_Subset, FS_CardinalityType
    <2> QED
        BY <2>1, <1>3, <1>4, Sizes DEF IInv, CommitExcluded
<1>11. CASE r # round[v]
    <2>1. Majority(prevotes, r, c)
        BY <1>11, MajorityElsewhere DEF EnterPrevote
    <2> QED
        BY <2>1
<1>12. CASE r = round[v]
    <2>1. p # round[v]
        BY <1>9, <1>12 DEF Round
    <2>2. Majority(prevotes, p, d)
        BY <2>1, <1>9, MajorityElsewhere DEF EnterPrevote
    <2>3. p < q + N
        BY <1>9, Sizes DEF Round
    <2> QED
        BY <2>2, <2>3, <1>9
<1> QED
    BY <1>11, <1>12
\* A lock is only given up on a majority for another block.
LEMMA LockHeldKept ==
    ASSUME IInv, TypeOK', Advances, [Next]_vars
    PROVE  LockHeld'
<1> SUFFICES ASSUME relockMissed' = {}, NEW w \in Honest, NEW q \in Round, NEW b \in Block,
                    Precommitted(w, q, b)', decision'[w] = Nil
             PROVE  \/ lockedBlock'[w] = b /\ lockedRound'[w] >= q
                    \/ \E p \in Round, c \in Block :
                          /\ q < p /\ PastPrecommit(w, p)'
                          /\ c # b /\ Majority(prevotes, p, c)'
    BY DEF LockHeld
<1> DEFINE Held == lockedBlock[w] = b /\ lockedRound[w] >= q
           Seen == \E p \in Round, c \in Block :
                      q < p /\ PastPrecommit(w, p) /\ c # b /\ Majority(prevotes, p, c)
           HeldAfter == lockedBlock'[w] = b /\ lockedRound'[w] >= q
           SeenAfter == \E p \in Round, c \in Block :
                           /\ q < p /\ PastPrecommit(w, p)'
                           /\ c # b /\ Majority(prevotes, p, c)'
<1>1. relockMissed = {}
    BY DEF Advances
<1>2. \A p \in Round, c \in Block : Majority(prevotes, p, c) => Majority(prevotes, p, c)'
    <2>1. \A p \in Round, c \in Block : Majority(prevotes, p, c) => Majority(prevotes', p, c)
        BY MajorityMonotone DEF Advances
    <2> QED
        BY <2>1 DEF Majority, Voters
<1>3. Seen => SeenAfter
    BY <1>2 DEF Advances
<1>4. Precommitted(w, q, b) /\ decision[w] = Nil => Held \/ Seen
    BY <1>1 DEF IInv, LockHeld
<1>5. ASSUME lockedBlock' = lockedBlock, lockedRound' = lockedRound, decision' = decision,
             Precommitted(w, q, b)
      PROVE  HeldAfter \/ SeenAfter
    BY <1>3, <1>4, <1>5
<1>6. ASSUME NEW v \in Honest, PrecommitNil(v) PROVE HeldAfter \/ SeenAfter
    <2>1. Precommitted(w, q, b)
        BY <1>6, BlockAssumption DEF PrecommitNil, Precommit, Precommitted
    <2> QED
        BY <1>5, <1>6, <2>1 DEF PrecommitNil, Precommit
<1>7. ASSUME NEW v \in Honest, PrecommitLock(v) PROVE HeldAfter \/ SeenAfter
    <2>1. CASE w # v
        <3>1. Precommitted(w, q, b) /\ decision[w] = Nil
            BY <1>7, <2>1 DEF PrecommitLock, Precommit, Precommitted
        <3>2. lockedBlock'[w] = lockedBlock[w] /\ lockedRound'[w] = lockedRound[w]
            BY <1>7, <2>1 DEF PrecommitLock, IInv, TypeOK
        <3> QED
            BY <1>3, <1>4, <3>1, <3>2
    <2>2. CASE w = v
        <3>1. lockedBlock'[v] = proposal[v] /\ lockedRound'[v] = round[v]
            BY <1>7 DEF PrecommitLock, IInv, TypeOK
        <3>2. CASE Precommitted(v, q, b)
            <4>1. q < round[v] /\ decision[v] = Nil
                BY <1>7, <3>2 DEF IInv, PrecommitsInOrder, PastPrecommit, PrecommitLock, Precommit
            <4>2. PICK p \in Round, c \in Block : p = round[v] /\ c = proposal[v]
                BY <1>7 DEF PrecommitLock, IInv, TypeOK
            <4>3. proposal[v] # b => SeenAfter
                <5>1. PastPrecommit(v, p)'
                    BY <1>7, <4>2 DEF PrecommitLock, Precommit, PastPrecommit, IInv, TypeOK
                <5>2. Majority(prevotes, p, c)'
                    BY <1>2, <1>7, <4>2 DEF PrecommitLock
                <5> QED
                    BY <2>2, <4>1, <4>2, <5>1, <5>2
            <4>4. proposal[v] = b => HeldAfter
                BY <2>2, <3>1, <4>1 DEF IInv, TypeOK, Round
            <4> QED
                BY <4>3, <4>4
        <3>3. CASE ~Precommitted(v, q, b)
            <4>1. q = round[v] /\ b = proposal[v]
                BY <1>7, <2>2, <3>3 DEF PrecommitLock, Precommit, Precommitted
            <4> QED
                BY <2>2, <3>1, <4>1 DEF Round
        <3> QED
            BY <3>2, <3>3
    <2> QED
        BY <2>1, <2>2
<1>8. ASSUME NEW v \in Honest, NEW d \in Block, PrecommitUnlock(v, d)
      PROVE  HeldAfter \/ SeenAfter
    <2>1. Precommitted(w, q, b) /\ decision[w] = Nil
        BY <1>8, BlockAssumption DEF PrecommitUnlock, Precommit, Precommitted
    <2>2. CASE w # v
        <3>1. lockedBlock'[w] = lockedBlock[w] /\ lockedRound'[w] = lockedRound[w]
            BY <1>8, <2>2 DEF PrecommitUnlock, IInv, TypeOK
        <3> QED
            BY <1>3, <1>4, <2>1, <3>1
    <2>3. CASE w = v /\ lockedBlock[v] = b
        <3>1. d # b
            BY <1>8, <2>3 DEF PrecommitUnlock
        <3>2. q < round[v]
            BY <1>8, <2>1, <2>3
            DEF IInv, PrecommitsInOrder, PastPrecommit, PrecommitUnlock, Precommit
        <3>3. PICK p \in Round : p = round[v]
            BY DEF IInv, TypeOK
        <3>4. PastPrecommit(v, p)'
            BY <1>8, <3>3 DEF PrecommitUnlock, Precommit, PastPrecommit, IInv, TypeOK
        <3>5. Majority(prevotes, p, d)'
            BY <1>2, <1>8, <3>3 DEF PrecommitUnlock
        <3> QED
            BY <2>3, <3>1, <3>2, <3>3, <3>4, <3>5
    <2>4. CASE w = v /\ lockedBlock[v] # b
        BY <1>3, <1>4, <2>1, <2>4
    <2> QED
        BY <2>2, <2>3, <2>4
<1>9. ASSUME NEW v \in Honest, NEW r \in Round, NEW d \in Block, EnterCommit(v, r, d)
      PROVE  HeldAfter \/ SeenAfter
    <2>1. w # v
        BY <1>9, BlockAssumption DEF EnterCommit, IInv, TypeOK
    <2>2. /\ Precommitted(w, q, b) /\ decision[w] = Nil
          /\ lockedBlock'[w] = lockedBlock[w] /\ lockedRound'[w] = lockedRound[w]
        BY <1>9, <2>1 DEF EnterCommit, Precommitted, IInv, TypeOK
    <2> QED
        BY <1>3, <1>4, <2>2
<1> QED
    BY <1>5, <1>6, <1>7, <1>8, <1>9 DEF Next, vars, EnterNewRound, DecideProposal,
       ReceiveProposal, EnterPrevote, EnterPrevoteWait, Precommitted

\* A prevote for another block is explained: the lock was given up, on a
\* majority that is in an earlier round as v is still at its propose step.
LEMMA PrevoteExplainedKept ==
    ASSUME IInv, Advances, [Next]_vars
    PROVE  PrevoteExplained'
<1> SUFFICES ASSUME relockMissed' = {}, NEW w \in Honest, NEW q \in Round, NEW r \in Round,
                    NEW b \in Block, NEW c \in Block,
                    Precommitted(w, q, b)', Prevoted(w, r, c)',
                    q < r, r < q + N, b # c
             PROVE  \E p \in Round, d \in Block :
                        q < p /\ p < r /\ d # b /\ Majority(prevotes, p, d)'
    BY DEF PrevoteExplained
<1>1. relockMissed = {}
    BY DEF Advances
<1>2. \A p \in Round, d \in Block : Majority(prevotes, p, d) => Majority(prevotes, p, d)'
    <2>1. \A p \in Round, d \in Block : Majority(prevotes, p, d) => Majority(prevotes', p, d)
        BY MajorityMonotone DEF Advances
    <2> QED
        BY <2>1 DEF Majority, Voters
<1>3. CASE Prevoted(w, r, c)
    <2>1. PastPrecommit(w, q)
        BY <1>3 DEF IInv, PrevotesInOrder, PastPrecommit, TypeOK, Round
    <2>2. Precommitted(w, q, b)
        BY <2>1 DEF Advances
    <2> QED
        BY <1>1, <1>2, <1>3, <2>2 DEF IInv, PrevoteExplained
<1>4. CASE ~Prevoted(w, r, c)
    <2>1. PICK v \in Honest : EnterPrevote(v)
        BY <1>4, PrevoteStep DEF Prevoted
    <2>2. w = v /\ r = round[w] /\ c = PrevoteBlock(w)
        BY <1>4, <2>1 DEF EnterPrevote, Prevoted
    <2>3. /\ Precommitted(w, q, b) /\ decision[w] = Nil /\ step[w] = "propose"
        BY <2>1, <2>2 DEF EnterPrevote, Precommitted
    <2>4. ~(lockedBlock[w] = b /\ lockedRound[w] >= q)
        <3>1. SUFFICES ASSUME lockedBlock[w] = b, lockedRound[w] >= q PROVE FALSE
            OBVIOUS
        <3>2. LockBinds(w)
            BY <2>2, <3>1, Sizes, BlockAssumption DEF LockBinds, IInv, TypeOK, Round
        <3>3. PrevoteBlock(w) \in {b, Nil}
            BY <3>1, <3>2 DEF PrevoteBlock
        <3> QED
            BY <2>2, <3>3, BlockAssumption
    <2>5. PICK p \in Round, d \in Block :
              q < p /\ PastPrecommit(w, p) /\ d # b /\ Majority(prevotes, p, d)
        BY <1>1, <2>3, <2>4 DEF IInv, LockHeld
    <2>6. p < r
        BY <2>2, <2>3, <2>5 DEF PastPrecommit
    <2> QED
        BY <1>2, <2>5, <2>6
<1> QED
    BY <1>3, <1>4
\* A majority of prevotes excludes the commit of another block.
LEMMA CommitExcludedKept ==
    ASSUME IInv, TypeOK', Advances, PrevotesInOrder', PrevoteExplained', [Next]_vars
    PROVE  CommitExcluded'
<1> SUFFICES ASSUME relockMissed' = {}, NEW q \in Round, NEW r \in Round,
                    NEW b \in Block, NEW c \in Block,
                    Majority(prevotes, r, c)', q < r, r < q + N, b # c
             PROVE  Cardinality(Committers(q, b)') < Quorum
    BY DEF CommitExcluded, Quorum, N
<1>1. Majority(prevotes', r, c)
    BY DEF Majority, Voters, Quorum, N
<1>2. CASE prevotes' = prevotes
    <2>1. Cardinality(Committers(q, b)) < Quorum
        BY <1>1, <1>2 DEF IInv, CommitExcluded, Advances
    <2>2. Committers(q, b)' \subseteq Committers(q, b) /\ Committers(q, b) \in SUBSET Validator
        BY CommittersShrink, FaultyAssumption DEF Committers, Honest
    <2>3. /\ Cardinality(Committers(q, b)') <= Cardinality(Committers(q, b))
          /\ Cardinality(Committers(q, b)') \in Nat /\ Cardinality(Committers(q, b)) \in Nat
        BY <2>2, ValidatorAssumption, FS_Subset, FS_CardinalityType
    <2> QED
        BY <2>1, <2>3, Sizes
<1>3. ASSUME NEW v \in Honest, EnterPrevote(v)
      PROVE  Cardinality(Committers(q, b)') < Quorum
    BY <1>1, <1>3, ExcludedByPrevote
<1> QED
    BY <1>2, <1>3, PrevoteStep

\* IInv is inductive.
LEMMA Inductive == IInv /\ [Next]_vars => IInv'
<1> SUFFICES ASSUME IInv, [Next]_vars PROVE IInv'
    OBVIOUS
<1>1. TypeOK' /\ Advances
    BY TypeKept, StepAdvances DEF IInv
<1>2. PrevotesInOrder' /\ PrecommitsInOrder' /\ PrevotesValid' /\ LockIsValidated'
    BY PrevotesInOrderKept, PrecommitsInOrderKept, PrevotesValidKept, LockIsValidatedKept
<1>3. PrecommitHasMajority' /\ LockHeld' /\ PrevoteExplained'
    BY <1>1, PrecommitHasMajorityKept, LockHeldKept, PrevoteExplainedKept
<1>4. CommitExcluded'
    BY <1>1, <1>2, <1>3, CommitExcludedKept
<1> QED
    BY <1>1, <1>2, <1>3, <1>4 DEF IInv

\* IInv holds in every reachable state.
LEMMA Invariance == Spec => []IInv
<1>1. IInv /\ UNCHANGED vars => IInv'
    BY Inductive
<1> QED
    BY InitIInv, Inductive, PTL DEF Spec

\* The state of the handlers, and the votes they sign, are well formed.
THEOREM TypeCorrect == Spec => []TypeOK
BY Invariance, PTL DEF IInv

\* enterPrecommit locks only blocks that a validator accepted with
\* ValidateBlock, so defaultDoPrevote may prevote a locked block unseen.
THEOREM LockAlwaysValidated == Spec => []LockIsValidated
BY Invariance, PTL DEF IInv

\* In the states of IInv, one round commits one block: the two majorities share a
\* validator, which precommits once in a round.
LEMMA OneCommit == IInv => OneCommitPerRound
<1> SUFFICES ASSUME IInv, NEW r \in Round, NEW b \in Block, NEW c \in Block,
                Majority(precommits, r, b), Majority(precommits, r, c)
         PROVE  b = c
    BY DEF OneCommitPerRound
<1>1. PICK v \in Honest :
      v \in Voters(precommits, r, b) /\ v \in Voters(precommits, r, c)
    BY VotersType, QuorumsShareHonest DEF Majority
<1>2. Precommitted(v, r, b) /\ Precommitted(v, r, c)
    BY <1>1 DEF Voters, Precommitted, Honest
<1> QED
    BY <1>2 DEF IInv, PrecommitsInOrder

\* The precommits of one round commit at most one block (enterCommit).
THEOREM OneCommitPerRoundEver == Spec => []OneCommitPerRound
BY OneCommit, Invariance, PTL

\* Blocks committed in rounds less than N apart are the same, for any number
\* of validators, as long as no validator dropped its lock in enterPrecommit on
\* a majority for the locked block.
THEOREM AgreementProved == Spec => []AgreementWhileLocked
<1>1. IInv => AgreementWhileLocked
    <2> SUFFICES ASSUME IInv, relockMissed = {}, NEW q \in Round, NEW r \in Round,
                        NEW b \in Block, NEW c \in Block,
                        Majority(precommits, q, b), Majority(precommits, r, c),
                        q <= r, r < q + N, b # c
                 PROVE  FALSE
        BY DEF AgreementWhileLocked
    <2>1. q < r
        BY OneCommit DEF OneCommitPerRound, Round
    <2>2. PICK v \in Honest : Precommitted(v, r, c)
        BY MajorityHasHonest DEF Precommitted
    <2>3. Majority(prevotes, r, c)
        BY <2>2 DEF IInv, PrecommitHasMajority
    <2>4. Cardinality(Committers(q, b)) < Quorum
        BY <2>1, <2>3 DEF IInv, CommitExcluded
    <2>5. /\ Voters(precommits, q, b) \subseteq Committers(q, b)
          /\ Committers(q, b) \in SUBSET Validator
        BY FaultyAssumption DEF Voters, Committers, Precommitted, Honest
    <2>6. Cardinality(Committers(q, b)) >= Quorum
        BY <2>5, QuorumMonotone DEF Majority
    <2>7. Cardinality(Committers(q, b)) \in Nat
        BY <2>5, ValidatorAssumption, FS_Subset, FS_CardinalityType
    <2> QED
        BY <2>4, <2>6, <2>7, Sizes
<1> QED
    BY <1>1, Invariance, PTL
=============================================================================
