--------------------------- MODULE VoteSetProofs ---------------------------
(***************************************************************************)
(* Proofs about VoteSet, for every finite validator set.                   *)
(***************************************************************************)
EXTENDS VoteSet, FiniteSetTheorems, TLAPS

\* Every subset of the validators is finite and no larger than the set.
LEMMA SubsetCard ==
    ASSUME NEW S \in SUBSET Validator
    PROVE  /\ IsFiniteSet(S)
           /\ Cardinality(S) \in Nat
           /\ Cardinality(S) <= TotalVotingPower
  BY ValidatorAssumption, FS_Subset, FS_CardinalityType DEF TotalVotingPower

LEMMA SubsetMonotone ==
    ASSUME NEW T \in SUBSET Validator, NEW S \in SUBSET T
    PROVE  Cardinality(S) <= Cardinality(T)
  BY SubsetCard, FS_Subset

LEMMA QuorumType == Quorum \in Nat /\ Quorum >= 1 /\ TotalVotingPower \in Nat
  BY SubsetCard, SMT DEF Quorum, TotalVotingPower

\* The voters that are counted under any block have a canonical vote, the
\* ones counted under maj23 have it for maj23, and they are a quorum; the
\* sum is the number of canonical votes.
Voted == {v \in Validator : votes[v] # NoVote}

CountedIsCanonical ==
    \A b \in BlockID : votesByBlock[b] \subseteq Voted

MajorityIsCanonical ==
    maj23 # NoVote => /\ votesByBlock[maj23] \subseteq CommitVoters
                      /\ Cardinality(votesByBlock[maj23]) >= Quorum

SumIsVoted == sum = Cardinality(Voted)

QuorumIsMajority ==
    maj23 = NoVote => \A b \in BlockID : Cardinality(votesByBlock[b]) < Quorum

IInv ==
    /\ TypeOK
    /\ CountedIsCanonical
    /\ MajorityIsCanonical
    /\ SumIsVoted
    /\ QuorumIsMajority

LEMMA InitIInv == Init => IInv
  <1> SUFFICES ASSUME Init PROVE IInv
    OBVIOUS
  <1>1. TypeOK
    BY QuorumType DEF Init, TypeOK, Errors
  <1>2. Voted = {}
    BY DEF Init, Voted
  <1>3. Cardinality({}) = 0
    BY FS_EmptySet
  <1>4. SumIsVoted
    BY <1>2, <1>3 DEF Init, SumIsVoted
  <1>5. QuorumIsMajority
    BY <1>3, QuorumType DEF Init, QuorumIsMajority
  <1> QED
    BY <1>1, <1>2, <1>4, <1>5 DEF IInv, Init, CountedIsCanonical, MajorityIsCanonical

\* Steps that leave the tally alone.
LEMMA RefuseKeeps ==
    ASSUME IInv, TypeOK',
           UNCHANGED <<votes, sum, votesByBlock, maj23>>
    PROVE  IInv'
  BY DEF IInv, CountedIsCanonical, MajorityIsCanonical, SumIsVoted,
         QuorumIsMajority, Voted, CommitVoters

LEMMA CountType ==
    ASSUME TypeOK, NEW v \in Validator, NEW b \in BlockID,
           NEW canonical \in [Validator -> BlockID \cup {NoVote}],
           Count(v, b, canonical)
    PROVE  /\ votes' \in [Validator -> BlockID \cup {NoVote}]
           /\ votesByBlock' \in [BlockID -> SUBSET Validator]
           /\ tracked' \subseteq BlockID
           /\ tracked \subseteq tracked'
           /\ maj23' \in BlockID \cup {NoVote}
  BY DEF TypeOK, Count

\* Counting a vote of v for b keeps the tally's invariant, given the
\* canonical votes that the call is about to store.
LEMMA CountKeeps ==
    ASSUME IInv, NEW v \in Validator, NEW b \in BlockID,
           NEW canonical \in [Validator -> BlockID \cup {NoVote}],
           canonical[v] # NoVote,
           \A w \in Validator : votes[w] # NoVote => canonical[w] # NoVote,
           maj23 # NoVote => \A w \in CommitVoters : canonical[w] = maj23,
           maj23 = b => canonical[v] = b,
           Count(v, b, canonical)
    PROVE  /\ CountedIsCanonical'
           /\ MajorityIsCanonical'
           /\ QuorumIsMajority'
           /\ \A w \in Validator : votes'[w] # NoVote <=> canonical[w] # NoVote
  <1> DEFINE voters == votesByBlock[b] \cup {v}
  <1>0. /\ voters \in SUBSET Validator
        /\ votesByBlock[b] \in SUBSET voters
        /\ votesByBlock' = [votesByBlock EXCEPT ![b] = voters]
        /\ votesByBlock'[b] = voters
        /\ votesByBlock \in [BlockID -> SUBSET Validator]
        /\ b # NoVote
    BY NoVoteAssumption DEF IInv, TypeOK, Count
  <1>1. /\ Cardinality(voters) \in Nat
        /\ Cardinality(votesByBlock[b]) \in Nat
        /\ Cardinality(votesByBlock[b]) <= Cardinality(voters)
    BY <1>0, SubsetCard, SubsetMonotone
  <1>2. \A w \in voters : canonical[w] # NoVote
    BY <1>0 DEF IInv, CountedIsCanonical, Voted
  <1>3. CASE FirstQuorum(b, voters)
    <2>1. /\ maj23' = b
          /\ votes' = [w \in Validator |-> IF w \in voters THEN b ELSE canonical[w]]
      BY <1>3 DEF Count
    <2>2. \A w \in Validator : votes'[w] # NoVote <=> canonical[w] # NoVote
      BY <2>1, <1>0, <1>2
    <2>3. CountedIsCanonical'
      BY <2>2, <1>0, <1>2 DEF IInv, CountedIsCanonical, Voted
    <2>4. voters \subseteq CommitVoters'
      BY <2>1, <1>0 DEF CommitVoters
    <2>5. Quorum <= Cardinality(voters)
      BY <1>3 DEF FirstQuorum
    <2>6. MajorityIsCanonical'
      BY <2>1, <2>4, <2>5, <1>0, <1>1, QuorumType DEF MajorityIsCanonical
    <2> QED
      BY <2>1, <2>2, <2>3, <2>6, <1>0 DEF QuorumIsMajority
  <1>4. CASE ~ FirstQuorum(b, voters)
    <2>1. maj23' = maj23 /\ votes' = canonical
      BY <1>4 DEF Count
    <2>2. CountedIsCanonical'
      BY <2>1, <1>0, <1>2 DEF IInv, CountedIsCanonical, Voted
    <2>3. MajorityIsCanonical'
      <3> SUFFICES ASSUME maj23 # NoVote
                   PROVE  /\ votesByBlock'[maj23] \subseteq CommitVoters'
                          /\ Cardinality(votesByBlock'[maj23]) >= Quorum
        BY <2>1 DEF MajorityIsCanonical
      <3>0. /\ maj23 \in BlockID
            /\ votesByBlock[maj23] \subseteq CommitVoters
            /\ Cardinality(votesByBlock[maj23]) >= Quorum
        BY DEF IInv, TypeOK, MajorityIsCanonical
      <3>1. votesByBlock'[maj23] = IF maj23 = b THEN voters ELSE votesByBlock[maj23]
        BY <3>0, <1>0
      <3>2. \A w \in votesByBlock'[maj23] : w \in Validator /\ canonical[w] = maj23
        BY <3>0, <3>1, <1>0 DEF CommitVoters
      <3>3. Cardinality(votesByBlock'[maj23]) >= Quorum
        BY <3>0, <3>1, <1>1, QuorumType
      <3> QED
        BY <3>2, <3>3, <2>1 DEF CommitVoters
    <2>4. QuorumIsMajority'
      <3> SUFFICES ASSUME maj23 = NoVote, NEW c \in BlockID
                   PROVE  Cardinality(votesByBlock'[c]) < Quorum
        BY <2>1 DEF QuorumIsMajority
      <3>1. Cardinality(votesByBlock[b]) < Quorum /\ Cardinality(votesByBlock[c]) < Quorum
        BY DEF IInv, QuorumIsMajority
      <3>2. Cardinality(voters) < Quorum
        BY <3>1, <1>4, <1>1, QuorumType DEF FirstQuorum
      <3> QED
        BY <3>1, <3>2, <1>0
    <2> QED
      BY <2>1, <2>2, <2>3, <2>4
  <1> QED
    BY <1>3, <1>4

LEMMA AddFirstKeeps ==
    ASSUME IInv, NEW v \in Validator, NEW b \in BlockID, AddFirst(v, b)
    PROVE  IInv'
  <1> DEFINE canonical == [votes EXCEPT ![v] = b]
  <1>1. /\ canonical \in [Validator -> BlockID \cup {NoVote}]
        /\ canonical[v] = b
        /\ \A w \in Validator : w # v => canonical[w] = votes[w]
        /\ b # NoVote
    BY NoVoteAssumption DEF IInv, TypeOK
  <1>2. Count(v, b, canonical) /\ votes[v] = NoVote
    BY DEF AddFirst
  <1>3. maj23 # NoVote => v \notin CommitVoters
    BY <1>2 DEF CommitVoters
  <1>4. maj23 # NoVote => \A w \in CommitVoters : canonical[w] = maj23
    BY <1>1, <1>3 DEF CommitVoters
  <1> HIDE DEF canonical
  <1>5. /\ CountedIsCanonical'
        /\ MajorityIsCanonical'
        /\ QuorumIsMajority'
        /\ \A w \in Validator : votes'[w] # NoVote <=> canonical[w] # NoVote
    BY <1>1, <1>2, <1>4, CountKeeps
  <1>6. Voted' = Voted \cup {v} /\ v \notin Voted
    BY <1>1, <1>2, <1>5 DEF Voted
  <1>7. IsFiniteSet(Voted) /\ Voted' \in SUBSET Validator
    BY SubsetCard DEF Voted
  <1>8. Cardinality(Voted') = Cardinality(Voted) + 1
    BY <1>6, <1>7, FS_AddElement
  <1>9. SumIsVoted'
    BY <1>8 DEF AddFirst, IInv, SumIsVoted
  <1>10. sum' \in 0 .. TotalVotingPower
    BY <1>7, <1>9, SubsetCard, QuorumType DEF SumIsVoted
  <1>11. /\ votes' \in [Validator -> BlockID \cup {NoVote}]
         /\ votesByBlock' \in [BlockID -> SUBSET Validator]
         /\ tracked' \subseteq BlockID
         /\ tracked \subseteq tracked'
         /\ maj23' \in BlockID \cup {NoVote}
    BY <1>1, <1>2, CountType DEF IInv
  <1>12. TypeOK'
    BY <1>10, <1>11 DEF IInv, TypeOK, AddFirst, Errors
  <1> QED
    BY <1>5, <1>9, <1>12 DEF IInv

LEMMA AddConflictingKeeps ==
    ASSUME IInv, NEW v \in Validator, NEW b \in BlockID, AddConflicting(v, b)
    PROVE  IInv'
  <1> DEFINE canonical == Canonical(v, b)
  <1>1. /\ canonical \in [Validator -> BlockID \cup {NoVote}]
        /\ \A w \in Validator : w # v => canonical[w] = votes[w]
        /\ maj23 = b => canonical[v] = b
        /\ maj23 # b => canonical[v] = votes[v]
        /\ b # NoVote
    BY NoVoteAssumption DEF IInv, TypeOK, Canonical
  <1>2. votes[v] # NoVote /\ UNCHANGED <<sum, claimed, peerMaj23s>>
    BY DEF AddConflicting
  <1>3. /\ \A w \in Validator : votes[w] # NoVote <=> canonical[w] # NoVote
        /\ \A w \in CommitVoters : canonical[w] = maj23
    BY <1>1, <1>2 DEF CommitVoters
  <1>4. CASE b \in claimed
    <2>1. Count(v, b, canonical) /\ ret' = [added |-> TRUE, err |-> "conflicting"]
      BY <1>4 DEF AddConflicting
    <2> HIDE DEF canonical
    <2>2. /\ CountedIsCanonical'
          /\ MajorityIsCanonical'
          /\ QuorumIsMajority'
          /\ \A w \in Validator : votes'[w] # NoVote <=> canonical[w] # NoVote
      BY <1>1, <1>2, <1>3, <2>1, CountKeeps
    <2>3. Voted' = Voted
      BY <2>2, <1>3 DEF Voted
    <2>4. /\ votes' \in [Validator -> BlockID \cup {NoVote}]
          /\ votesByBlock' \in [BlockID -> SUBSET Validator]
          /\ tracked' \subseteq BlockID
          /\ tracked \subseteq tracked'
          /\ maj23' \in BlockID \cup {NoVote}
      BY <1>1, <2>1, CountType DEF IInv
    <2>5. TypeOK'
      BY <2>1, <2>4, <1>2 DEF IInv, TypeOK, Errors
    <2> QED
      BY <2>2, <2>3, <2>5, <1>2 DEF IInv, SumIsVoted
  <1>5. CASE b \notin claimed
    <2>1. /\ votes' = canonical
          /\ ret' = [added |-> FALSE, err |-> "conflicting"]
          /\ UNCHANGED <<votesByBlock, tracked, maj23>>
      BY <1>5 DEF AddConflicting
    <2> HIDE DEF canonical
    <2>2. Voted' = Voted /\ CommitVoters \subseteq CommitVoters'
      BY <2>1, <1>3 DEF Voted, CommitVoters
    <2>3. TypeOK'
      BY <2>1, <1>1, <1>2 DEF IInv, TypeOK, Errors
    <2> QED
      BY <2>1, <2>2, <2>3, <1>2 DEF IInv, CountedIsCanonical,
         MajorityIsCanonical, SumIsVoted, QuorumIsMajority
  <1> QED
    BY <1>4, <1>5

\* The tally's invariant holds whatever votes and claims arrive.
LEMMA Inductive == Spec => []IInv
  <1>1. ASSUME IInv, [Next]_vars PROVE IInv'
    <2>1. CASE UNCHANGED vars
      BY <1>1, <2>1, RefuseKeeps DEF vars, IInv, TypeOK
    <2>2. ASSUME NEW b \in BlockID, NEW v \in Validator, AddVote(v, b)
          PROVE  IInv'
      <3>1. CASE RefuseKnown(v, b)
        <4>1. TypeOK'
          BY <1>1, <3>1 DEF RefuseKnown, IInv, TypeOK, Errors
        <4> QED
          BY <1>1, <3>1, <4>1, RefuseKeeps DEF RefuseKnown
      <3> QED
        BY <1>1, <2>2, <3>1, AddFirstKeeps, AddConflictingKeeps DEF AddVote
    <2>3. ASSUME NEW b \in BlockID, NEW o \in Outsider, RefuseOutsider(o, b)
          PROVE  IInv'
      <3>1. TypeOK'
        BY <1>1, <2>3 DEF RefuseOutsider, IInv, TypeOK, Errors
      <3> QED
        BY <1>1, <2>3, <3>1, RefuseKeeps DEF RefuseOutsider
    <2>4. ASSUME NEW b \in BlockID, NEW p \in Peer, SetPeerMaj23(p, b)
          PROVE  IInv'
      <3>1. TypeOK'
        <4>0. /\ [added |-> FALSE, err |-> "none"] \in [added : BOOLEAN, err : Errors]
              /\ [added |-> FALSE, err |-> "conflictingPeer"]
                    \in [added : BOOLEAN, err : Errors]
          BY DEF Errors
        <4>1. CASE peerMaj23s[p] = NoVote
          <5>1. /\ peerMaj23s' = [peerMaj23s EXCEPT ![p] = b]
                /\ tracked' = tracked \cup {b}
                /\ claimed' = claimed \cup {b}
                /\ ret' = [added |-> FALSE, err |-> "none"]
                /\ UNCHANGED <<votes, sum, votesByBlock, maj23>>
            BY <2>4, <4>1 DEF SetPeerMaj23
          <5> QED
            BY <1>1, <4>0, <5>1 DEF IInv, TypeOK
        <4>2. CASE peerMaj23s[p] # NoVote
          <5>1. ret' \in [added : BOOLEAN, err : Errors]
            <6>1. CASE peerMaj23s[p] = b
              BY <2>4, <4>0, <4>2, <6>1 DEF SetPeerMaj23
            <6>2. CASE peerMaj23s[p] # b
              BY <2>4, <4>0, <4>2, <6>2 DEF SetPeerMaj23
            <6> QED
              BY <6>1, <6>2
          <5> QED
            BY <1>1, <2>4, <4>2, <5>1 DEF SetPeerMaj23, IInv, TypeOK
        <4> QED
          BY <4>1, <4>2
      <3> QED
        BY <1>1, <2>4, <3>1, RefuseKeeps DEF SetPeerMaj23
    <2> QED
      BY <1>1, <2>1, <2>2, <2>3, <2>4 DEF Next
  <1> QED
    BY <1>1, InitIInv, PTL DEF Spec

\* Type correctness of the vote set.
THEOREM TypeCorrect == Spec => []TypeOK
  <1>1. IInv => TypeOK
    BY DEF IInv
  <1> QED
    BY <1>1, Inductive, PTL

\* A commit made from a set with a majority (MakeCommit) holds a quorum of
\* votes for the committed block, for every validator set.
THEOREM CommitAlwaysVerifies == Spec => []CommitVerifies
  <1>1. IInv => CommitVerifies
    <2> SUFFICES ASSUME IInv, maj23 # NoVote
                 PROVE  Cardinality(CommitVoters) >= Quorum
      BY DEF CommitVerifies
    <2>1. CommitVoters \in SUBSET Validator
      BY DEF CommitVoters
    <2>2. /\ votesByBlock[maj23] \in SUBSET CommitVoters
          /\ Cardinality(votesByBlock[maj23]) >= Quorum
      BY DEF IInv, MajorityIsCanonical
    <2>3. /\ Cardinality(votesByBlock[maj23]) <= Cardinality(CommitVoters)
          /\ Cardinality(votesByBlock[maj23]) \in Nat
          /\ Cardinality(CommitVoters) \in Nat
      BY <2>1, <2>2, SubsetMonotone, SubsetCard
    <2> QED
      BY <2>2, <2>3, QuorumType
  <1> QED
    BY <1>1, Inductive, PTL

\* The sum reflects every majority, so the handler's test of HasTwoThirdsAny
\* before HasTwoThirdsMajority never hides one.
THEOREM MajorityAlwaysSummed == Spec => []MajorityIsSummed
  <1>1. IInv => MajorityIsSummed
    <2> SUFFICES ASSUME IInv, maj23 # NoVote
                 PROVE  HasTwoThirdsAny
      BY DEF MajorityIsSummed
    <2>1. /\ maj23 \in BlockID
          /\ Cardinality(votesByBlock[maj23]) >= Quorum
          /\ votesByBlock[maj23] \in SUBSET Voted
          /\ Voted \in SUBSET Validator
          /\ sum = Cardinality(Voted)
      BY DEF IInv, TypeOK, MajorityIsCanonical, CountedIsCanonical, SumIsVoted, Voted
    <2>2. /\ Cardinality(votesByBlock[maj23]) <= Cardinality(Voted)
          /\ Cardinality(votesByBlock[maj23]) \in Nat
          /\ Cardinality(Voted) \in Nat
      BY <2>1, SubsetMonotone, SubsetCard
    <2> QED
      BY <2>1, <2>2, QuorumType DEF HasTwoThirdsAny, Quorum
  <1> QED
    BY <1>1, Inductive, PTL

\* Two sets of at least a quorum of validators share more than a third.
LEMMA QuorumsOverlap ==
    ASSUME NEW S \in SUBSET Validator, NEW T \in SUBSET Validator,
           Cardinality(S) >= Quorum, Cardinality(T) >= Quorum
    PROVE  3 * Cardinality(S \cap T) > TotalVotingPower
  <1>1. /\ IsFiniteSet(S) /\ IsFiniteSet(T)
        /\ Cardinality(S) \in Nat /\ Cardinality(T) \in Nat
        /\ Cardinality(S \cup T) \in Nat
        /\ Cardinality(S \cup T) <= TotalVotingPower
        /\ Cardinality(S \cap T) \in Nat
    BY SubsetCard
  <1>2. Cardinality(S \cup T) = Cardinality(S) + Cardinality(T) - Cardinality(S \cap T)
    BY <1>1, FS_Union
  <1>3. 3 * Quorum > 2 * TotalVotingPower
    BY QuorumType DEF Quorum
  <1> QED
    BY <1>1, <1>2, <1>3, QuorumType

\* The majority of a set is its only one, unless more than a third of the
\* validators voted for two blocks.
THEOREM NoRivalMajorityEver == Spec => []NoRivalMajority
  <1>1. IInv => NoRivalMajority
    <2> SUFFICES ASSUME IInv, NEW b \in BlockID,
                        Cardinality(votesByBlock[b]) >= Quorum, b # maj23
                 PROVE  3 * Cardinality(Equivocators) > TotalVotingPower
      BY DEF NoRivalMajority
    <2>1. /\ votesByBlock[b] \in SUBSET Validator
          /\ Cardinality(votesByBlock[b]) \in Nat
      BY SubsetCard DEF IInv, TypeOK
    <2>2. maj23 # NoVote
      BY <2>1, QuorumType DEF IInv, QuorumIsMajority
    <2>3. /\ maj23 \in BlockID
          /\ votesByBlock[maj23] \in SUBSET Validator
          /\ Cardinality(votesByBlock[maj23]) >= Quorum
      BY <2>2 DEF IInv, TypeOK, MajorityIsCanonical
    <2> DEFINE both == votesByBlock[b] \cap votesByBlock[maj23]
    <2>4. 3 * Cardinality(both) > TotalVotingPower
      BY <2>1, <2>3, QuorumsOverlap
    <2>5. both \in SUBSET Equivocators /\ Equivocators \in SUBSET Validator
      BY <2>1, <2>3 DEF Equivocators
    <2>6. /\ Cardinality(both) <= Cardinality(Equivocators)
          /\ Cardinality(both) \in Nat /\ Cardinality(Equivocators) \in Nat
      BY <2>5, SubsetMonotone, SubsetCard
    <2> QED
      BY <2>4, <2>6, QuorumType
  <1> QED
    BY <1>1, Inductive, PTL

\* No call ever changes a majority that was reached.
THEOREM MajorityNeverChanges == Spec => MajorityIsFinal
  <1>1. [Next]_vars => [maj23 # NoVote => maj23' = maj23]_vars
    BY DEF Next, AddVote, RefuseKnown, RefuseOutsider, AddFirst, AddConflicting,
           SetPeerMaj23, Count, FirstQuorum, vars
  <1> QED
    BY <1>1, PTL DEF Spec, MajorityIsFinal

=============================================================================
