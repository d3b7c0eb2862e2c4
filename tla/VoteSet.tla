------------------------------ MODULE VoteSet ------------------------------
(***************************************************************************)
(* The tally of one kind of vote at one height and round                   *)
(* (consensus/algorand/types/vote.go).  Every validator has one canonical  *)
(* vote; votes that contradict it are kept per block, and only for a block *)
(* that some peer claims to have seen a +2/3 majority for.  The first      *)
(* block to collect a quorum becomes maj23 and stays it.                   *)
(*                                                                         *)
(* A BlockID (hash and part-set header) is a value; the empty BlockID of a *)
(* vote for nil is one of them.  Signatures are external.                  *)
(***************************************************************************)
EXTENDS Integers, FiniteSets

CONSTANTS
    Validator,   \* the validator set of the height, indices and addresses
    Outsider,    \* signers that are not in the validator set
    BlockID,     \* what a vote may be for, the vote for nil included
    Peer,        \* peers that may claim a +2/3 majority
    NoVote       \* stands for a nil *Vote and for a nil *BlockID

ASSUME ValidatorAssumption == IsFiniteSet(Validator) /\ Validator # {}
ASSUME NoVoteAssumption == NoVote \notin BlockID
ASSUME OutsiderAssumption == Outsider \cap Validator = {}

VARIABLES
    votes,         \* voteSet.votes: the canonical vote of each validator
    sum,           \* voteSet.sum
    votesByBlock,  \* voteSet.votesByBlock[b].votes, as the set of voters
    tracked,       \* the keys of voteSet.votesByBlock
    claimed,       \* the keys whose blockVotes.peerMaj23 is set
    peerMaj23s,    \* voteSet.peerMaj23s
    maj23,         \* voteSet.maj23, NoVote when nil
    ret            \* what the last call returned: [added, err]

vars == <<votes, sum, votesByBlock, tracked, claimed, peerMaj23s, maj23, ret>>

\* Every validator has VotingPower 1, so the total is the size of the set.
TotalVotingPower == Cardinality(Validator)

\* Faulty variant: the "+ 1" of the quorum is forgotten.
QuorumWithoutOne == (TotalVotingPower * 2) \div 3

Quorum == (TotalVotingPower * 2) \div 3 + 1

Errors == {"none", "invalidIndex", "nonDeterministic", "conflicting",
           "conflictingPeer"}

TypeOK ==
    /\ votes \in [Validator -> BlockID \cup {NoVote}]
    /\ sum \in 0 .. TotalVotingPower
    /\ votesByBlock \in [BlockID -> SUBSET Validator]
    /\ tracked \subseteq BlockID
    /\ claimed \subseteq tracked
    /\ peerMaj23s \in [Peer -> BlockID \cup {NoVote}]
    /\ maj23 \in BlockID \cup {NoVote}
    /\ ret \in [added : BOOLEAN, err : Errors]

\* NewVoteSet
Init ==
    /\ votes = [v \in Validator |-> NoVote]
    /\ sum = 0
    /\ votesByBlock = [b \in BlockID |-> {}]
    /\ tracked = {}
    /\ claimed = {}
    /\ peerMaj23s = [p \in Peer |-> NoVote]
    /\ maj23 = NoVote
    /\ ret = [added |-> FALSE, err |-> "none"]

\* getVote: the vote of v for b is known, canonical or kept under its block.
Known(v, b) == votes[v] = b \/ v \in votesByBlock[b]

\* A vote whose index or address is not one of the set's is refused.
RefuseOutsider(o, b) ==
    /\ ret' = [added |-> FALSE, err |-> "invalidIndex"]
    /\ UNCHANGED <<votes, sum, votesByBlock, tracked, claimed, peerMaj23s, maj23>>

\* A vote that is known already is refused, with an error.
RefuseKnown(v, b) ==
    /\ Known(v, b)
    /\ ret' = [added |-> FALSE, err |-> "nonDeterministic"]
    /\ UNCHANGED <<votes, sum, votesByBlock, tracked, claimed, peerMaj23s, maj23>>

\* Faulty variant: every quorum is considered, not only the first.
AnyQuorum(b, voters) ==
    Cardinality(votesByBlock[b]) < Quorum /\ Quorum <= Cardinality(voters)

\* The vote completes a quorum of its block, and the first one of the set.
FirstQuorum(b, voters) ==
    /\ Cardinality(votesByBlock[b]) < Quorum
    /\ Quorum <= Cardinality(voters)
    /\ maj23 = NoVote

\* addVerifiedVote, the tail: count the vote under its block, and when that
\* completes the first quorum, make it the majority and its votes canonical.
Count(v, b, canonical) ==
    LET voters == votesByBlock[b] \cup {v}
        first  == FirstQuorum(b, voters)
    IN  /\ votesByBlock' = [votesByBlock EXCEPT ![b] = voters]
        /\ tracked' = tracked \cup {b}
        /\ maj23' = IF first THEN b ELSE maj23
        /\ votes' = IF first
                    THEN [w \in Validator |-> IF w \in voters THEN b ELSE canonical[w]]
                    ELSE canonical

\* The validator's first vote: it becomes canonical and is counted.
AddFirst(v, b) ==
    /\ ~ Known(v, b)
    /\ votes[v] = NoVote
    /\ sum' = sum + 1
    /\ Count(v, b, [votes EXCEPT ![v] = b])
    /\ ret' = [added |-> TRUE, err |-> "none"]
    /\ UNCHANGED <<claimed, peerMaj23s>>

\* Faulty variant: a contradicting vote always replaces the canonical one.
CanonicalLatest(v, b) == [votes EXCEPT ![v] = b]

\* A contradicting vote replaces the canonical one when it is for maj23; it
\* is counted only under a block that a peer claims a majority for.
Canonical(v, b) ==
    IF maj23 = b THEN [votes EXCEPT ![v] = b] ELSE votes

AddConflicting(v, b) ==
    /\ ~ Known(v, b)
    /\ votes[v] # NoVote
    /\ IF b \in claimed
       THEN /\ Count(v, b, Canonical(v, b))
            /\ ret' = [added |-> TRUE, err |-> "conflicting"]
       ELSE /\ votes' = Canonical(v, b)
            /\ ret' = [added |-> FALSE, err |-> "conflicting"]
            /\ UNCHANGED <<votesByBlock, tracked, maj23>>
    /\ UNCHANGED <<sum, claimed, peerMaj23s>>

AddVote(v, b) ==
    \/ RefuseKnown(v, b)
    \/ AddFirst(v, b)
    \/ AddConflicting(v, b)

\* Faulty variant: the claim is marked without an entry in votesByBlock.
SetPeerMaj23Untracked(p, b) ==
    /\ peerMaj23s[p] = NoVote
    /\ peerMaj23s' = [peerMaj23s EXCEPT ![p] = b]
    /\ claimed' = claimed \cup {b}
    /\ ret' = [added |-> FALSE, err |-> "none"]
    /\ UNCHANGED <<votes, sum, votesByBlock, tracked, maj23>>

\* SetPeerMaj23: the first claim of a peer counts, a different one later is
\* an error.
SetPeerMaj23(p, b) ==
    IF peerMaj23s[p] = NoVote
    THEN /\ peerMaj23s' = [peerMaj23s EXCEPT ![p] = b]
         /\ tracked' = tracked \cup {b}
         /\ claimed' = claimed \cup {b}
         /\ ret' = [added |-> FALSE, err |-> "none"]
         /\ UNCHANGED <<votes, sum, votesByBlock, maj23>>
    ELSE /\ ret' = [added |-> FALSE,
                    err   |-> IF peerMaj23s[p] = b THEN "none" ELSE "conflictingPeer"]
         /\ UNCHANGED <<votes, sum, votesByBlock, tracked, claimed, peerMaj23s, maj23>>

Next ==
    \E b \in BlockID :
        \/ \E v \in Validator : AddVote(v, b)
        \/ \E o \in Outsider : RefuseOutsider(o, b)
        \/ \E p \in Peer : SetPeerMaj23(p, b)

Spec == Init /\ [][Next]_vars

-----------------------------------------------------------------------------

HasTwoThirdsAny == sum > (TotalVotingPower * 2) \div 3

\* MakeCommit copies the canonical votes; these are the ones for maj23.
CommitVoters == {v \in Validator : votes[v] = maj23}

\* Validators counted under two blocks.
Equivocators ==
    {v \in Validator : \E b, c \in BlockID : /\ b # c
                                            /\ v \in votesByBlock[b]
                                            /\ v \in votesByBlock[c]}

\* The commit that MakeCommit takes from a set with a majority verifies: a
\* quorum of the canonical votes is for maj23, whatever contradicting votes
\* were replaced or arrived after the majority (addVerifiedVote).
CommitVerifies == maj23 # NoVote => Cardinality(CommitVoters) >= Quorum

\* A set with a majority also has +2/3 of any votes: addVote of the handler
\* looks at the majority of prevotes only under HasTwoThirdsAny, so a
\* majority that the sum does not reflect would be missed.
MajorityIsSummed == maj23 # NoVote => HasTwoThirdsAny

\* No block but maj23 collects a quorum of votes, unless more than a third
\* of the validators are counted under two blocks (votesByBlock with the
\* peerMaj23 exception).
NoRivalMajority ==
    \A b \in BlockID :
        /\ Cardinality(votesByBlock[b]) >= Quorum
        /\ b # maj23
        => 3 * Cardinality(Equivocators) > TotalVotingPower

\* "First 2/3 majority seen": once there is a majority, no call changes it,
\* even when another block reaches a quorum later.
MajorityIsFinal == [][maj23 # NoVote => maj23' = maj23]_vars
=============================================================================
