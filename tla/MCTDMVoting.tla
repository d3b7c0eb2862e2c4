---------------------------- MODULE MCTDMVoting ----------------------------
(* Instances of TDMVoting for TLC.                                          *)
EXTENDS TDMVoting, SequencesExt

\* A faulty proposer, which may send a different block to everyone, is followed
\* by one that follows the rules; the other validators, and the valid blocks,
\* are interchangeable.
FaultyThenHonest ==
    [r \in Round |-> IF r = 0 THEN CHOOSE v \in Faulty : TRUE
                               ELSE CHOOSE v \in Honest : TRUE]
Symmetry == Permutations(Honest \ {Proposer[1]}) \cup Permutations(ValidBlock)

\* The validators take turns.
Order == SetToSeq(Validator)
RotatingProposer == [r \in Round |-> Order[(r % N) + 1]]

\* A restriction of the schedules, to search for long behaviours: validators
\* go through the phases of a round in a fixed order, each phase to its end,
\* and vote for a block in every round but round 1; a proposer always has its
\* own proposal before it votes.
Progress(v) ==
    4 * round[v] + (CASE step[v] = "propose" -> IF proposal[v] = Nil THEN 0 ELSE 1
                      [] step[v] = "prevote" -> 2
                      [] step[v] = "precommit" -> 3)

LockStep ==
    LET active == {i \in DOMAIN Order : decision[Order[i]] = Nil}
    IN  /\ Cardinality({Progress(Order[i]) : i \in active}) <= 2
        /\ \A i, j \in active : i < j => Progress(Order[i]) >= Progress(Order[j])
        /\ \A m \in prevotes \cup precommits : m.block # Nil \/ m.round = 1
        /\ \A v \in Honest :
              step[v] # "propose" /\ Proposer[round[v]] = v => proposal[v] # Nil
=============================================================================
