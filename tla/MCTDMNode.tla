----------------------------- MODULE MCTDMNode -----------------------------
(* Instances of TDMNode for TLC. *)
EXTENDS TDMNode, TLC

CONSTANTS Heavy, HeavyPower

\* One peer stands for all the others: with power 2 it moves the node's round
\* and makes a majority only with the node, with power 3 also without it.
Power == [v \in Validator |-> IF v = Heavy THEN HeavyPower ELSE 1]
=============================================================================
