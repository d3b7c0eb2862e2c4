------------------------------ MODULE MCEpoch -------------------------------
(***************************************************************************)
(* The DBFT manager of one node on a new chain: two changes of epoch.      *)
(***************************************************************************)
EXTENDS Epoch

\* The list server's answer; the votes for epoch 1, one of them for a node that
\* is not on the list; the witnesses of synchronised blocks.
MCLists == [n \in Nos |-> 1..5]
MCTokenOrder == [n \in Nos |-> IF n = 1 THEN <<3, 9, 1, 2>> ELSE <<>>]
MCSynced == [n \in Nos |-> {2, 4}]

Spec == EpochInit /\ [][EpochNext]_epochVars /\ EpochFair
=============================================================================
