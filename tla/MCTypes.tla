------------------------------ MODULE MCTypes -------------------------------
(* The vote set of four validators, so that a quorum is three and two quorums *)
(* share two, the commit states of three nodes, and the parts of a proposed   *)
(* block, side by side: `subject` is the one that moves.                      *)
EXTENDS VoteSet, CommitState, PartSet

VARIABLE subject

\* Committees of two out of three nodes.
MCCommittee == <<{2, 3}, {1, 2}>>

\* Blocks of one to four parts, some of which begin alike or repeat a part.
MCData == {<<1>>, <<1, 2>>, <<1, 2, 1>>, <<1, 2, 1, 2, 1>>, <<2, 1, 1, 2, 1, 1>>, <<1, 2, 1, 1, 2, 2, 1>>}

typesVars == <<vars, stateVars, partVars, subject>>

TypesInit ==
  /\ Init /\ StateInit /\ PartInit
  /\ subject \in {"votes", "state", "parts"}
  /\ subject # "state" => core = "vrf"
  /\ subject # "parts" => data = <<1>>

TypesNext ==
  \/ subject = "votes" /\ Next /\ UNCHANGED <<stateVars, partVars, subject>>
  \/ subject = "state" /\ StateNext /\ UNCHANGED <<vars, partVars, subject>>
  \/ subject = "parts" /\ PartNext /\ UNCHANGED <<vars, stateVars, subject>>

TypesSpec == TypesInit /\ [][TypesNext]_typesVars
=============================================================================
