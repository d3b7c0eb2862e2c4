----------------------------- MODULE MCNetwork ------------------------------
(* The group manager, the block download and the connections of one node,    *)
(* side by side: `subject` is the one that moves.                            *)
EXTENDS BftGroup, Download, Links

VARIABLE subject

\* The second participant is drawn twice.
MCDraws == <<3, 6, 1, 2>>
MCGroups == <<{2, 3}, {1, 2}>>

MCTop == <<3>>

\* Two addresses of one node, and an address of this one.
MCOwner == <<1, 1, 9>>

vars == <<groupVars, downloadVars, net, subject>>

Init == GroupInit /\ DownloadInit /\ LinksInit /\ subject \in {"group", "download", "links"}

Next ==
  \/ subject = "group" /\ GroupNext /\ UNCHANGED <<downloadVars, net, subject>>
  \/ subject = "download" /\ DownloadNext /\ UNCHANGED <<groupVars, net, subject>>
  \/ subject = "links" /\ LinksNext /\ UNCHANGED <<groupVars, downloadVars, subject>>

Spec == Init /\ [][Next]_vars

\* The types of all of them.
NetworkTypesOK == GroupTypeOK /\ DownloadTypeOK /\ LinksTypeOK
=============================================================================
