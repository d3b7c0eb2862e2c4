---------------------------- MODULE MCApplication ----------------------------
(* The encoding of transactions, the transaction pool and the ledger, side by *)
(* side: `subject` is the one that moves.                                     *)
EXTENDS TxPool, Chain, Rlp

CONSTANTS a1, a2, g, u, v1, v2

VARIABLE subject

T(a, n, i) == [from |-> a, nonce |-> n, id |-> i]
MCTx == {T(a1, n, 1) : n \in 0 .. 2} \cup {T(a1, 1, 2)} \cup {T(a2, n, 1) : n \in 0 .. 1}

Same(c, w) == [kind |-> "same", coin |-> c, to |-> w, amount |-> 1]
Diff(c, w) == [kind |-> "diff", coin |-> c, to |-> w, amount |-> 2, inAmount |-> 1]
Vote(e) == [kind |-> "vote", candidate |-> v1, amount |-> 2, epoch |-> e]
Ask(w, p) == [from |-> w, p |-> p]
MCRequests ==
  {Ask(g, Same("hnb", u)), Ask(u, Same("hnb", u)), Ask(u, Diff("hnb", g)), Ask(g, Diff("hgs", u)),
   Ask(u, Same("hgs", g)),
   Ask(g, Vote(1)), Ask(u, [kind |-> "unfreeze", epoch |-> 1])}

\* The kinds of a transaction's fields, and the others that the package has.
RString == [kind |-> "string"]
RUint == [kind |-> "uint", len |-> 2]
RStruct == [kind |-> "struct", fields |-> <<RString, RUint, [kind |-> "bigint"]>>]
RTail == [kind |-> "struct", fields |-> <<RUint, [kind |-> "tail", elem |-> RString]>>]
MCTypes ==
  <<RString, RUint, [kind |-> "bigint"], [kind |-> "bytearray", len |-> 2], [kind |-> "bool"],
    [kind |-> "ptr", elem |-> RStruct], RTail, [kind |-> "array", len |-> 2, elem |-> RUint],
    [kind |-> "slice", elem |-> RString], [kind |-> "raw"], [kind |-> "interface"]>>

\* Strings long enough for a size of two bytes, and lists in lists.
S(n) == [i \in 1 .. n |-> i % Base]
IStr(n) == [str |-> S(n)]
IList(vals) == [list |-> vals]
MCSamples ==
  <<{S(n) : n \in 0 .. 13}, 0 .. Base * Base - 1, 0 .. 2 * Base * Base, {<<0, 0>>, <<1, 9>>}, BOOLEAN,
    {<<S(11), 77, 205>>, <<<<>>, 0, 0>>}, {<<5, <<>>>>, <<5, <<S(2), S(13)>>>>}, {<<0, 0>>, <<99, 1>>},
    {<<>>, <<S(3), <<>>, S(12)>>}, {},
    {IList(<<>>), IList(<<IStr(3), IList(<<IStr(11), IStr(1)>>), IList(<<IList(<<>>)>>)>>)}>>

vars == <<poolVars, chainVars, rlp, subject>>

\* The arbitrary inputs belong to the encoding; the others have an empty one.
Init ==
  /\ PoolInit /\ ChainInit /\ subject \in {"pool", "chain", "rlp"}
  /\ IF subject = "rlp" THEN RlpInit ELSE rlp = [typ |-> Types[1], input |-> <<>>, of |-> {}]

Next == \/ subject = "pool" /\ PoolNext /\ UNCHANGED <<chainVars, rlp, subject>>
        \/ subject = "chain" /\ ChainNext /\ UNCHANGED <<poolVars, rlp, subject>>
        \/ subject = "rlp" /\ RlpNext /\ UNCHANGED <<poolVars, chainVars, subject>>

Spec == Init /\ [][Next]_vars

\* The types of both.
TypesOK == PoolTypeOK /\ ChainTypeOK
==============================================================================
