------------------------------ MODULE PartSet -------------------------------
(***************************************************************************)
(* The parts of a proposed block: cut by the proposer, proved with a       *)
(* Merkle tree, collected by another node in any order and read back when  *)
(* all are there.  A hash is the record of what was hashed, so different   *)
(* inputs have different hashes; bytes are members of a small set.         *)
(***************************************************************************)
EXTENDS Integers, Sequences, FiniteSets

CONSTANTS Data,         \* the serialised blocks that are proposed
          partSize,     \* MaxBlockPartSize
          MaxRead,      \* the longest buffer the decoder reads into
          MaxSwitch     \* bound: how often the node turns to another proposal

VARIABLES data,         \* the block whose header the node has
          ps,           \* ProposalBlockParts: total, hash, parts, count
          reader,       \* PartSetReader: the part, the bytes left of it, what was read
          seen,         \* history: the parts of this block that arrived
          switches

partVars == <<data, ps, reader, seen, switches>>

(***************************************************************************)
(* The Merkle tree.                                                        *)
(***************************************************************************)
SimpleHashFromBytes(bytes) == [leaf |-> bytes]
SimpleHashFromTwoHashes(left, right) == [left |-> left, right |-> right]

\* The left half is the larger one.
Half(n) == (n + 1) \div 2

RECURSIVE SimpleHashFromHashes(_)
SimpleHashFromHashes(hs) ==
  IF Len(hs) = 1 THEN hs[1]
  ELSE SimpleHashFromTwoHashes(SimpleHashFromHashes(SubSeq(hs, 1, Half(Len(hs)))),
                               SimpleHashFromHashes(SubSeq(hs, Half(Len(hs)) + 1, Len(hs))))

\* What FlattenAunts collects from the trail of leaf i: the siblings, upwards.
RECURSIVE FlattenAunts(_, _)
FlattenAunts(i, hs) ==
  LET half == Half(Len(hs))
      lefts == SubSeq(hs, 1, half)
      rights == SubSeq(hs, half + 1, Len(hs))
  IN  CASE Len(hs) = 1 -> <<>>
        [] Len(hs) > 1 /\ i < half ->
             Append(FlattenAunts(i, lefts), SimpleHashFromHashes(rights))
        [] OTHER -> Append(FlattenAunts(i - half, rights), SimpleHashFromHashes(lefts))

NoHash == [none |-> <<>>]

\* Combines a hash with its aunt unless there is none.
Join(left, right) ==
  IF NoHash \in {left, right} THEN NoHash ELSE SimpleHashFromTwoHashes(left, right)

RECURSIVE computeHashFromAunts(_, _, _, _)
computeHashFromAunts(i, total, leaf, aunts) ==
  CASE i >= total -> NoHash
    [] i < total /\ total = 1 -> IF aunts = <<>> THEN leaf ELSE NoHash
    [] OTHER ->
         IF aunts = <<>> THEN NoHash
         ELSE LET rest == SubSeq(aunts, 1, Len(aunts) - 1)
                  aunt == aunts[Len(aunts)]
              IN  IF i < Half(total)
                  THEN Join(computeHashFromAunts(i, Half(total), leaf, rest), aunt)
                  ELSE Join(aunt, computeHashFromAunts(i - Half(total), total - Half(total),
                                                       leaf, rest))

Verify(part, total, root) ==
  computeHashFromAunts(part.index, total, SimpleHashFromBytes(part.bytes), part.aunts) = root

(***************************************************************************)
(* The sender.                                                             *)
(***************************************************************************)
Total(d) == (Len(d) + partSize - 1) \div partSize

Chunk(d, i) ==
  SubSeq(d, i * partSize + 1, IF Len(d) < (i + 1) * partSize THEN Len(d) ELSE (i + 1) * partSize)

Leaves(d) == [i \in 1..Total(d) |-> SimpleHashFromBytes(Chunk(d, i - 1))]

NewPartSetFromData(d) ==
  {[index |-> i, bytes |-> Chunk(d, i), aunts |-> FlattenAunts(i, Leaves(d))] :
     i \in 0..(Total(d) - 1)}

Header(d) == [total |-> Total(d), hash |-> SimpleHashFromHashes(Leaves(d))]

(***************************************************************************)
(* The receiver.                                                           *)
(***************************************************************************)
NoPart == <<>>

NewPartSetFromHeader(h) ==
  [total |-> h.total, hash |-> h.hash, parts |-> [i \in 0..(h.total - 1) |-> NoPart], count |-> 0]

HasHeader(s, h) == s.total = h.total /\ s.hash = h.hash
IsComplete(s) == s.count = s.total

NoReader == [i |-> 0, left |-> <<>>, out |-> <<>>, eof |-> FALSE]

NewPartSetReader(s) == [NoReader EXCEPT !.left = s.parts[0]]

\* Faulty variant: the proof is not checked.
AddedUnverified(s, part) ==
  IF part.index >= s.total \/ s.parts[part.index] # NoPart THEN s
  ELSE [s EXCEPT !.parts[part.index] = part.bytes, !.count = @ + 1]

\* AddPart: nothing changes for an index out of range, a part that is there
\* already, or a proof that fails.
Added(s, part) ==
  IF part.index >= s.total THEN s
  ELSE IF s.parts[part.index] # NoPart \/ ~Verify(part, s.total, s.hash) THEN s
  ELSE [s EXCEPT !.parts[part.index] = part.bytes, !.count = @ + 1]

\* A part comes in, of this proposal or of another; the last one starts reading.
AddPart(part) ==
  /\ ps' = Added(ps, part)
  /\ seen' = IF part \in NewPartSetFromData(data) THEN seen \cup {part.index} ELSE seen
  /\ reader' = IF ps' # ps /\ IsComplete(ps') THEN NewPartSetReader(ps') ELSE reader
  /\ UNCHANGED <<data, switches>>

\* Read: the part's rest if it is long enough, else the rest and more of the
\* next one.
RECURSIVE Reads(_, _)
Reads(r, n) ==
  CASE Len(r.left) >= n ->
         [r EXCEPT !.out = @ \o SubSeq(r.left, 1, n), !.left = SubSeq(@, n + 1, Len(@))]
    [] Len(r.left) < n /\ r.left # <<>> ->
         Reads([r EXCEPT !.out = @ \o r.left, !.left = <<>>], n - Len(r.left))
    [] OTHER ->
         IF r.i + 1 >= ps.total THEN [r EXCEPT !.i = @ + 1, !.eof = TRUE]
         ELSE Reads([r EXCEPT !.i = @ + 1, !.left = ps.parts[r.i + 1]], n)

Read(n) ==
  /\ IsComplete(ps) /\ ~reader.eof
  /\ reader' = Reads(reader, n)
  /\ UNCHANGED <<data, ps, seen, switches>>

\* A majority for a block whose header the parts do not have.
Switch(d) ==
  /\ switches < MaxSwitch /\ ~HasHeader(ps, Header(d))
  /\ data' = d /\ ps' = NewPartSetFromHeader(Header(d))
  /\ reader' = NoReader /\ seen' = {}
  /\ switches' = switches + 1

PartInit ==
  /\ data \in Data
  /\ ps = NewPartSetFromHeader(Header(data))
  /\ reader = NoReader /\ seen = {} /\ switches = 0

PartNext ==
  \/ \E d \in Data : \E part \in NewPartSetFromData(d) : AddPart(part)
  \/ \E n \in 1..MaxRead : Read(n)
  \/ \E d \in Data : Switch(d)

\* Whatever order the parts come in, with parts of other proposals among them:
\* every part of this block that arrived is kept and no other, the count says
\* how many, and the decoder reads the block that was cut, in order and to the
\* end: AddPart, SimpleProof.Verify, PartSetReader.Read.
PartsRebuild ==
  /\ {i \in DOMAIN ps.parts : ps.parts[i] # NoPart} = seen
  /\ ps.count = Cardinality(seen)
  /\ reader.out = SubSeq(data, 1, Len(reader.out))
  /\ reader.eof => reader.out = data
=============================================================================
