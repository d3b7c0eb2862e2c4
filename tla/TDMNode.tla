------------------------------ MODULE TDMNode ------------------------------
(***************************************************************************)
(* The message handler of one validator (TDMMsgHandler) across heights:    *)
(* steps, timers, internal queue, block synchronisation and the restart    *)
(* that an epoch change performs.                                          *)
(*                                                                         *)
(* The goroutine DeliverMsg runs one handler at a time, so every action is *)
(* one whole handler.  The Go methods are operators that take the state of *)
(* the handler to its state after the call, or to the set of states it may *)
(* be in then when the transaction pool, the ledger or the epoch manager   *)
(* has a say.  Everything the peers send is chosen freely, so the peers    *)
(* need not follow the protocol.  Formats, signatures and durations are    *)
(* left out.                                                               *)
(***************************************************************************)
EXTENDS Integers, Sequences, FiniteSets, FiniteSetsExt

CONSTANTS
  Validator,      \* the validator set
  VotingPower,    \* and the power of each validator
  Me,             \* the validator whose handler this is
  BlockId,        \* names of blocks; a block is <<number, name>>
  ValidId,        \* the names of blocks that ValidateBlock accepts
  MyTurn,         \* the rounds in which isProposerFunc selects Me
  MaxHeight,      \* bound: the heights that are played out
  MaxRound,       \* bound: the rounds that are played out
  MaxTocks,       \* bound: timeouts under way at once
  MaxRestarts,    \* bound: restarts by the epoch manager
  MaxSyncs,       \* bound: attempts to synchronise
  SyncWriteFails, \* whether BlockProcess may fail for a synchronised block
  Nil, None

Height == 1 .. MaxHeight
Round == 0 .. MaxRound
VoteType == {"prevote", "precommit"}
N == Cardinality(Validator)

ASSUME ValidatorAssumption ==
  IsFiniteSet(Validator) /\ Me \in Validator /\ VotingPower \in [Validator -> Nat \ {0}]
ASSUME BlockAssumption == ValidId \subseteq BlockId /\ Nil # None
ASSUME BoundAssumption == MaxHeight \in Nat \ {0} /\ MaxRound \in Nat
ASSUME TurnAssumption == MyTurn \subseteq Round

VARIABLE node

NewHeight     == 1
NewRound      == 2
Propose       == 3
Prevote       == 4
PrevoteWait   == 5
Precommit     == 6
PrecommitWait == 7
Commit        == 8

NoVotes == [t \in VoteType |-> [r \in 0 .. MaxRound + 1 |-> [v \in Validator |-> None]]]

-----------------------------------------------------------------------------
(* The votes of a height, as the vote sets report them.                    *)

PowerOf(q) == MapThenSumSet(LAMBDA v : VotingPower[v], q)
TotalPower == PowerOf(Validator)

AnyVoters(s, t, r) == {v \in Validator : s.votes[t][r][v] # None}

HasTwoThirdsAny(s, t, r) == PowerOf(AnyVoters(s, t, r)) > (TotalPower * 2) \div 3
HasHalfAny(s, t, r) == PowerOf(AnyVoters(s, t, r)) > TotalPower \div 3

\* The block or Nil with a majority, None if there is none.
TwoThirdsMajority(s, t, r) ==
  LET Voters(b) == {v \in Validator : s.votes[t][r][v] = b}
      Has(b) == PowerOf(Voters(b)) >= (TotalPower * 2) \div 3 + 1
      found == {b \in {s.votes[t][r][v] : v \in Validator} \ {None} : Has(b)}
  IN  IF r < 0 \/ found = {} THEN None ELSE CHOOSE b \in found : TRUE

POLRound(s) ==
  LET pols == {r \in 0 .. MaxRound + 1 : TwoThirdsMajority(s, "prevote", r) # None}
  IN  IF pols = {} THEN -1 ELSE CHOOSE r \in pols : \A q \in pols : q <= r

\* ValidateBlock: the block must also be the successor of the last one.
Validates(s, b) == b[1] = s.height /\ b[2] \in ValidId

-----------------------------------------------------------------------------
(* Timers, the internal queue and signing.                                 *)

Earlier(t, u) ==
  \/ t.height < u.height
  \/ t.height = u.height /\ t.round < u.round
  \/ t.height = u.height /\ t.round = u.round /\ t.step < u.step

\* The ticker ignores ticks older than the last one it took; a new one
\* replaces the timer.
ScheduleTimeout(s, round, step) ==
  LET newti == [height |-> s.height, round |-> round, step |-> step]
  IN  IF Earlier(newti, s.ti) THEN s
      ELSE [s EXCEPT !.ti = newti, !.armed = TRUE, !.unarmed = FALSE]

\* updateRoundStep together with the timeout of the step.
MoveTo(s, round, step) ==
  [ScheduleTimeout(s, round, step) EXCEPT !.round = round, !.step = step]

SendInternalMessage(s, m) == [s EXCEPT !.internal = Append(@, m)]

SignAddVote(s, type, b) ==
  LET vote == [type |-> type, from |-> Me, height |-> s.height, round |-> s.round, block |-> b]
  IN  [s EXCEPT !.internal = Append(@, [kind |-> "vote", vote |-> vote]),
                !.signed = @ \cup {vote}]

Panic(s) == [s EXCEPT !.panic = TRUE]

\* Faulty variant: the guard lets the current step in again.
BeforeOrAt(s, round, step) == round > s.round \/ (round = s.round /\ s.step <= step)

\* The guard of the steps: not an earlier round, and not yet at this step.
Before(s, round, step) == round > s.round \/ (round = s.round /\ s.step < step)

-----------------------------------------------------------------------------
(* Prevote.                                                                *)

LockBinds(s) ==
  /\ s.lockedBlock # None
  /\ s.lockedBlock # s.block
  /\ s.round - s.lockedRound < N

DoPrevote(s) ==
  SignAddVote(s, "prevote",
    IF LockBinds(s) THEN s.lockedBlock
    ELSE IF s.block # None /\ Validates(s, s.block) THEN s.block
    ELSE Nil)

\* Faulty variant: without a block, waits without a timer.
EnterPrevoteUntimed(s, round) ==
  IF ~Before(s, round, Prevote) THEN s
  ELSE IF s.block = None /\ s.tries < 2 THEN [s EXCEPT !.tries = @ + 1, !.armed = FALSE]
  ELSE MoveTo(DoPrevote(s), round, Prevote)

\* Faulty variant: waits for the block as long as it takes.
EnterPrevotePatient(s, round) ==
  IF ~Before(s, round, Prevote) THEN s
  ELSE IF s.block = None THEN ScheduleTimeout(s, round, Propose)
  ELSE MoveTo(DoPrevote(s), round, Prevote)

\* Faulty variant: waits once too often.
EnterPrevoteThrice(s, round) ==
  IF ~Before(s, round, Prevote) THEN s
  ELSE IF s.block = None /\ s.tries <= 2
  THEN ScheduleTimeout([s EXCEPT !.tries = @ + 1], round, Propose)
  ELSE MoveTo(DoPrevote(s), round, Prevote)

\* Without a block the handler waits for it twice more.
EnterPrevote(s, round) ==
  IF ~Before(s, round, Prevote) THEN s
  ELSE IF s.block = None /\ s.tries < 2
  THEN ScheduleTimeout([s EXCEPT !.tries = @ + 1], round, Propose)
  ELSE MoveTo(DoPrevote(s), round, Prevote)

EnterPrevoteWait(s, round) ==
  IF Before(s, round, PrevoteWait) THEN MoveTo(s, round, PrevoteWait) ELSE s

-----------------------------------------------------------------------------
(* Propose and new round.                                                  *)

IsProposalComplete(s) ==
  /\ s.proposal # None
  /\ s.block # None
  /\ s.proposal.pol < 0 \/ TwoThirdsMajority(s, "prevote", s.proposal.pol) # None

SendProposal(s, round, b) ==
  [s EXCEPT !.internal = @ \o
     <<[kind |-> "proposal", height |-> s.height, round |-> round, block |-> b, pol |-> POLRound(s)],
       [kind |-> "part", height |-> s.height, block |-> b]>>]

\* geneProposalBlk yields no block when the pool is empty or the commit of the
\* last block is missing.
DecideProposal(s, round) ==
  IF s.lockedBlock # None THEN {SendProposal(s, round, s.lockedBlock)}
  ELSE {s} \cup {SendProposal(s, round, <<s.height, id>>) :
                   id \in {i \in ValidId : s.height = 1 \/ s.lastCommit # {}}}

EnterPropose(s, round) ==
  IF ~Before(s, round, Propose) THEN {s}
  ELSE LET done == MoveTo([s EXCEPT !.tries = 0], round, Propose)
       IN  {IF IsProposalComplete(p) THEN EnterPrevote(p, p.round) ELSE p :
              p \in IF round \in MyTurn THEN DecideProposal(done, round) ELSE {done}}

\* The configuration that waits for transactions before it proposes: the pool
\* has some, or a timeout is set.
DealNewRound(s) == EnterPropose(s, s.round) \cup {ScheduleTimeout(s, s.round, NewRound)}

ForgetProposal(s) == [s EXCEPT !.proposal = None, !.block = None, !.parts = None]

EnterNewRound(s, round) ==
  IF round < s.round \/ (round = s.round /\ s.step # NewHeight) THEN {s}
  ELSE UNION {DealNewRound(IF round = 0 THEN x ELSE ForgetProposal(x)) :
                x \in {[s EXCEPT !.round = round, !.step = NewRound]}}

-----------------------------------------------------------------------------
(* Precommit and commit.                                                   *)

EnterPrecommit(s, round) ==
  LET b == TwoThirdsMajority(s, "prevote", round)
      voted ==
        IF b \in {None, Nil} THEN SignAddVote(s, "precommit", Nil)
        ELSE IF s.block = b
        THEN SignAddVote([s EXCEPT !.lockedRound = round, !.lockedBlock = b], "precommit", b)
        ELSE SignAddVote([s EXCEPT !.lockedRound = 0, !.lockedBlock = None], "precommit", Nil)
  IN  IF Before(s, round, Precommit) THEN MoveTo(voted, round, Precommit) ELSE s

\* The step changes and the timer restarts whatever the guards say: both are
\* in the deferred function.
EnterPrecommitWait(s, round) == MoveTo(s, round, PrecommitWait)

\* Faulty variant: the votes of the commit are gone when LastCommit is set.
UpdateToStateForgetful(s, num) ==
  IF (s.commitRound > -1 /\ s.height # num) \/ num < s.height THEN s
  ELSE [ForgetProposal(s) EXCEPT
          !.height = num + 1, !.round = 0, !.step = NewHeight, !.votes = NoVotes,
          !.commitRound = -1, !.lastCommit = {}, !.signed = {}]

\* The height moves on.  An error leaves the state alone; the caller in the
\* consensus path ignores it.
UpdateToState(s, num) ==
  IF (s.commitRound > -1 /\ s.height # num) \/ num < s.height THEN s
  ELSE IF s.commitRound > -1 /\ TwoThirdsMajority(s, "precommit", s.commitRound) = None
  THEN Panic(s)
  ELSE [ForgetProposal(s) EXCEPT
          !.height = num + 1, !.round = 0, !.step = NewHeight, !.votes = NoVotes,
          !.commitRound = -1,
          !.lastCommit = IF s.commitRound > -1
                         THEN AnyVoters(s, "precommit", s.commitRound) ELSE {},
          !.signed = {}]

\* CheckEpochChange, called once the height has moved on, may stop consensus
\* until the epoch manager restarts the handler.
StatusUpdated(s) == {s, [s EXCEPT !.continue = FALSE]}

\* ValidateBlock and BlockProcess succeeded.
ApplyBlock(s, b) == [s EXCEPT !.chain = Append(@, b), !.lockedRound = 0, !.lockedBlock = None]

\* When ValidateBlock or BlockProcess fails the next round starts.
FinalizeCommit(s) ==
  LET b == TwoThirdsMajority(s, "precommit", s.commitRound)
      applied == UNION {StatusUpdated(UpdateToState(x, b[1])) : x \in {ApplyBlock(s, b)}}
      next == UNION {IF x.continue THEN EnterNewRound(x, 0) ELSE {x} : x \in applied}
  IN  IF s.step # Commit THEN {s}
      ELSE IF b = None \/ s.parts = None THEN {Panic(s)}
      ELSE IF s.block # b \/ s.parts.block # b THEN {Panic(s)}
      ELSE EnterNewRound(s, s.round + 1) \cup (IF Validates(s, b) THEN next ELSE {})

\* Faulty variant: a missing block does not stop the attempt.
TryFinalizeCommitAnyway(s) == FinalizeCommit(s)

\* A failed attempt starts the next round and falls through to FinalizeCommit.
TryFinalizeCommit(s) ==
  LET b == TwoThirdsMajority(s, "precommit", s.commitRound)
      decided == b \notin {None, Nil}
      started == IF decided THEN {s} ELSE EnterNewRound(s, s.round + 1)
      Found(x) == IF decided /\ x.block = b THEN {x}
                  ELSE IF decided /\ x.lockedBlock = b THEN {[x EXCEPT !.block = b]}
                  ELSE EnterNewRound(x, x.round + 1)
  IN  UNION {FinalizeCommit(x) : x \in UNION {Found(y) : y \in started}}

EnterCommit(s, commitRound) ==
  LET b == TwoThirdsMajority(s, "precommit", commitRound)
      has == s.block = b \/ (s.parts # None /\ s.parts.block = b)
      ready == IF has THEN s
               ELSE [s EXCEPT !.block = None, !.parts = [block |-> b, complete |-> FALSE]]
  IN  IF s.step >= Commit THEN {s}
      ELSE IF b = None THEN {Panic(s)}
      ELSE UNION {TryFinalizeCommit(x) :
                    x \in {[ready EXCEPT !.step = Commit, !.commitRound = commitRound]}}

-----------------------------------------------------------------------------
(* Messages.                                                               *)

AddPrevote(s, r) ==
  LET fixed == IF s.round < r /\ HasHalfAny(s, "prevote", r) THEN EnterNewRound(s, r) ELSE {s}
      Skip(x) == IF TwoThirdsMajority(x, "prevote", r) # None
                 THEN EnterPrecommit(x, r)
                 ELSE EnterPrevoteWait(EnterPrevote(x, r), r)
      Polled(x) == IF IsProposalComplete(x) /\ x.proposal.pol = r
                   THEN EnterPrevote(x, x.round) ELSE x
  IN  UNION {IF x.round <= r /\ HasTwoThirdsAny(x, "prevote", r)
             THEN {Skip(y) : y \in EnterNewRound(x, r)}
             ELSE {Polled(x)} : x \in fixed}

AddPrecommit(s, r) ==
  LET b == TwoThirdsMajority(s, "precommit", r)
      moved == {EnterPrecommit(x, r) : x \in EnterNewRound(s, r)}
  IN  IF b = Nil THEN EnterNewRound(s, r + 1)
      ELSE IF b # None THEN UNION {EnterCommit(x, r) : x \in moved}
      ELSE IF s.round <= r /\ HasTwoThirdsAny(s, "precommit", r)
      THEN {EnterPrecommitWait(x, r) : x \in moved}
      ELSE {s}

\* SkipTimeoutCommit is off, so a late precommit is only recorded.
AddLateVote(s, m) ==
  IF s.step # NewHeight \/ m.type # "precommit" THEN s
  ELSE IF s.lastCommit = {} THEN Panic(s)
  ELSE [s EXCEPT !.lastCommit = @ \cup {m.from}]

\* A vote the vote set refuses (the validator already voted) changes nothing.
AddVote(s, m) ==
  IF m.height + 1 = s.height THEN {AddLateVote(s, m)}
  ELSE IF m.height # s.height \/ s.votes[m.type][m.round][m.from] # None THEN {s}
  ELSE UNION {IF m.type = "prevote" THEN AddPrevote(x, m.round) ELSE AddPrecommit(x, m.round) :
                x \in {[s EXCEPT !.votes[m.type][m.round][m.from] = m.block]}}

SetProposal(s, m) ==
  IF s.proposal # None \/ m.height # s.height \/ m.round # s.round \/ s.step >= Commit THEN s
  ELSE [s EXCEPT !.proposal = [block |-> m.block, pol |-> m.pol],
                 !.parts = [block |-> m.block, complete |-> FALSE]]

\* A block is one part here; a part that does not belong to the expected
\* header, or that is there already, is not added.
AddProposalBlockPart(s, m) ==
  LET wanted == s.parts # None /\ s.parts = [block |-> m.block, complete |-> FALSE]
      Added(x) == IF x.step = Propose THEN {EnterPrevote(x, x.round)}
                  ELSE IF x.step = Commit THEN TryFinalizeCommit(x)
                  ELSE {x}
  IN  IF m.height # s.height \/ ~wanted THEN {s}
      ELSE UNION {Added(x) : x \in {[s EXCEPT !.parts.complete = TRUE, !.block = m.block]}}

ProcessInnerMsg(s, m) ==
  CASE m.kind = "proposal" -> {SetProposal(s, m)}
    [] m.kind = "part"     -> AddProposalBlockPart(s, m)
    [] m.kind = "vote"     -> AddVote(s, m.vote)

OnTimeout(s, t) ==
  CASE t.step = NewHeight     -> EnterNewRound(s, 0)
    [] t.step = NewRound      -> EnterPropose(s, t.round)
    [] t.step = Propose       -> {EnterPrevote(s, t.round)}
    [] t.step = Prevote       -> {EnterPrevoteWait(s, t.round)}
    [] t.step = PrevoteWait   -> {EnterPrecommit(s, t.round)}
    [] t.step = Precommit     -> {EnterPrecommitWait(s, t.round)}
    [] t.step = PrecommitWait -> EnterNewRound(s, t.round + 1)

\* Faulty variant: a timeout of an earlier step of the height is not late.
HandleTimeoutLate(s, t) == IF t.height # s.height THEN {s} ELSE OnTimeout(s, t)

\* A timeout of another height or of an earlier step is ignored.
HandleTimeout(s, t) == IF t.height # s.height \/ Earlier(t, s) THEN {s} ELSE OnTimeout(s, t)

-----------------------------------------------------------------------------
(* The behaviour of the handler.                                           *)

Tick == [height : 0 .. MaxHeight + 1, round : 0 .. MaxRound + 1, step : 0 .. Commit]

\* NewTDMMsgHandler on an empty ledger, then OnStart: round 0 is scheduled.
Init ==
  node = ScheduleTimeout(
    [height |-> 1, round |-> 0, step |-> NewHeight,
     proposal |-> None, block |-> None, parts |-> None,
     lockedRound |-> 0, lockedBlock |-> None,
     votes |-> NoVotes, commitRound |-> -1, lastCommit |-> {}, tries |-> 0,
     continue |-> TRUE,
     sync |-> "off", syncNext |-> 0, syncs |-> 0, restarts |-> 0,
     ti |-> [height |-> 0, round |-> 0, step |-> 0], armed |-> FALSE, tocks |-> {},
     internal |-> <<>>, chain |-> <<>>,
     signed |-> {}, unarmed |-> FALSE, panic |-> FALSE],
    0, NewHeight)

\* The part of the run that is explored.
Running == ~node.panic /\ node.height <= MaxHeight /\ node.round <= MaxRound

\* checkContinue: while the node synchronises or waits for the epoch manager,
\* whatever arrives is dropped.
CheckContinue == node.sync # "on" /\ node.continue

\* The timer of the ticker fires; a goroutine carries the timeout over.
TimerFires ==
  /\ Running
  /\ node.armed /\ Cardinality(node.tocks) < MaxTocks
  /\ node' = [node EXCEPT !.armed = FALSE, !.tocks = @ \cup {node.ti}]

DeliverTimeout ==
  /\ Running
  /\ \E t \in node.tocks : \E taken \in {[node EXCEPT !.tocks = @ \ {t}]} :
       node' \in IF CheckContinue THEN HandleTimeout(taken, t)
                 ELSE {[taken EXCEPT !.unarmed = TRUE]}

DeliverInternal ==
  /\ Running
  /\ node.internal # <<>>
  /\ \E taken \in {[node EXCEPT !.internal = Tail(@)]} :
       node' \in IF CheckContinue THEN ProcessInnerMsg(taken, Head(node.internal)) ELSE {taken}

\* A dropped message of a peer is a message that never came, and so is one that
\* the handler refuses: the conditions below leave those out.
PeerVote(type, from, height, round, id) ==
  [type |-> type, from |-> from, height |-> height, round |-> round,
   block |-> IF id = Nil THEN Nil ELSE <<height, id>>]

ReceivePrevote ==
  /\ Running /\ CheckContinue
  /\ \E from \in Validator \ {Me}, round \in Round, id \in BlockId \cup {Nil}:
       /\ node.votes["prevote"][round][from] = None
       /\ node' \in AddVote(node, PeerVote("prevote", from, node.height, round, id))

ReceivePrecommit ==
  /\ Running /\ CheckContinue
  /\ \E from \in Validator \ {Me}, round \in Round, id \in BlockId \cup {Nil}:
       /\ node.votes["precommit"][round][from] = None
       /\ node' \in AddVote(node, PeerVote("precommit", from, node.height, round, id))

ReceiveLatePrecommit ==
  /\ Running /\ CheckContinue
  /\ node.step = NewHeight /\ node.height > 1
  /\ \E from \in Validator \ {Me}, round \in Round, id \in BlockId :
       node' \in AddVote(node, PeerVote("precommit", from, node.height - 1, round, id))

\* From the proposer of the round; a node whose own turn it is takes one from
\* anybody.
ReceiveProposal ==
  /\ Running /\ CheckContinue
  /\ node.proposal = None
  /\ \E id \in BlockId, pol \in -1 .. node.round - 1 :
       node' = SetProposal(node, [height |-> node.height, round |-> node.round,
                                  block |-> <<node.height, id>>, pol |-> pol])

ReceiveBlockPart ==
  /\ Running /\ CheckContinue
  /\ node.parts # None
  /\ \E id \in BlockId :
       node' \in AddProposalBlockPart(node, [height |-> node.height, block |-> <<node.height, id>>])

\* checkTxsAvailable, a goroutine of its own, finds the step NewRound and sends
\* the height it then reads; at another height or in a later round or step the
\* notification does nothing.
HandleTxsAvailable ==
  /\ Running /\ CheckContinue
  /\ node.round = 0 /\ node.step <= NewRound
  /\ node' \in EnterPropose(node, 0)

-----------------------------------------------------------------------------
(* Synchronisation.  syncServer, another goroutine, reads Height and only  *)
(* then sets isSyncStatus, so a handler may run in between.  Answers to an *)
(* earlier attempt carry an older version and are dropped.  A restart      *)
(* clears isSyncStatus and keeps the version, so the blocks of the attempt *)
(* under way are still accepted, while the node votes again: "late".       *)

SyncEntrance ==
  /\ Running
  /\ node.sync \in {"off", "late"} /\ node.syncs < MaxSyncs
  /\ node' = [node EXCEPT !.sync = "asked", !.syncNext = node.height, !.syncs = @ + 1]

UpdateSync ==
  /\ Running
  /\ node.sync = "asked"
  /\ node' = [node EXCEPT !.sync = "on"]

\* Finished, timed out, or the peer sent no block.
SyncStops ==
  /\ Running
  /\ node.sync \in {"on", "late"}
  /\ node' = [node EXCEPT !.sync = "off"]

\* Faulty variant: a synchronised block is not validated.
SyncedBlockUnchecked(s, b, commit) ==
  UNION {StatusUpdated([UpdateToState(x, b[1]) EXCEPT
           !.lastCommit = commit, !.syncNext = @ + 1, !.unarmed = TRUE]) :
           x \in {[s EXCEPT !.chain = Append(@, b)]}}

\* A block of a correct peer.  The result of BlockProcess is not looked at, and
\* the lock of the height that ends stays.
SyncedBlock(s, b, commit) ==
  LET written == {[s EXCEPT !.chain = Append(@, b)]} \cup (IF SyncWriteFails THEN {s} ELSE {})
      Moved(x) == IF x.panic THEN {x}
                  ELSE StatusUpdated([x EXCEPT
                         !.lastCommit = commit, !.syncNext = @ + 1, !.unarmed = TRUE])
  IN  IF Validates(s, b)
      THEN UNION {Moved(y) : y \in {UpdateToState(x, b[1]) : x \in written}}
      ELSE {[s EXCEPT !.sync = "off"]}

ReceiveSyncBlock ==
  /\ Running
  /\ node.sync \in {"on", "late"} /\ node.continue
  /\ \E id \in ValidId, commit \in {q \in SUBSET Validator : 3 * PowerOf(q) > 2 * TotalPower} :
       node' \in SyncedBlock(node, <<node.syncNext, id>>, commit)

-----------------------------------------------------------------------------
(* ResetEpoch stops the handler, resets it, gives it a new vote set and    *)
(* starts it again, at whatever step it is.  Everything else is kept.      *)

Restart ==
  /\ Running
  /\ node.restarts < MaxRestarts
  /\ \E reset \in {[node EXCEPT
            !.step = NewRound, !.votes = NoVotes,
            !.continue = TRUE, !.restarts = @ + 1,
            !.sync = IF @ \in {"on", "late"} THEN "late" ELSE "off",
            !.ti = [height |-> 0, round |-> 0, step |-> 0], !.armed = FALSE, !.tocks = {},
            !.internal = <<>>, !.signed = {}]} :
       node' \in DealNewRound(reset)

Next ==
  \/ TimerFires \/ DeliverTimeout \/ DeliverInternal
  \/ ReceivePrevote \/ ReceivePrecommit \/ ReceiveLatePrecommit
  \/ ReceiveProposal \/ ReceiveBlockPart
  \/ HandleTxsAvailable
  \/ SyncEntrance \/ UpdateSync \/ SyncStops \/ ReceiveSyncBlock
  \/ Restart

Spec == Init /\ [][Next]_node

\* The node does not stop while a timer is set, or while DeliverMsg has a
\* timeout or an internal message to take.
FairSpec == Spec /\ WF_node(TimerFires \/ DeliverTimeout \/ DeliverInternal)

-----------------------------------------------------------------------------
(* Properties.                                                             *)

\* The state of the handler has its type.
TypeOK ==
  /\ node.height \in 1 .. MaxHeight + 1 /\ node.round \in 0 .. MaxRound + 1
  /\ node.step \in NewHeight .. Commit
  /\ node.commitRound \in -1 .. MaxRound /\ node.lockedRound \in Round
  /\ node.tries \in 0 .. 2 /\ node.lastCommit \subseteq Validator
  /\ node.ti \in Tick /\ node.tocks \subseteq Tick
  /\ node.sync \in {"off", "asked", "on", "late"} /\ node.syncNext \in 0 .. MaxHeight + 1
  /\ \A b \in {"armed", "continue", "unarmed", "panic"} :
       node[b] \in BOOLEAN

\* The node never goes back: height, round and step only grow, whatever
\* timeouts, votes and blocks arrive late, until the epoch manager restarts it.
NeverBack == [][Earlier(node', node) => node'.restarts # node.restarts]_node

\* The ledger holds exactly the blocks below the height that is agreed on,
\* in order, whether they were committed here or synchronised.
LedgerInStep ==
  /\ node.panic \/ Len(node.chain) = node.height - 1
  /\ \A i \in DOMAIN node.chain : node.chain[i][1] = i

\* Between restarts the node signs one prevote and one precommit in a round.
OneVotePerRound ==
  \A v, w \in node.signed : v.type = w.type /\ v.round = w.round => v = w

\* The commit the next proposal carries was signed by a quorum.
CommitIsQuorum == node.height > 1 => 3 * PowerOf(node.lastCommit) > 2 * TotalPower

Live(t) == t.height = node.height /\ ~Earlier(t, node)

\* A timeout that the handler will act on is always under way, so the node
\* needs nobody to move on; except after a block was synchronised or a timeout
\* was dropped by checkContinue.
TimerUnderWay ==
  Running /\ node.continue /\ ~node.unarmed =>
    (node.armed /\ Live(node.ti)) \/ \E t \in node.tocks : Live(t)

\* The assertions (PanicSanity) in enterCommit, finalizeCommit, updateToState
\* and VoteSet.AddVote hold.
NoPanic == ~node.panic

\* Alone, with no message from anybody, the node leaves every round.
NodeAdvances ==
  \A h \in Height, r \in Round :
    (node.height = h /\ node.round = r) ~>
      (node.height # h \/ node.round # r \/ node.unarmed \/ node.panic \/ ~node.continue)
=============================================================================
