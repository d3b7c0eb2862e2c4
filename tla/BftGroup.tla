------------------------------ MODULE BftGroup ------------------------------
(***************************************************************************)
(* The group manager of one node (BftMgr): the VRF counterpart of the DBFT *)
(* manager.  Its goroutines are the listener of peers' messages, the block *)
(* timeout scanner, CheckBgChange, which reads the blocks of the ledger one *)
(* by one and adopts the groups that came with synchronised blocks, and    *)
(* DeliverMsg of the handler.  Hashes, signatures and VRF proofs are right, *)
(* as a message that fails them is dropped.                                *)
(***************************************************************************)
EXTENDS Service, Integers, SequencesExt

CONSTANTS Me,                 \* this node (a number: its address)
          Total,              \* GeneValidators, which LoadTotalValidators returns
          FirstGroup,         \* the genesis group
          BftNumber,          \* the size of a group
          Draws,              \* CalcParticipant for i = 0, 1, ...: draws, not reduced
          Groups,             \* number -> the group in the demand of a peer
          MaxNum, MaxBlocks, MaxRequests

VARIABLES group,              \* CurBftGroup: id, members
          bm,                 \* the manager's other fields
          bh,                 \* the handler: height, Validators, LastHeightValidatorsChanged
          bsvc, brt,          \* the handler as a service
          bat, barg,          \* where each goroutine is, and the group it works on
          bbox,               \* InternalMsgQueue
          blocks,             \* per block: LastHeightChanged and Validators
          brace               \* history: two goroutines were changing the handler

groupVars == <<group, bm, bh, bsvc, brt, bat, barg, bbox, blocks, brace>>

Nums == 1..MaxNum
Workers == {"listener", "scanner", "checker"}
Installers == {"listener", "checker"}
Changing == {"halt", "stop", "exit", "reset", "reset2", "install", "start", "finish"}
NoGroup == [id |-> 0, members |-> {}]
Somebody(p) == \/ \E q \in Workers \ {p} : bat[q] \in Changing
               \/ \E r \in Slots : brt[r] = "spawned"

(***************************************************************************)
(* Choosing a group.                                                       *)
(***************************************************************************)
\* The members that the first n draws of CalcBFTGroupMembersByVRF give.
Picked(cands, n) ==
  {SetToSortSeq(cands, <)[(Draws[i] % Cardinality(cands)) + 1] : i \in 1..n}

\* Faulty variant: a participant that is drawn again is counted again.
DrawnTwice(cands) == Picked(cands, BftNumber)

\* CalcBFTGroupMembersByVRF: draws until groupSize different ones are found.
CalcBFTGroupMembersByVRF(cands) ==
  Picked(cands, CHOOSE n \in 1..Len(Draws) :
                  /\ Cardinality(Picked(cands, n)) = BftNumber
                  /\ Cardinality(Picked(cands, n - 1)) < BftNumber)

\* MakeNewBgFromBgCandidateSlice; a set without a member is its error.
MakeNewBg(c) ==
  LET cands == {a \in Total : c[a] # 0}
  IN  IF Cardinality(cands) = BftNumber THEN cands
      ELSE IF Cardinality(cands) < BftNumber \/ Cardinality({c[a] : a \in cands}) > 1 THEN {}
      ELSE CalcBFTGroupMembersByVRF(cands)

GetNewBgProposer(num) == SetToSortSeq(Total, <)[(num % Cardinality(Total)) + 1]

(***************************************************************************)
(* The listener.                                                           *)
(***************************************************************************)
\* advice and candidates: number -> address -> height of the first one, or 0.
Advised(m, num) == {a \in Total : m.advice[num][a] # 0}
OneThird(m, num) == Cardinality(Advised(m, num)) > Cardinality(Total) \div 3
TwoThirds(m, num) == Cardinality(Advised(m, num)) > (2 * Cardinality(Total)) \div 3

\* PutBgAdvice, PutBgCandidate: the first of an address stays.
Put(f, a, h) == [f EXCEPT ![a] = IF @ = 0 THEN h ELSE @]

\* BuildBgDemand: the candidates grow by those who advised and by the node.
Candidates(m, num) ==
  Put([a \in Total |-> IF m.candidates[num][a] # 0 THEN m.candidates[num][a]
                       ELSE m.advice[num][a]], Me, m.curH)

\* Faulty variant: the node does not join a request of the others.
FollowNot(m, num) == {}

\* The advice the node sends when more than a third ask for the number.
Follow(m, num) ==
  IF OneThird(m, num) /\ Me \notin Advised(m, num)
  THEN {[type |-> "advice", num |-> num, h |-> m.curH]} ELSE {}

\* HandleBgAdviceMsg and CheckResetBft.  An advice for a greater height starts
\* a synchronisation and is left out.
HandleBgAdviceMsg(num, a, h) ==
  IF num < bm.cand - 1 \/ bm.demand[num] # {}
  THEN [m |-> bm, out |-> {}]
  ELSE LET m1 == [bm EXCEPT !.advice[num] = Put(@, a, h)]
           m2 == IF OneThird(m1, num) /\ num > m1.cand THEN [m1 EXCEPT !.cand = num] ELSE m1
           c == Candidates(m2, num)
           asks == TwoThirds(m2, num) /\ GetNewBgProposer(num) = Me
           m3 == IF asks THEN [m2 EXCEPT !.candidates[num] = c] ELSE m2
       IN  IF asks /\ MakeNewBg(c) # {}
           THEN [m |-> [m3 EXCEPT !.demand[num] = MakeNewBg(c)],
                 out |-> Follow(m3, num)
                           \cup {[type |-> "demand", num |-> num, members |-> MakeNewBg(c),
                               h |-> bh.height]}]
           ELSE [m |-> m3, out |-> Follow(m3, num)]

Move(p, label, g) == bat' = [bat EXCEPT ![p] = label] /\ barg' = [barg EXCEPT ![p] = g]

\* ResetBftGroup begins.
EnterReset(p, g) == Move(p, "stop", g) /\ brace' = (brace \/ Somebody(p))

\* An advice of a peer, at this height or at an earlier one.
RecvBgAdvice(num, a, h) ==
  /\ bat["listener"] = "idle"
  /\ a # Me /\ bm.advice[num][a] = 0 /\ h <= bm.curH
  /\ LET r == HandleBgAdviceMsg(num, a, h)
     IN  bm' = r.m /\ bbox' = bbox \cup r.out
  /\ UNCHANGED <<group, bh, bsvc, brt, bat, barg, blocks, brace>>

\* The node's own, from the internal queue.
TakeBgAdvice(msg) ==
  /\ bat["listener"] = "idle" /\ msg.type = "advice"
  /\ LET r == HandleBgAdviceMsg(msg.num, Me, msg.h)
     IN  bm' = r.m /\ bbox' = (bbox \ {msg}) \cup r.out
  /\ UNCHANGED <<group, bh, bsvc, brt, bat, barg, blocks, brace>>

\* HandleBgDemand accepts the number of the group in force, too.
AcceptsDemand(num) == num >= group.id /\ OneThird(bm, num)

\* A demand of the peer whose turn it is.
RecvBgDemand(num) ==
  /\ bat["listener"] = "idle" /\ GetNewBgProposer(num) # Me /\ AcceptsDemand(num)
  /\ EnterReset("listener", [id |-> num, members |-> Groups[num]])
  /\ UNCHANGED <<group, bm, bh, bsvc, brt, bbox, blocks>>

\* The node's own; its VRF proof is for the height it was built at.
TakeBgDemand(msg) ==
  /\ bat["listener"] = "idle" /\ msg.type = "demand"
  /\ bbox' = bbox \ {msg}
  /\ IF AcceptsDemand(msg.num) /\ msg.h = bh.height
     THEN EnterReset("listener", [id |-> msg.num, members |-> msg.members])
     ELSE UNCHANGED <<bat, barg, brace>>
  /\ UNCHANGED <<group, bm, bh, bsvc, brt, blocks>>

\* The channel of WaitBgDemand: sender and receiver meet.
NotifyDemand ==
  /\ bat["listener"] = "notify" /\ bat["scanner"] = "wait"
  /\ barg["listener"].chan = barg["scanner"].chan
  /\ LET num == barg["listener"].id
     IN  IF num = bm.cand - 1
         THEN /\ bat' = [bat EXCEPT !["listener"] = "idle", !["scanner"] = "idle"]
              /\ barg' = [barg EXCEPT !["listener"] = NoGroup, !["scanner"] = NoGroup]
              /\ bm' = [bm EXCEPT !.chan[num] = 0]
         ELSE Move("listener", "idle", NoGroup) /\ UNCHANGED bm
  /\ UNCHANGED <<group, bh, bsvc, brt, bbox, blocks, brace>>

(***************************************************************************)
(* ResetBftGroup, by the listener or by CheckBgChange.                     *)
(***************************************************************************)
GroupStop(p) ==
  /\ bat[p] = "stop"
  /\ bsvc' = Stop(bsvc)
  /\ bat' = [bat EXCEPT ![p] = "exit"]
  /\ UNCHANGED <<group, bm, bh, brt, barg, bbox, blocks, brace>>

GroupExit(p) ==
  /\ bat[p] = "exit" /\ AllRoutineExit(brt)
  /\ bat' = [bat EXCEPT ![p] = "reset"]
  /\ UNCHANGED <<group, bm, bh, bsvc, brt, barg, bbox, blocks, brace>>

\* Reset; its error ends ResetBftGroup, and is ignored by the scanner.
GroupReset(p) ==
  /\ bat[p] = "reset"
  /\ IF CanReset(bsvc)
     THEN bsvc' = ResetFlag(bsvc) /\ Move(p, "reset2", barg[p])
     ELSE UNCHANGED bsvc /\ Move(p, IF p = "scanner" THEN "start" ELSE "idle", NoGroup)
  /\ UNCHANGED <<group, bm, bh, brt, bbox, blocks, brace>>

GroupResetRest(p) ==
  /\ bat[p] = "reset2"
  /\ bsvc' = ResetRest(bsvc)
  /\ bat' = [bat EXCEPT ![p] = IF p = "scanner" THEN "start" ELSE "install"]
  /\ UNCHANGED <<group, bm, bh, brt, barg, bbox, blocks, brace>>

\* Faulty variant: the handler keeps its validators.
InstalledOld(g) == [bh EXCEPT !.chg = IF Me \in g.members THEN bh.height ELSE @]

\* The handler's validators; a member notes the height of the change.
Installed(g) ==
  [bh EXCEPT !.id = g.id, !.members = g.members,
             !.chg = IF Me \in g.members THEN bh.height ELSE @]

GroupInstall(p) ==
  /\ bat[p] = "install"
  /\ group' = barg[p] /\ bh' = Installed(barg[p])
  /\ bat' = [bat EXCEPT ![p] = "start"]
  /\ UNCHANGED <<bm, bsvc, brt, barg, bbox, blocks, brace>>

\* Start: the routine is spawned unless somebody else started the handler.
GroupStart(p) ==
  /\ bat[p] = "start"
  /\ bsvc' = Start(bsvc)
  /\ IF Starts(bsvc) THEN Free(brt) # {} /\ brt' = OnStart(brt) ELSE UNCHANGED brt
  /\ IF p # "scanner" /\ Starts(bsvc) THEN Move(p, "finish", barg[p]) ELSE Move(p, "idle", NoGroup)
  /\ UNCHANGED <<group, bm, bh, bbox, blocks, brace>>

Forget(f, num) == [n \in Nums |-> IF n = num THEN [a \in Total |-> 0] ELSE f[n]]

\* The rest comes when the handler runs again and may have gone on to the
\* next height, for which the change is then noted.
Finished(g) ==
  [bm EXCEPT !.count = 0, !.cand = g.id + 1, !.changed = @ \cup {bh.height},
             !.advice = Forget(@, g.id - 1), !.candidates = Forget(@, g.id - 1),
             !.demand = [n \in Nums |-> IF n = g.id - 1 THEN {} ELSE @[n]]]

\* The listener then records the demand and tells who waits for it.
GroupFinish(p) ==
  /\ bat[p] = "finish"
  /\ LET g == barg[p]
     IN  IF p = "listener"
         THEN /\ bm' = [Finished(g) EXCEPT !.demand[g.id] = g.members]
              /\ IF bm.chan[g.id] # 0
                 THEN Move(p, "notify", [id |-> g.id, chan |-> bm.chan[g.id]])
                 ELSE Move(p, "idle", NoGroup)
         ELSE bm' = Finished(g) /\ Move(p, "idle", NoGroup)
  /\ UNCHANGED <<group, bh, bsvc, brt, bbox, blocks, brace>>

(***************************************************************************)
(* The scanner.                                                            *)
(***************************************************************************)
\* The timer: a new height, or no block although there are transactions.
GroupTimeout ==
  /\ bat["scanner"] = "idle" /\ bm.cand <= MaxNum
  /\ IF bh.height # bm.curH
     THEN bm' = [bm EXCEPT !.curH = bh.height] /\ UNCHANGED <<bsvc, bat, brace>>
     ELSE /\ Cardinality(Total) > Cardinality(group.members) /\ bm.asks < MaxRequests
          /\ IF bm.count = 0
             THEN bm' = [bm EXCEPT !.count = 1] /\ UNCHANGED <<bsvc, bat, brace>>
             ELSE /\ bsvc' = Stop(bsvc)
                  /\ bat' = [bat EXCEPT !["scanner"] = "halt"]
                  /\ brace' = (brace \/ Somebody("scanner"))
                  /\ UNCHANGED bm
  /\ UNCHANGED <<group, bh, brt, barg, bbox, blocks>>

\* ReqBgChange: the advice is out before there is a channel for the answer.
ReqBgChange ==
  /\ bat["scanner"] = "halt" /\ AllRoutineExit(brt) /\ bm.cand <= MaxNum
  /\ bbox' = bbox \cup {[type |-> "advice", num |-> bm.cand, h |-> bm.curH]}
  /\ bm' = [bm EXCEPT !.asks = @ + 1]
  /\ Move("scanner", "ask", [id |-> bm.cand, chan |-> bm.asks + 1])
  /\ UNCHANGED <<group, bh, bsvc, brt, blocks, brace>>

PutBgDemandReceiveChan ==
  /\ bat["scanner"] = "ask"
  /\ bm' = [bm EXCEPT !.chan[barg["scanner"].id] = barg["scanner"].chan]
  /\ bat' = [bat EXCEPT !["scanner"] = "wait"]
  /\ UNCHANGED <<group, bh, bsvc, brt, barg, bbox, blocks, brace>>

\* WaitBgDemand gives up: the next number, and the handler restarts as it was.
DemandTimeout ==
  /\ bat["scanner"] = "wait"
  /\ bm' = [bm EXCEPT !.chan[barg["scanner"].id] = 0, !.cand = @ + 1]
  /\ Move("scanner", "reset", NoGroup)
  /\ brace' = (brace \/ Somebody("scanner"))
  /\ UNCHANGED <<group, bh, bsvc, brt, bbox, blocks>>

(***************************************************************************)
(* CheckBgChange.                                                          *)
(***************************************************************************)
\* One block: its group is adopted unless the change was made here.
CheckBgChange ==
  /\ bat["checker"] = "idle" /\ bm.scan < Len(blocks)
  /\ LET b == blocks[bm.scan + 1]
         m == [bm EXCEPT !.scan = @ + 1]
     IN  IF b.chg <= bm.lastChange
         THEN bm' = m /\ UNCHANGED <<bat, barg, brace>>
         ELSE /\ bm' = [m EXCEPT !.lastChange = b.chg, !.changed = @ \ {b.chg}]
              /\ IF b.chg \in bm.changed
                 THEN UNCHANGED <<bat, barg, brace>>
                 ELSE EnterReset("checker", [id |-> b.id, members |-> b.members])
  /\ UNCHANGED <<group, bh, bsvc, brt, bbox, blocks>>

(***************************************************************************)
(* DeliverMsg.                                                             *)
(***************************************************************************)
RoutineEnters(r) ==
  /\ brt[r] = "spawned"
  /\ brt' = [brt EXCEPT ![r] = "loop"]
  /\ UNCHANGED <<group, bm, bh, bsvc, bat, barg, bbox, blocks, brace>>

RoutineLeaves(r) ==
  /\ brt[r] = "loop" /\ bsvc.quit = "closed"
  /\ brt' = [brt EXCEPT ![r] = "none"]
  /\ UNCHANGED <<group, bm, bh, bsvc, bat, barg, bbox, blocks, brace>>

\* The last block's group, and when it changed.
Tip == IF blocks = <<>> THEN [chg |-> 0, id |-> 0, members |-> FirstGroup] ELSE Last(blocks)

\* The group that has a number: its proposer demands one only.
Demanded(id) == IF GetNewBgProposer(id) = Me THEN bm.demand[id] ELSE Groups[id]

\* A block of the node's own group, or one that is synchronised: its validators
\* are adopted if they changed later than the node's, else they must agree.
AddBlock(r, b) ==
  /\ brt[r] = "loop" /\ Len(blocks) < MaxBlocks
  /\ b.chg > bh.chg \/ (b.id = bh.id /\ b.members = bh.members)
  /\ blocks' = Append(blocks, b)
  /\ bh' = [height |-> bh.height + 1, id |-> b.id, members |-> b.members, chg |-> b.chg]
  /\ brace' = (brace \/ (b.id # bh.id /\ bh.height \in bm.changed))
  /\ UNCHANGED <<group, bm, bsvc, brt, bat, barg, bbox>>

(***************************************************************************)
(* The whole.                                                              *)
(***************************************************************************)
Nobody == [n \in Nums |-> [a \in Total |-> 0]]

GroupInit ==
  /\ group = [id |-> 0, members |-> FirstGroup]
  /\ bm = [cand |-> 1, count |-> 0, curH |-> 1, advice |-> Nobody, candidates |-> Nobody,
           demand |-> [n \in Nums |-> {}], changed |-> {}, chan |-> [n \in Nums |-> 0], asks |-> 0,
           scan |-> 0, lastChange |-> 0]
  /\ bh = [height |-> 1, id |-> 0, members |-> FirstGroup, chg |-> 0]
  /\ bsvc = Start(NewService)
  /\ brt = OnStart([r \in Slots |-> "none"])
  /\ bat = [p \in Workers |-> "idle"]
  /\ barg = [p \in Workers |-> NoGroup]
  /\ bbox = {} /\ blocks = <<>> /\ brace = FALSE

GroupWorks ==
  \/ \E msg \in bbox : TakeBgAdvice(msg) \/ TakeBgDemand(msg)
  \/ \E p \in Installers : GroupStop(p) \/ GroupExit(p) \/ GroupInstall(p) \/ GroupFinish(p)
  \/ \E p \in Workers : GroupReset(p) \/ GroupResetRest(p) \/ GroupStart(p)
  \/ \E r \in Slots : RoutineEnters(r) \/ RoutineLeaves(r)
  \/ NotifyDemand \/ ReqBgChange \/ PutBgDemandReceiveChan \/ DemandTimeout \/ CheckBgChange

\* Which peer advises does not matter, only how many have: the next one does.
Silent(num) ==
  LET left == {a \in Total \ {Me} : bm.advice[num][a] = 0}
  IN  IF left = {} THEN Me ELSE CHOOSE a \in left : \A b \in left : a <= b

GroupArrives ==
  \/ \E num \in Nums, h \in 1..(MaxBlocks + 1) : RecvBgAdvice(num, Silent(num), h)
  \/ \E num \in Nums : RecvBgDemand(num)
  \/ \E r \in Slots : AddBlock(r, Tip)
  \/ \E r \in Slots :
       Me \in bh.members /\ AddBlock(r, [chg |-> bh.chg, id |-> bh.id, members |-> bh.members])
  \/ \E r \in Slots, id \in Nums :
       /\ id > Tip.id /\ Demanded(id) # {}
       /\ AddBlock(r, [chg |-> bh.height, id |-> id, members |-> Demanded(id)])
  \/ GroupTimeout

\* A behaviour is followed up to the first race.
GroupNext == ~brace /\ (GroupWorks \/ GroupArrives)

(***************************************************************************)
(* Properties.                                                             *)
(***************************************************************************)
\* Types; and a group always has BftNumber members: CalcBFTGroupMembersByVRF.
GroupTypeOK ==
  /\ group.id \in 0..MaxNum /\ group.members \in kSubset(BftNumber, Total)
  /\ bm.cand \in 1..(MaxNum + 1 + MaxRequests) /\ bm.count \in 0..1 /\ bm.curH \in 1..(MaxBlocks + 1)
  /\ bm.demand \in [Nums -> SUBSET Total] /\ bm.chan \in [Nums -> 0..MaxRequests]
  /\ bh.id \in 0..MaxNum /\ bh.members \in kSubset(BftNumber, Total)
  /\ bh.height = Len(blocks) + 1 /\ bh.chg <= bh.height
  /\ bsvc \in ServiceType /\ (brace \/ bsvc.quit # "panic")
  /\ \A r \in Slots : brt[r] \in {"none", "spawned", "loop"}

\* Once the changes are over and CheckBgChange has read all blocks, handler
\* and manager agree on the group, and the candidate number is ahead of it:
\* ResetBftGroup, CheckBgChange, bgChangeCache.
GroupSettled ==
  /\ ~brace /\ IsRunning(bsvc) /\ bm.scan = Len(blocks)
  /\ \A p \in Workers : bat[p] = "idle"
  => bh.id = group.id /\ bh.members = group.members /\ group.id < bm.cand

\* The node joins every request that more than a third of the validators make:
\* its own advice is counted or under way, unless the number is settled or out
\* of date (HandleBgAdviceMsg).
GroupFollows ==
  \A num \in Nums :
    OneThird(bm, num) =>
      \/ Me \in Advised(bm, num) \/ bm.demand[num] # {} \/ num < bm.cand - 1 \/ num <= group.id
      \/ \E msg \in bbox : msg.type = "advice" /\ msg.num = num
=============================================================================
