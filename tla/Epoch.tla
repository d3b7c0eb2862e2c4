------------------------------- MODULE Epoch -------------------------------
(***************************************************************************)
(* The DBFT manager of one node: its goroutines (the listener of peers'    *)
(* messages, the block timeout scanner, the two servers that CheckEpoch-   *)
(* Change wakes up, and DeliverMsg of the handler) and the epoch change    *)
(* they carry out.  Peers send any message; hashes and signatures are      *)
(* right, as a message that fails them is dropped.                         *)
(***************************************************************************)
EXTENDS Service, Integers, SequencesExt

CONSTANTS Self,          \* this node, a validator (a number: its address)
          GeneValidators, GeneBftGroup,    \* of the configuration
          Lists,         \* epoch number -> the list server's white list
          Voted,         \* epochs with votes for more than half of the supply
          TokenOrder,    \* epoch number -> the nodes voted for, most tokens first
          BftNumber,     \* how many witnesses an epoch is to have
          Synced,        \* epoch number -> the witnesses that peers' blocks name
          MaxNo, MaxHeight, MaxAsks, MaxRequests,   \* bounds
          TARGET_BLK_COUNT

VARIABLES epoch,         \* dbftMgr.epoch: no, depend, begin, end, wit
          mgr,           \* the manager's other fields
          hnd,           \* the handler's: height, epoch info and witnesses of Validators
          svc, routine,  \* the handler as a service
          at, arg,       \* where each goroutine is, and the epoch it works on
          inbox,         \* InternalMsgQueue
          race           \* history: two goroutines were changing the handler

epochVars == <<epoch, mgr, hnd, svc, routine, at, arg, inbox, race>>

Nos == 1..MaxNo
NoEpoch == [no |-> 0, depend |-> 0, begin |-> 0, end |-> 0, wit |-> {}]
Managers == {"listener", "scanner", "full", "find"}
\* The labels of ResetEpoch, and of the scanner when it restarts the handler.
Resetting == {"halt", "build", "stop", "exit", "reset", "reset2", "install", "load", "start"}
Alive == svc.quit # "panic"

(***************************************************************************)
(* Choosing witnesses.                                                     *)
(***************************************************************************)
\* The nodes with the most tokens among those on the list.
Top(order, list) ==
  LET listed == SelectSeq(order, LAMBDA v : v \in list)
  IN  {listed[i] : i \in 1..(IF Len(listed) < BftNumber THEN Len(listed) ELSE BftNumber)}

\* A list that is short is filled with everybody else.
getWitnessesByToken(order, list) ==
  IF Cardinality(Top(order, list)) = BftNumber THEN Top(order, list) ELSE list

\* GetEpochInfo is asked again while the server names four nodes or fewer, and
\* filling a short list ends only when it hits BftNumber.
ASSUME ListsLongEnough == \A no \in 2..MaxNo : Cardinality(Lists[no]) > 4
ASSUME FillingEnds ==
  \A no \in Voted :
    LET list == IF no = 1 THEN GeneValidators ELSE Lists[no]
    IN  BftNumber \in {Cardinality(list), Cardinality(Top(TokenOrder[no], list))}

\* isExist finds what the cache holds, never what only the database holds.
isExist(list, no) == list[no] # {}

\* Faulty variant: the database is not asked.
GetEpochCache(m, no) == m.list[no]

GetEpoch(m, no) == IF m.list[no] # {} THEN m.list[no] ELSE m.db[no]

\* getLastWitnesses: the latest earlier epoch in the cache, else the genesis one.
LastNo(m, depend) ==
  LET known == {n \in 1..(depend - 1) : isExist(m.list, n)}
  IN  IF known = {} THEN 0 ELSE CHOOSE n \in known : \A k \in known : k <= n

isVoteSatisfied(m, no) == no \in m.votes

\* Faulty variant: the tokens are given back before the witnesses are chosen.
GetWitnessesLate(m, e) ==
  [depend |-> LastNo(m, e.depend), wit |-> GetEpoch(m, LastNo(m, e.depend))]

GetWitnesses(m, e) ==
  IF isVoteSatisfied(m, e.no)
  THEN [depend |-> m.cand, wit |-> getWitnessesByToken(TokenOrder[e.no], m.total)]
  ELSE [depend |-> LastNo(m, e.depend), wit |-> GetEpoch(m, LastNo(m, e.depend))]

\* GetEpoch leaves what it read from the database in the cache.
Cached(m, e) ==
  IF isVoteSatisfied(m, e.no) THEN m
  ELSE LET d == LastNo(m, e.depend) IN [m EXCEPT !.list[d] = GetEpoch(m, d)]

\* BuildNewEpoch and ReSetBeginBlk.
BuildNewEpoch(m, e, no, height) ==
  LET w == GetWitnesses(m, e)
  IN  [no |-> no, depend |-> w.depend, begin |-> height, end |-> height, wit |-> w.wit]

IsBlksToTarget(e) == e.begin <= e.end /\ e.end - e.begin >= TARGET_BLK_COUNT

(***************************************************************************)
(* The messages.                                                           *)
(***************************************************************************)
\* GetNewEpochSenderAddr: by number over the white list sorted by address.
NewEpochSender(m, no) ==
  SetToSortSeq(m.total, <)[(no % Cardinality(m.total)) + 1]

BuildEpochChangeMsg(no) == [type |-> "change", no |-> no]
BuildNewEpochMsg(e) == [type |-> "new", no |-> e.no, epoch |-> e]

IsMoreThanOneThird(m, no) == m.changes[no] > Cardinality(m.total) \div 3
IsMajority(m, no) == m.changes[no] > (2 * Cardinality(m.total)) \div 3

\* The request is counted; what the node follows is never sent, as the
\* message just counted is found by IsExist.
Counted(m, no) ==
  LET c == [m EXCEPT !.changes[no] = @ + 1]
  IN  IF IsMoreThanOneThird(c, no) /\ no > c.cand THEN [c EXCEPT !.cand = no] ELSE c

HandleEpochChange(no) ==
  IF no < mgr.cand - 1 \/ no \in mgr.newEpochs
  THEN [m |-> mgr, out |-> {}]
  ELSE LET m == Counted(mgr, no)
       IN  IF IsMajority(m, no) /\ NewEpochSender(m, no) = Self
           THEN [m |-> Cached(m, epoch),
                 out |-> {BuildNewEpochMsg(BuildNewEpoch(m, epoch, no, hnd.height))}]
           ELSE [m |-> m, out |-> {}]

\* checkNewEpochMatch.
Match(net, own) ==
  net.begin = own.begin /\ net.end = own.end /\ net.depend = own.depend /\ net.wit = own.wit

\* Faulty variant: the number is not compared with the candidate's.
AcceptsAny(net) ==
  /\ IsMoreThanOneThird(mgr, net.no)
  /\ Match(net, BuildNewEpoch(mgr, epoch, net.no, hnd.height))

\* Whether HandleNewEpoch goes on to ResetEpoch.
Accepts(net) ==
  /\ net.no >= mgr.cand
  /\ IsMoreThanOneThird(mgr, net.no)
  /\ Match(net, BuildNewEpoch(mgr, epoch, net.no, hnd.height))

(***************************************************************************)
(* The listener.                                                           *)
(***************************************************************************)
Goto(p, label, e) == at' = [at EXCEPT ![p] = label] /\ arg' = [arg EXCEPT ![p] = e]

\* Somebody else is stopping or restarting the handler, or has started it
\* and its routine is not in the wait group yet.
Busy(p) == \/ \E q \in Managers \ {p} : at[q] \in Resetting
           \/ \E r \in Slots : routine[r] = "spawned"

\* ResetEpoch begins.
Enter(p, e) == Goto(p, "stop", e) /\ race' = (race \/ Busy(p))

\* A request of a peer, or the node's own from the internal queue.
RecvEpochChange(no, own) ==
  /\ at["listener"] = "idle"
  /\ IF own THEN BuildEpochChangeMsg(no) \in inbox
     ELSE /\ mgr.changes[no] < Cardinality(mgr.total)
          /\ FoldFunction(+, 0, mgr.changes) < MaxRequests
  /\ LET r == HandleEpochChange(no)
     IN  /\ mgr' = r.m
         /\ inbox' = (inbox \ (IF own THEN {BuildEpochChangeMsg(no)} ELSE {})) \cup r.out
  /\ UNCHANGED <<epoch, hnd, svc, routine, at, arg, race>>

\* The announcement of the node whose turn it is.
RecvNewEpoch(net, own) ==
  /\ at["listener"] = "idle"
  /\ IF own THEN BuildNewEpochMsg(net) \in inbox
     ELSE NewEpochSender(mgr, net.no) # Self /\ Accepts(net)
  /\ inbox' = IF own THEN inbox \ {BuildNewEpochMsg(net)} ELSE inbox
  /\ IF Accepts(net) /\ (own => NewEpochSender(mgr, net.no) = Self)
     THEN Enter("listener", net) /\ mgr' = Cached(mgr, epoch)
     ELSE UNCHANGED <<mgr, at, arg, race>>
  /\ UNCHANGED <<epoch, hnd, svc, routine>>

\* The unbuffered channel of WaitNewEpoch: sender and receiver meet.  The
\* receiver waits on unless the number is the one before the candidate.
Notify ==
  /\ at["listener"] = "notify" /\ at["scanner"] = "wait"
  /\ arg["listener"].chan = arg["scanner"].chan
  /\ LET no == arg["listener"].no
     IN  IF no = mgr.cand - 1
         THEN /\ at' = [at EXCEPT !["listener"] = "idle", !["scanner"] = "idle"]
              /\ arg' = [arg EXCEPT !["listener"] = NoEpoch, !["scanner"] = NoEpoch]
              /\ mgr' = [mgr EXCEPT !.notify[no] = 0]
         ELSE Goto("listener", "idle", NoEpoch) /\ UNCHANGED mgr
  /\ UNCHANGED <<epoch, hnd, svc, routine, inbox, race>>

(***************************************************************************)
(* ResetEpoch, by the listener, FullBlkChangeServer or FindEpochChange.    *)
(***************************************************************************)
Resetters == {"listener", "full", "find"}

\* unfreezeToken, then Stop, whose error is ignored.
StopHandler(p) ==
  /\ at[p] = "stop"
  /\ mgr' = [mgr EXCEPT !.votes = @ \ {epoch.no}]
  /\ svc' = Stop(svc)
  /\ at' = [at EXCEPT ![p] = "exit"]
  /\ UNCHANGED <<epoch, hnd, routine, arg, inbox, race>>

WaitExit(p) ==
  /\ at[p] = "exit" /\ AllRoutineExit(routine)
  /\ at' = [at EXCEPT ![p] = "reset"]
  /\ UNCHANGED <<epoch, mgr, hnd, svc, routine, arg, inbox, race>>

\* Reset fails when somebody else has reset the handler: ResetEpoch returns.
ResetHandler(p) ==
  /\ at[p] = "reset"
  /\ IF CanReset(svc)
     THEN svc' = ResetFlag(svc) /\ Goto(p, "reset2", arg[p])
     ELSE UNCHANGED svc /\ Goto(p, IF p = "scanner" THEN "start" ELSE "idle", NoEpoch)
  /\ UNCHANGED <<epoch, mgr, hnd, routine, inbox, race>>

ResetHandlerRest(p) ==
  /\ at[p] = "reset2"
  /\ svc' = ResetRest(svc)
  /\ at' = [at EXCEPT ![p] = IF p = "scanner" THEN "start" ELSE "install"]
  /\ UNCHANGED <<epoch, mgr, hnd, routine, arg, inbox, race>>

\* The handler gets its validators, the manager its epoch.
Install(p) ==
  /\ at[p] = "install"
  /\ LET e == arg[p]
     IN  /\ hnd' = [hnd EXCEPT !.no = e.no, !.depend = e.depend, !.begin = hnd.height,
                               !.wit = e.wit]
         /\ epoch' = [no |-> e.no, depend |-> e.depend, begin |-> e.begin, end |-> e.end,
                      wit |-> e.wit]
  /\ at' = [at EXCEPT ![p] = "load"]
  /\ UNCHANGED <<mgr, svc, routine, arg, inbox, race>>

Without(f, no) == [n \in DOMAIN f |-> IF n = no THEN 0 ELSE f[n]]

\* Faulty variant: the candidate number is left as it was.
LoadedNoCand(m, e) ==
  [m EXCEPT !.total = Lists[e.no], !.count = 0,
            !.list = [n \in DOMAIN @ |-> IF n = e.no THEN e.wit
                                        ELSE IF n = e.no - 1 THEN {} ELSE @[n]],
            !.changes = Without(@, e.no - 1), !.newEpochs = @ \ {e.no - 1}]

Loaded(m, e) ==
  [m EXCEPT !.total = Lists[e.no], !.count = 0, !.cand = e.no + 1,
            !.list = [n \in DOMAIN @ |-> IF n = e.no THEN e.wit
                                        ELSE IF n = e.no - 1 THEN {} ELSE @[n]],
            !.changes = Without(@, e.no - 1), !.newEpochs = @ \ {e.no - 1}]

\* LoadTotalValidators has waited for the list server; then the rest.
Load(p) ==
  /\ at[p] = "load"
  /\ mgr' = Loaded(mgr, arg[p])
  /\ at' = [at EXCEPT ![p] = "start"]
  /\ UNCHANGED <<epoch, hnd, svc, routine, arg, inbox, race>>

\* Faulty variant: IsContinueConsensus is not set again.
StartedStill ==
  IF Starts(svc)
  THEN Free(routine) # {} /\ routine' = OnStart(routine) /\ UNCHANGED hnd
  ELSE UNCHANGED <<routine, hnd>>

\* What Start leads to: the handler goes on, or somebody else started it.
Started ==
  IF Starts(svc)
  THEN Free(routine) # {} /\ routine' = OnStart(routine) /\ hnd' = [hnd EXCEPT !.cont = TRUE]
  ELSE UNCHANGED <<routine, hnd>>

\* Start; the listener then records the message and tells who waits for it.
StartHandler(p) ==
  /\ at[p] = "start"
  /\ svc' = Start(svc) /\ Started
  /\ LET no == arg[p].no
     IN  IF p = "listener" /\ Starts(svc)
         THEN /\ mgr' = [mgr EXCEPT !.newEpochs = @ \cup {no}]
              /\ IF mgr.notify[no] # 0
                 THEN Goto(p, "notify", [no |-> no, chan |-> mgr.notify[no]])
                 ELSE Goto(p, "idle", NoEpoch)
         ELSE Goto(p, "idle", NoEpoch) /\ UNCHANGED mgr
  /\ UNCHANGED <<epoch, inbox, race>>

(***************************************************************************)
(* FullBlkChangeServer and FindEpochChange: DeliverMsg hands over on a     *)
(* channel without buffer, so it waits in CheckEpochChange until then.     *)
(***************************************************************************)
ReceiveFull(r) ==
  /\ at["full"] = "idle" /\ routine[r] = "sendFull"
  /\ routine' = [routine EXCEPT ![r] = "loop"]
  /\ at' = [at EXCEPT !["full"] = "build"]
  /\ UNCHANGED <<epoch, mgr, hnd, svc, arg, inbox, race>>

BuildFull ==
  /\ at["full"] = "build" /\ mgr.cand <= MaxNo
  /\ Enter("full", BuildNewEpoch(mgr, epoch, mgr.cand, hnd.height))
  /\ mgr' = Cached(mgr, epoch)
  /\ UNCHANGED <<epoch, hnd, svc, routine, inbox>>

ReceiveFind(r) ==
  /\ at["find"] = "idle" /\ routine[r] = "sendFind"
  /\ routine' = [routine EXCEPT ![r] = "loop"]
  /\ Enter("find", [no |-> hnd.no, depend |-> hnd.depend, begin |-> hnd.begin,
                    end |-> hnd.height, wit |-> hnd.wit])
  /\ UNCHANGED <<epoch, mgr, hnd, svc, inbox>>

(***************************************************************************)
(* BlkTimeoutRoutineScanner.                                               *)
(***************************************************************************)
IsNeedCheckEpoch ==
  \/ Cardinality(Lists[mgr.cand]) > Cardinality(epoch.wit)
  \/ Cardinality(Lists[mgr.cand]) = Cardinality(epoch.wit) /\ Lists[mgr.cand] # epoch.wit

\* The timer: a new height, or no block although there are transactions.  It
\* asks for a change the second time only.
BlkTimeout ==
  /\ at["scanner"] = "idle" /\ mgr.cand <= MaxNo
  /\ IF hnd.height # mgr.curH
     THEN mgr' = [mgr EXCEPT !.curH = hnd.height] /\ UNCHANGED <<svc, at, race>>
     ELSE /\ IsNeedCheckEpoch /\ mgr.asks < MaxAsks
          /\ IF mgr.count = 0
             THEN mgr' = [mgr EXCEPT !.count = 1] /\ UNCHANGED <<svc, at, race>>
             ELSE /\ svc' = Stop(svc)
                  /\ at' = [at EXCEPT !["scanner"] = "halt"]
                  /\ race' = (race \/ Busy("scanner"))
                  /\ UNCHANGED mgr
  /\ UNCHANGED <<epoch, hnd, routine, arg, inbox>>

\* ReqEpochChange once DeliverMsg is gone: the request is out before there is a
\* channel for the answer.
ReqEpochChange ==
  /\ at["scanner"] = "halt" /\ AllRoutineExit(routine) /\ mgr.cand <= MaxNo
  /\ inbox' = inbox \cup {BuildEpochChangeMsg(mgr.cand)}
  /\ mgr' = [mgr EXCEPT !.asks = @ + 1]
  /\ Goto("scanner", "ask", [no |-> mgr.cand, chan |-> mgr.asks + 1])
  /\ UNCHANGED <<epoch, hnd, svc, routine, race>>

SetNewEpochNotify ==
  /\ at["scanner"] = "ask"
  /\ mgr' = [mgr EXCEPT !.notify[arg["scanner"].no] = arg["scanner"].chan]
  /\ at' = [at EXCEPT !["scanner"] = "wait"]
  /\ UNCHANGED <<epoch, hnd, svc, routine, arg, inbox, race>>

\* WaitNewEpoch gives up; the scanner then restarts the handler as it was.
WaitTimeout ==
  /\ at["scanner"] = "wait"
  /\ LET no == arg["scanner"].no
     IN  mgr' = [mgr EXCEPT !.notify[no] = 0, !.cand = IF @ = no THEN no + 1 ELSE @]
  /\ Goto("scanner", "reset", NoEpoch)
  /\ race' = (race \/ Busy("scanner"))
  /\ UNCHANGED <<epoch, hnd, svc, routine, inbox>>

(***************************************************************************)
(* DeliverMsg.                                                             *)
(***************************************************************************)
\* The routine enters the wait group.
EnterLoop(r) ==
  /\ routine[r] = "spawned"
  /\ routine' = [routine EXCEPT ![r] = "loop"]
  /\ UNCHANGED <<epoch, mgr, hnd, svc, at, arg, inbox, race>>

\* The quit channel is looked up again before every message.
LeaveLoop(r) ==
  /\ routine[r] = "loop" /\ svc.quit = "closed"
  /\ routine' = [routine EXCEPT ![r] = "none"]
  /\ UNCHANGED <<epoch, mgr, hnd, svc, at, arg, inbox, race>>

\* What the epoch becomes when the handler's validators belong to it.
Updated(h) ==
  [no |-> h.no, depend |-> h.depend, begin |-> h.begin, end |-> h.height, wit |-> h.wit]

\* CheckEpochChange, after a block: the block's validators are of another
\* epoch, or the epoch is full, or it goes on and is recorded with its first block.
CheckEpochChange(r, h) ==
  IF h.no # epoch.no
  THEN /\ hnd' = [h EXCEPT !.cont = FALSE]
       /\ routine' = [routine EXCEPT ![r] = "sendFind"]
       /\ UNCHANGED <<epoch, mgr>>
  ELSE /\ epoch' = Updated(h)
       /\ IF IsBlksToTarget(Updated(h))
          THEN /\ hnd' = [h EXCEPT !.cont = FALSE]
               /\ routine' = [routine EXCEPT ![r] = "sendFull"]
               /\ UNCHANGED mgr
          ELSE /\ hnd' = h
               /\ mgr' = IF h.height - h.begin = 1 THEN [mgr EXCEPT !.db[h.no] = h.wit] ELSE mgr
               /\ UNCHANGED routine

\* A block is agreed on, or one is synchronised, which the validators of a
\* later epoch may have signed.
Commit(r, no) ==
  /\ routine[r] = "loop" /\ hnd.cont
  /\ hnd.height < MaxHeight /\ epoch.no < MaxNo
  /\ CheckEpochChange(r, IF no = hnd.no THEN [hnd EXCEPT !.height = @ + 1]
                         ELSE [hnd EXCEPT !.height = @ + 1, !.no = no, !.depend = no,
                                          !.begin = hnd.height, !.wit = Synced[no]])
  /\ UNCHANGED <<svc, at, arg, inbox, race>>

(***************************************************************************)
(* The whole.                                                              *)
(***************************************************************************)
\* NewDBFTManager and OnStart on a new chain.
EpochInit ==
  /\ epoch = [no |-> 1, depend |-> 0, begin |-> 1, end |-> 1, wit |-> GeneBftGroup]
  /\ mgr = [cand |-> 2, total |-> GeneValidators, count |-> 0, curH |-> 1,
            changes |-> [n \in Nos |-> 0], newEpochs |-> {}, notify |-> [n \in Nos |-> 0],
            asks |-> 0, list |-> [n \in 0..MaxNo |-> IF n = 1 THEN GeneBftGroup ELSE {}],
            db |-> [n \in 0..MaxNo |-> IF n = 0 THEN GeneBftGroup ELSE {}], votes |-> Voted]
  /\ hnd = [height |-> 1, no |-> 1, depend |-> 0, begin |-> 1, wit |-> GeneBftGroup, cont |-> TRUE]
  /\ svc = Start(NewService)
  /\ routine = OnStart([r \in Slots |-> "none"])
  /\ at = [p \in Managers |-> "idle"]
  /\ arg = [p \in Managers |-> NoEpoch]
  /\ inbox = {} /\ race = FALSE

\* What the node does by itself; peers and blocks come in Arrives.
Proceeds ==
  \/ \E no \in Nos : RecvEpochChange(no, TRUE)
  \/ \E m \in inbox : m.type = "new" /\ RecvNewEpoch(m.epoch, TRUE)
  \/ \E p \in Resetters : StopHandler(p) \/ WaitExit(p) \/ Install(p) \/ Load(p)
  \/ \E p \in Managers : ResetHandler(p) \/ ResetHandlerRest(p) \/ StartHandler(p)
  \/ \E r \in Slots : ReceiveFull(r) \/ ReceiveFind(r) \/ EnterLoop(r) \/ LeaveLoop(r)
  \/ Notify \/ BuildFull \/ ReqEpochChange \/ SetNewEpochNotify \/ WaitTimeout

Arrives ==
  \/ \E no \in Nos : RecvEpochChange(no, FALSE)
  \/ \E no \in Nos : RecvNewEpoch(BuildNewEpoch(mgr, epoch, no, hnd.height), FALSE)
  \/ \E r \in Slots, no \in Nos : (no = hnd.no \/ no > epoch.no) /\ Commit(r, no)
  \/ BlkTimeout

\* A behaviour is followed up to the first race.
EpochNext == ~race /\ (Proceeds \/ Arrives)

EpochFair == WF_epochVars(~race /\ Proceeds)

(***************************************************************************)
(* Properties.                                                             *)
(***************************************************************************)
EpochType ==
  [no : 0..MaxNo, depend : 0..(MaxNo + 1), begin : 0..MaxHeight, end : 0..MaxHeight,
   wit : SUBSET (GeneValidators \cup UNION {Lists[n] : n \in Nos})]

Label == {"idle", "halt", "ask", "wait", "notify", "build", "stop", "exit", "reset", "reset2",
          "install", "load", "start"}

\* Types; and the quit channel is never closed twice, the epoch in force always
\* has witnesses: service.go, dbftManager.go.
EpochTypeOK ==
  /\ epoch \in EpochType /\ epoch.wit # {}
  /\ mgr.cand \in 2..(MaxNo + 1) /\ mgr.count \in 0..1 /\ mgr.curH \in 1..MaxHeight
  /\ mgr.changes \in [Nos -> Nat] /\ mgr.newEpochs \subseteq Nos /\ mgr.votes \subseteq Voted
  /\ mgr.notify \in [Nos -> 0..MaxAsks]
  /\ hnd.height \in 1..MaxHeight /\ hnd.wit # {} /\ hnd.cont \in BOOLEAN
  /\ svc \in ServiceType /\ (race \/ Alive)
  /\ routine \in [Slots -> {"none", "spawned", "loop", "sendFull", "sendFind"}]
  /\ at \in [Managers -> Label]
  /\ \A m \in inbox : m.type \in {"change", "new"} /\ m.no \in Nos

Working == IsRunning(svc) /\ hnd.cont

\* Once a change is over, the handler and the manager agree on epoch and
\* witnesses, the candidate number is ahead of the epoch's, and isProposerByDPoS
\* finds the epoch in the cache: ResetEpoch, CheckEpochChange.
Settled ==
  Working /\ ~race /\ (\A p \in Managers : at[p] = "idle") =>
    /\ hnd.no = epoch.no /\ hnd.wit = epoch.wit
    /\ epoch.no < mgr.cand /\ mgr.list[epoch.no] = epoch.wit

\* However an epoch ends (full, by the peers' request, by a synchronised block,
\* or not at all because the request timed out), the handler is running and
\* taking part again: the error paths of ResetEpoch and of the scanner.
Resumes == ~Working ~> (Working \/ race \/ mgr.cand > MaxNo)

\* An epoch whose votes suffice is followed by the witnesses they elect, unless
\* a synchronised block says otherwise: the tokens are unfrozen by ResetEpoch
\* only after BuildNewEpoch has counted them.
VotesCount ==
  [][\A p \in {"listener", "full"} :
       Install(p) /\ epoch.no \in Voted =>
         epoch'.wit = getWitnessesByToken(TokenOrder[epoch.no], mgr.total)]_epochVars

\* Every change installs a later epoch, whoever carries it out: a request or an
\* announcement that is late changes nothing (HandleNewEpoch, BuildNewEpoch).
NumbersGrow ==
  [][\A p \in Resetters : Install(p) => epoch'.no > epoch.no]_epochVars
=============================================================================
