------------------------------ MODULE Download ------------------------------
(***************************************************************************)
(* Catching up with a peer: the handler's Monitor asks for heights,        *)
(* syncServer starts a synchronisation, blockSyncThread downloads blocks   *)
(* from the peer and DeliverMsg takes them.  Messages are never removed:   *)
(* they may be lost, late, repeated and out of order.  A peer's ledger is   *)
(* a number, that of its last block.                                       *)
(***************************************************************************)
EXTENDS Naturals, Sequences, FiniteSets

CONSTANTS Peers, Top,           \* peer -> number of its last block
          Span,                 \* the blocks of one synchronisation (10)
          MaxSyncBlocks,        \* reqMaxBlocksCount (5)
          MaxTicks, MaxVersion, MaxHeight, MaxResets

VARIABLES client,    \* Height, isSyncStatus, syncHandler.Version, syncTimer (armed, fired)
          hreq,      \* heightReq: version, the peer with the least height, count
          hresp,     \* answers to height requests
          entering,  \* what syncServer has still to do in SyncEntrance
          todo,      \* whether DeliverMsg has still to end a synchronisation
          sch,       \* syncChainHandler: SyncState, version, interval, exitTask
          queue,     \* syncReq
          job,       \* blockSyncThread
          answers,   \* answers of peers, on their way
          held,      \* those that HandlerMessage has let pass
          box,       \* syncBlockChannel
          notes,     \* recvSyncChan
          tells,     \* history: the last notification
          crossed    \* history: SyncEntrance overlapped the end of another one

clientVars == <<client, hreq, hresp, entering, todo>>
netVars == <<answers, held, box>>
downloadVars == <<clientVars, sch, queue, job, netVars, notes, tells, crossed>>

NoJob == [at |-> "idle", peer |-> 0, begin |-> 0, end |-> 0, target |-> 0, tmpEnd |-> 0,
          tries |-> 0, ver |-> 0, left |-> <<>>, ok |-> TRUE]

\* The numbers from a to b.
Blocks(a, b) == [i \in 1..(IF b < a THEN 0 ELSE b - a + 1) |-> a + i - 1]

(***************************************************************************)
(* The handler: heights of peers.                                          *)
(***************************************************************************)
ResetMinHeightPeer == [ver |-> hreq.ver + 1, peer |-> 0, num |-> 0, count |-> 0]

\* The answer to BlockHeightReqFromPeer: the peer's last block.
SendBlockHeightReqToPeer(p, v) == [ver |-> v, peer |-> p, num |-> Top[p]]

\* Every tick checkBackwardFromBg asks a peer, unless the node synchronises.
Monitor(p) ==
  /\ hreq.ver < MaxTicks
  /\ hreq' = ResetMinHeightPeer
  /\ hresp' = IF client.syncing THEN hresp
              ELSE hresp \cup {SendBlockHeightReqToPeer(p, hreq'.ver)}
  /\ UNCHANGED <<client, entering, todo, sch, queue, job, netVars, notes, tells, crossed>>

VerifHeightResp(r) == r.ver = hreq.ver /\ r.num + 1 > client.height

\* ReciveHeihtResp: the least height decides whether, this one how far.
ReceiveHeightResp(r) ==
  /\ entering.at = "idle" /\ VerifHeightResp(r) /\ hreq.count < 2
  /\ LET least == IF r.num < hreq.num \/ hreq.num = 0 THEN r ELSE hreq
     IN  /\ hreq' = [hreq EXCEPT !.peer = least.peer, !.num = least.num, !.count = @ + 1]
         /\ IF client.height < least.num + 1 /\ ~client.syncing
            THEN /\ entering' = [at |-> "ask", to |-> r.num + 1, peer |-> least.peer]
                 /\ crossed' = (crossed \/ todo)
            ELSE UNCHANGED <<entering, crossed>>
  /\ UNCHANGED <<client, hresp, todo, sch, queue, job, netVars, notes, tells>>

(***************************************************************************)
(* The handler: SyncEntrance, step by step.                                *)
(***************************************************************************)
\* The blocks to ask for: at most Span of them.
Wanted(h, to) == [begin |-> h, end |-> IF to >= h + Span THEN h + Span - 1 ELSE to - 1]

\* SyncToTarget of the download, which has one request at a time.
Accept(r) == sch' = [sch EXCEPT !.busy = TRUE] /\ queue' = Append(queue, r)

\* The version, and updateSync; SyncToTarget refuses while another
\* synchronisation is going on.
SyncToTarget ==
  /\ entering.at = "ask" /\ client.ver < MaxVersion
  /\ entering' = [entering EXCEPT !.at = "start"]
  /\ IF client.syncing THEN client' = [client EXCEPT !.ver = @ + 1] /\ UNCHANGED <<sch, queue>>
     ELSE IF sch.busy
     THEN client' = [client EXCEPT !.ver = @ + 1, !.timer = FALSE] /\ UNCHANGED <<sch, queue>>
     ELSE /\ client' = [client EXCEPT !.ver = @ + 1, !.syncing = TRUE]
          /\ Accept([want |-> Wanted(client.height, entering.to), peer |-> entering.peer,
                     ver |-> client'.ver])
  /\ UNCHANGED <<hreq, hresp, todo, job, netVars, notes, tells, crossed>>

\* Faulty variant: the timer is not started.
StartSyncTimerNot == UNCHANGED client

StartSyncTimer == client' = [client EXCEPT !.timer = TRUE]

EndEntrance ==
  /\ entering.at = "start" /\ entering' = [entering EXCEPT !.at = "idle", !.to = 0, !.peer = 0]
  /\ StartSyncTimer
  /\ UNCHANGED <<hreq, hresp, todo, sch, queue, job, netVars, notes, tells, crossed>>

\* The timer's channel keeps a tick that comes before Stop.
SyncTimerFires ==
  /\ client.timer
  /\ client' = [client EXCEPT !.timer = FALSE, !.fired = TRUE]
  /\ UNCHANGED <<hreq, hresp, entering, todo, sch, queue, job, netVars, notes, tells, crossed>>

SyncExit(s) == [s EXCEPT !.exit = @ \/ s.busy]

\* syncServer gives up and tells the download to exit.
SyncTimeout ==
  /\ client.fired /\ entering.at = "idle" /\ client.ver < MaxVersion
  /\ client' = [client EXCEPT !.fired = FALSE, !.syncing = FALSE, !.ver = @ + 1]
  /\ sch' = SyncExit(sch)
  /\ UNCHANGED <<hreq, hresp, entering, todo, queue, job, netVars, notes, tells, crossed>>

(***************************************************************************)
(* The handler: DeliverMsg.                                                *)
(***************************************************************************)
\* A notification.  A block that is not the next one fails ValidateBlock, and
\* resetSync ends the synchronisation, as it does when the download failed.
ReceiveSync ==
  /\ ~todo /\ notes # <<>> /\ client.ver < MaxVersion
  /\ LET n == Head(notes)
         current == n.ver = client.ver
         adds == current /\ n.kind = "block" /\ n.num = client.height
     IN  /\ todo' = (current /\ n.kind = "end")
         /\ client' = IF adds THEN [client EXCEPT !.height = @ + 1]
                      ELSE IF todo' THEN [client EXCEPT !.syncing = FALSE]
                      ELSE IF current
                      THEN [client EXCEPT !.ver = @ + 1, !.syncing = FALSE, !.timer = FALSE]
                      ELSE client
         /\ crossed' = (crossed \/ (current /\ ~adds /\ entering.at # "idle"))
  /\ notes' = Tail(notes)
  /\ UNCHANGED <<hreq, hresp, entering, sch, queue, job, netVars, tells>>

\* The flag is down already when the timer is stopped and the version grows.
EndSync ==
  /\ todo /\ todo' = FALSE
  /\ client' = [client EXCEPT !.timer = FALSE, !.ver = @ + 1]
  /\ UNCHANGED <<hreq, hresp, entering, sch, queue, job, netVars, notes, tells, crossed>>

\* A block of consensus.
CommitBlock ==
  /\ ~client.syncing /\ ~todo /\ client.height < MaxHeight
  /\ client' = [client EXCEPT !.height = @ + 1]
  /\ UNCHANGED <<hreq, hresp, entering, todo, sch, queue, job, netVars, notes, tells, crossed>>

\* OnReset of the handler: the version stays, and so does the download.
OnReset ==
  /\ ~todo /\ entering.at = "idle" /\ client.resets < MaxResets
  /\ client' = [client EXCEPT !.syncing = FALSE, !.timer = FALSE, !.resets = @ + 1]
  /\ notes' = <<>>
  /\ UNCHANGED <<hreq, hresp, entering, todo, sch, queue, job, netVars, tells, crossed>>

(***************************************************************************)
(* The download.                                                           *)
(***************************************************************************)
\* blockSyncProcess begins: signals to exit are cleared.
TakeRequest ==
  /\ job.at = "idle" /\ queue # <<>>
  /\ LET r == Head(queue)
     IN  job' = [NoJob EXCEPT !.at = "plan", !.peer = r.peer, !.begin = r.want.begin,
                              !.end = r.want.end, !.target = r.want.end, !.ver = r.ver]
  /\ queue' = Tail(queue)
  /\ sch' = [sch EXCEPT !.exit = FALSE]
  /\ UNCHANGED <<clientVars, netVars, notes, tells, crossed>>

\* The interval is the peer's, unless the range is large; after the first
\* answer endIndex - beginIndex wraps around and the range counts as large.
Interval(j) ==
  IF sch.interval[j.peer] = 0 \/ j.end < j.begin \/ j.end - j.begin > 20
  THEN MaxSyncBlocks ELSE sch.interval[j.peer]

PlanRequest ==
  /\ job.at = "plan"
  /\ LET n == Interval(job)
         end == IF job.target - job.begin + 1 > n THEN job.begin + n - 1 ELSE job.target
     IN  /\ sch' = [sch EXCEPT !.interval[job.peer] = n]
         /\ job' = [job EXCEPT !.at = "send", !.end = end, !.tmpEnd = end, !.tries = 0]
  /\ UNCHANGED <<clientVars, queue, netVars, notes, tells, crossed>>

\* processRequestBlocks of the peer: all the blocks or none.
Answer(p, v, a, b) == [ver |-> v, blocks |-> IF b <= Top[p] THEN Blocks(a, b) ELSE <<>>]

GenRemoteBlocksRequest(s) == [s EXCEPT !.ver = @ + 1]

\* getRemoteBlocks sends, then looks whether it shall exit.
SendRequest ==
  /\ job.at = "send" /\ sch.ver < MaxVersion
  /\ answers' = answers \cup {Answer(job.peer, sch.ver, job.begin, job.tmpEnd)}
  /\ sch' = [GenRemoteBlocksRequest(sch) EXCEPT !.ver = IF sch.exit THEN @ + 1 ELSE @, !.exit = FALSE]
  /\ job' = [job EXCEPT !.tries = @ + 1, !.at = IF sch.exit THEN "end" ELSE "wait",
                        !.ok = ~sch.exit]
  /\ UNCHANGED <<clientVars, queue, held, box, notes, tells, crossed>>

\* HandlerMessage compares the version and then passes the answer on.
CheckVersion(a) == a.ver = sch.ver - 1

HandlerMessage(a) ==
  /\ held = {} /\ Len(box) < 2 /\ CheckVersion(a)
  /\ held' = {a}
  /\ UNCHANGED <<clientVars, sch, queue, job, answers, box, notes, tells, crossed>>

PassAnswer(a) ==
  /\ box' = Append(box, a) /\ held' = {}
  /\ UNCHANGED <<clientVars, sch, queue, job, answers, notes, tells, crossed>>

\* Faulty variant: the numbers of the blocks are not compared.
FitsAny(bs, j) == TRUE

\* The answer begins and ends as asked.
Fits(bs, j) == Head(bs) = j.begin /\ bs[Len(bs)] = j.tmpEnd

\* No blocks end the download as if it were over.
TakeAnswer ==
  /\ job.at = "wait" /\ box # <<>>
  /\ box' = Tail(box)
  /\ LET bs == Head(box).blocks
     IN  job' = IF bs = <<>> THEN [job EXCEPT !.at = "end"]
                ELSE IF Fits(bs, job)
                THEN [job EXCEPT !.at = "tell", !.left = bs, !.end = bs[Len(bs)],
                                 !.begin = bs[Len(bs)] + 1]
                ELSE [job EXCEPT !.at = "send"]
  /\ UNCHANGED <<clientVars, sch, queue, answers, held, notes, tells, crossed>>

\* The first and the third time the interval is halved, the fifth is the last.
AnswerTimeout ==
  /\ job.at = "wait"
  /\ LET half == IF sch.interval[job.peer] \div 2 < 1 THEN 1 ELSE sch.interval[job.peer] \div 2
         next == IF job.tries = 5 THEN [job EXCEPT !.at = "end", !.ok = FALSE]
                 ELSE [job EXCEPT !.at = "send"]
     IN  IF job.tries \in {1, 3}
         THEN /\ sch' = [sch EXCEPT !.interval[job.peer] = half]
              /\ job' = [next EXCEPT !.tmpEnd = job.begin + half - 1]
         ELSE job' = next /\ UNCHANGED sch
  /\ UNCHANGED <<clientVars, queue, netVars, notes, tells, crossed>>

Tell(kind, num) == /\ tells' = [ver |-> job.ver, kind |-> kind, num |-> num]
                   /\ notes' = Append(notes, tells')

NotifyBlock ==
  /\ job.at = "tell" /\ job.left # <<>>
  /\ Tell("block", Head(job.left))
  /\ job' = [job EXCEPT !.left = Tail(@),
               !.at = IF Len(job.left) > 1 THEN @
                      ELSE IF job.begin > job.target THEN "end" ELSE "plan"]
  /\ UNCHANGED <<clientVars, sch, queue, netVars, crossed>>

NotifyEnd ==
  /\ job.at = "end"
  /\ Tell(IF job.ok THEN "end" ELSE "fail", 0)
  /\ job' = [job EXCEPT !.at = "clear"]
  /\ UNCHANGED <<clientVars, sch, queue, netVars, crossed>>

SetSyncState ==
  /\ job.at = "clear"
  /\ sch' = [sch EXCEPT !.busy = FALSE] /\ job' = [job EXCEPT !.at = "idle"]
  /\ UNCHANGED <<clientVars, queue, netVars, notes, tells, crossed>>

(***************************************************************************)
(* The whole.                                                              *)
(***************************************************************************)
DownloadInit ==
  /\ client = [height |-> 1, syncing |-> FALSE, ver |-> 0, timer |-> FALSE, fired |-> FALSE,
               resets |-> 0]
  /\ hreq = [ver |-> 0, peer |-> 0, num |-> 0, count |-> 0]
  /\ hresp = {} /\ todo = FALSE
  /\ entering = [at |-> "idle", to |-> 0, peer |-> 0]
  /\ sch = [busy |-> FALSE, ver |-> 1, interval |-> [p \in Peers |-> 0], exit |-> FALSE]
  /\ queue = <<>> /\ job = NoJob
  /\ answers = {} /\ held = {} /\ box = <<>>
  /\ notes = <<>> /\ tells = [ver |-> 0, kind |-> "none", num |-> 0] /\ crossed = FALSE

DownloadNext ==
  \/ \E p \in Peers : Monitor(p)
  \/ \E r \in hresp : ReceiveHeightResp(r)
  \/ SyncToTarget \/ EndEntrance \/ SyncTimerFires \/ SyncTimeout
  \/ ReceiveSync \/ EndSync \/ CommitBlock \/ OnReset
  \/ TakeRequest \/ PlanRequest \/ SendRequest
  \/ \E a \in answers : HandlerMessage(a)
  \/ \E a \in held : PassAnswer(a)
  \/ TakeAnswer \/ AnswerTimeout \/ NotifyBlock \/ NotifyEnd \/ SetSyncState

(***************************************************************************)
(* Properties.                                                             *)
(***************************************************************************)
\* Types; at most one request is queued or worked on: SyncToTarget.
DownloadTypeOK ==
  /\ client.height \in 1..(MaxHeight + Cardinality(answers) * MaxSyncBlocks)
  /\ client.syncing \in BOOLEAN /\ client.timer \in BOOLEAN /\ client.fired \in BOOLEAN
  /\ hreq.num \in {0} \cup {Top[p] : p \in Peers}
  /\ sch.ver \in 1..(MaxVersion + 1) /\ sch.interval \in [Peers -> 0..MaxSyncBlocks]
  /\ job.at \in {"idle", "plan", "send", "wait", "tell", "end", "clear"}
  /\ Len(queue) + (IF job.at = "idle" THEN 0 ELSE 1) = (IF sch.busy THEN 1 ELSE 0)

\* A node that synchronises has a timer that ends it, running or run out, even
\* when the download is lost; except after SyncEntrance overlapped the end of
\* the synchronisation before (sync.go, msgdeliver.go:147).
Watched ==
  /\ client.syncing /\ ~crossed /\ entering.at = "idle" /\ ~todo
  => client.timer \/ client.fired

\* The download as a stream of blocks.
Stream == INSTANCE BlockStream
            WITH open <- job.at # "idle", ver <- job.ver, told <- tells,
                 next <- IF job.left = <<>> THEN job.begin ELSE Head(job.left)

\* Whatever is lost, late or repeated, a synchronisation hands over consecutive
\* blocks from the one asked for, then its end, and nothing after it: syncBlock,
\* getRemoteBlocks and the versions of HandlerMessage.
Streams == Stream!StreamSpec
=============================================================================
