------------------------------- MODULE Links -------------------------------
(***************************************************************************)
(* The connections of one node: dialling and accepting, the handshake, the *)
(* consensus link beside the synchronisation link, broken links, retries,  *)
(* and the lists that count and find them.  A connection and the Peer      *)
(* object made for it have one number.  An address is an IP and a port;    *)
(* the port of an accepted connection is its number.                       *)
(***************************************************************************)
EXTENDS Naturals, Sequences, FiniteSets, Functions

CONSTANTS Ips, Owner,            \* Owner[ip] = identity of the node behind it
          Self, Seeds,           \* own identity; IPs of config.SeedList
          Dialers,               \* goroutines that may be in Connect at a time
          MaxConnOutBound, MaxConnInBound, MaxConnInBoundForSingleIP,
          MaxRetry,              \* MAX_RETRY_COUNT
          MaxConns,              \* bound on the connections ever made
          MaxSeeds               \* bound on the rounds of connectSeeds

VARIABLE net

None == 0
SyncAddr(ip) == <<ip, 0>>
ConsAddr(ip) == <<ip, MaxConns + 1>>
Ip(addr) == addr[1]

\* f without the keys in S, and f with f[k] = v.
Without(f, S) == Restrict(f, DOMAIN f \ S)
With(f, k, v) == [x \in DOMAIN f \cup {k} |-> IF x = k THEN v ELSE f[x]]
Get(f, k) == IF k \in DOMAIN f THEN f[k] ELSE None

(***************************************************************************)
(* Links and peers.                                                        *)
(***************************************************************************)
\* NewPeer with its link: sock is "open", "closed", or "gone" once lk.conn is
\* nil; rx while Rx runs; turn is what the other side sends next.
NewPeer(addr, cons, state, turn, c) ==
  [addr |-> addr, cons |-> cons, state |-> IF cons THEN "INIT" ELSE state,
   cstate |-> IF cons THEN state ELSE "INIT", clink |-> IF cons THEN c ELSE None,
   sock |-> "open", rx |-> TRUE, id |-> None, turn |-> turn]

Valid(s, l) == l # None /\ s.conn[l].sock # "gone"
SyncLink(s, p) == IF s.conn[p].cons THEN None ELSE p
CloseSocket(s, l) == IF l # None /\ s.conn[l].sock = "open"
                     THEN [s EXCEPT !.conn[l].sock = "closed"] ELSE s
CloseSync(s, p) == CloseSocket([s EXCEPT !.conn[p].state = "INACTIVITY"], SyncLink(s, p))
CloseCons(s, p) == CloseSocket([s EXCEPT !.conn[p].cstate = "INACTIVITY"], s.conn[p].clink)

Message(s, kind, l) ==
  [kind |-> kind, id |-> s.conn[l].id, addr |-> s.conn[l].addr, cons |-> s.conn[l].cons]
Channel(s, l) == IF s.conn[l].cons THEN "cons" ELSE "sync"
Enqueue(s, kind, l) == [s EXCEPT !.chan[Channel(s, l)] = Append(@, Message(s, kind, l))]

\* disconnectNotify: the connection is dropped, the router hears of it.
DisconnectNotify(s, l) == Enqueue([s EXCEPT !.conn[l].sock = "gone"], "disconnect", l)

\* Tx: a write to a closed socket drops it.
Tx(s, l, turn) ==
  IF s.conn[l].sock = "open" THEN [s EXCEPT !.conn[l].turn = turn]
  ELSE IF s.conn[l].sock = "closed" THEN DisconnectNotify(s, l) ELSE s

\* Send: over the consensus link if asked for and there, else the other one.
Send(s, p, cons, turn) ==
  IF cons /\ Valid(s, s.conn[p].clink) THEN Tx(s, s.conn[p].clink, turn)
  ELSE IF Valid(s, SyncLink(s, p))
  THEN Tx(s, p, IF cons THEN s.conn[p].turn ELSE turn) ELSE s

\* What a link yields next: ReadMessage in Rx.
ReadMessage(l) ==
  /\ net.conn[l].rx /\ net.conn[l].sock = "open" /\ net.conn[l].turn # "none"
  /\ \E kind \in (IF net.conn[l].turn = "any" THEN {"addr", "ping"} ELSE {net.conn[l].turn}) :
       net' = [Enqueue(net, kind, l) EXCEPT !.conn[l].turn = "none"]

\* Rx ends when the connection is closed from either side.
EndRx(l) ==
  /\ net.conn[l].rx /\ net.conn[l].sock # "open"
  /\ net' = [DisconnectNotify(net, l) EXCEPT !.conn[l].rx = FALSE]

RemoteCloses(l) ==
  /\ net.conn[l].sock = "open"
  /\ net' = CloseSocket(net, l)

(***************************************************************************)
(* The lists.                                                              *)
(***************************************************************************)
GetPeer(s, id) == Get(s.nbr, id)
GetPeerFromAddr(s, addr) ==
  IF addr \in DOMAIN s.syncAddr THEN s.syncAddr[addr] ELSE Get(s.consAddr, addr)
IsNbrPeerAddr(s, addr, cons) ==
  \E id \in DOMAIN s.nbr :
    LET p == s.conn[s.nbr[id]]
    IN  /\ p.state \in {"HAND", "HAND_SHAKE", "ESTABLISH"}
        /\ IF cons THEN p.clink # None /\ s.conn[p.clink].addr = addr ELSE p.addr = addr
AddNbrNode(s, id, p) == IF id \in DOMAIN s.nbr THEN s ELSE [s EXCEPT !.nbr = With(@, id, p)]
DelNbrNode(s, id) == [s EXCEPT !.nbr = Without(@, {id})]
RemoveRecords(s, addr) == [s EXCEPT !.inRec = @ \ {addr}, !.outRec = @ \ {addr}]
NodeEstablished(s, id) == id \in DOMAIN s.nbr /\ s.conn[s.nbr[id]].state = "ESTABLISH"

\* What an entry for a neighbour says of its address: its IP and its port.
NodeAddr(s, p) == SyncAddr(Ip(s.conn[p].addr))

(***************************************************************************)
(* Connect, by one of several goroutines: the checks, then the dial.       *)
(***************************************************************************)
OutBoundFull(s) == Cardinality(s.outRec) >= MaxConnOutBound

\* What Connect returns from before it dials.
Refused(s, a, cons) ==
  \/ a \in s.outRec \/ a = s.own
  \/ OutBoundFull(s) \/ IsNbrPeerAddr(s, a, cons)
  \/ /\ a \in s.connecting
     /\ LET p == GetPeerFromAddr(s, a) IN p # None /\ Valid(s, SyncLink(s, p))

\* An address in the connecting list leaves it, and is dialled all the same.
EnterConnect(s, t, a, cons) ==
  IF Refused(s, a, cons) THEN s
  ELSE [s EXCEPT !.dial[t] = [busy |-> TRUE, addr |-> a, cons |-> cons],
                 !.connecting = IF a \in @ THEN @ \ {a} ELSE @ \cup {a}]

Idle == [busy |-> FALSE, addr |-> <<0, 0>>, cons |-> FALSE]

\* A goroutine of connectSeeds, AddrHandle or VerAckHandle; Dialers[1] is the
\* one of retryInactivePeer, which dials one address after the other.
Connect(t) ==
  /\ ~net.dial[t].busy /\ Len(net.conn) < MaxConns
  /\ IF t = 1
     THEN \E a \in net.again :
            net' = EnterConnect([net EXCEPT !.again = @ \ {a}], t, a, FALSE)
     ELSE \E d \in net.todo :
            net' = EnterConnect([net EXCEPT !.todo = @ \ {d}], t, d[1], d[2])

DialFails(t) ==
  /\ net.dial[t].busy
  /\ net' = [net EXCEPT !.connecting = @ \ {net.dial[t].addr}, !.dial[t] = Idle]

\* Nobody answers version on a connection to oneself: the other end closes it.
Dialled(t) ==
  LET d == net.dial[t]
      c == Len(net.conn) + 1
      turn == IF Owner[Ip(d.addr)] = Self THEN "none" ELSE "version"
  IN  /\ d.busy /\ c <= MaxConns
      /\ net' = [net EXCEPT
           !.conn = Append(@, NewPeer(d.addr, d.cons, "HAND", turn, c)),
           !.dial[t] = Idle,
           !.outRec = IF d.cons THEN @ ELSE @ \cup {d.addr},
           !.syncAddr = IF d.cons THEN @ ELSE With(@, d.addr, c),
           !.consAddr = IF d.cons THEN With(@, d.addr, c) ELSE @]

\* The connection breaks before version is sent, so Connect takes the record
\* back; Rx will tell the router once more.
DialledInVain(t) ==
  LET d == net.dial[t]
      c == Len(net.conn) + 1
      s == [net EXCEPT
             !.conn = Append(@, [NewPeer(d.addr, d.cons, "HAND", "none", c) EXCEPT !.sock = "closed"]),
             !.dial[t] = Idle,
             !.syncAddr = IF d.cons THEN @ ELSE With(@, d.addr, c),
             !.consAddr = IF d.cons THEN With(@, d.addr, c) ELSE @]
  IN  /\ d.busy /\ c <= MaxConns
      /\ net' = DisconnectNotify(IF d.cons THEN s ELSE [s EXCEPT !.outRec = @ \ {d.addr}], c)

(***************************************************************************)
(* Accepting.                                                              *)
(***************************************************************************)
FromIp(s, ip) == {a \in s.inRec : Ip(a) = ip}

InBoundFull(s, ip) ==
  \/ Cardinality(s.inRec) >= MaxConnInBound
  \/ Cardinality(FromIp(s, ip)) >= MaxConnInBoundForSingleIP

\* Only a node that dialled itself connects to itself.
Comes(ip, cons) == Owner[ip] = Self =>
  ~cons /\ \E c \in DOMAIN net.conn : net.conn[c].addr = SyncAddr(ip) /\ net.conn[c].sock = "open"

\* One goroutine accepts, so the limits are checked and the address recorded
\* without anybody in between; the other side sends version first.
SyncAccept(ip) ==
  LET c == Len(net.conn) + 1
  IN  /\ c <= MaxConns /\ Comes(ip, FALSE) /\ ~InBoundFull(net, ip)
      /\ net' = [net EXCEPT !.conn = Append(@, NewPeer(<<ip, c>>, FALSE, "INIT", "version", c)),
                            !.inRec = @ \cup {<<ip, c>>},
                            !.syncAddr = With(@, <<ip, c>>, c)]

\* A consensus link is accepted only from an IP with an accepted link.
ConsAccept(ip) ==
  LET c == Len(net.conn) + 1
  IN  /\ c <= MaxConns /\ Comes(ip, TRUE) /\ FromIp(net, ip) # {}
      /\ net' = [net EXCEPT !.conn = Append(@, NewPeer(<<ip, c>>, TRUE, "INIT", "version", c)),
                            !.consAddr = With(@, <<ip, c>>, c)]

(***************************************************************************)
(* The handlers of the router.                                             *)
(***************************************************************************)
\* The handshake goes on from INIT (accepted) or HAND (dialled).
AnswerVersion(s, p, cons, was) ==
  LET now == IF was = "INIT" THEN "HAND_SHAKE" ELSE "HAND_SHAKED"
  IN  Send(IF cons THEN [s EXCEPT !.conn[p].cstate = now] ELSE [s EXCEPT !.conn[p].state = now],
           p, cons, "verack")

\* The consensus link joins the neighbour with that identity.
VersionOfCons(s, p, id) ==
  LET q == GetPeer(s, id)
      l == s.conn[p].clink
      merged == [s EXCEPT !.conn[q].clink = l, !.conn[q].cstate = s.conn[p].cstate,
                          !.conn[l].id = id]
  IN  IF q = None THEN CloseSync(CloseCons(s, p), p)
      ELSE IF s.conn[p].cstate \notin {"INIT", "HAND"} THEN CloseCons(merged, q)
      ELSE AnswerVersion(merged, q, TRUE, s.conn[p].cstate)

\* A neighbour with that identity and IP is replaced, one with another IP stays.
VersionOfSync(s, p, id, addr) ==
  LET q == GetPeer(s, id)
      freed == IF q = None THEN s ELSE CloseCons(CloseSync(DelNbrNode(s, id), q), q)
      known == AddNbrNode([freed EXCEPT !.conn[p].id = id], id, p)
  IN  IF id = Self
      THEN CloseSync([RemoveRecords(s, s.conn[p].addr) EXCEPT !.own = SyncAddr(Ip(addr))], p)
      ELSE IF s.conn[p].state \notin {"INIT", "HAND"} THEN CloseSync(s, p)
      ELSE IF q # None /\ Ip(s.conn[q].addr) # Ip(addr) THEN CloseSync(s, p)
      ELSE AnswerVersion(known, p, FALSE, s.conn[p].state)

\* The link is looked up by the address the message came from.
VersionHandle(s, m) ==
  LET p == GetPeerFromAddr(s, m.addr)
      id == Owner[Ip(m.addr)]
  IN  IF p = None THEN [s EXCEPT !.connecting = @ \ {m.addr}]
      ELSE IF m.cons THEN VersionOfCons(s, p, id)
      ELSE VersionOfSync(s, p, id, m.addr)

\* The link is looked up by identity.  The dialling side goes on with the
\* consensus link; the answer to getaddr comes later.
VerAckHandle(s, m) ==
  LET p == GetPeer(s, m.id)
      was == IF m.cons THEN s.conn[p].cstate ELSE s.conn[p].state
      up == IF m.cons THEN [s EXCEPT !.conn[p].cstate = "ESTABLISH", !.connecting = @ \ {m.addr}]
            ELSE [s EXCEPT !.conn[p].state = "ESTABLISH", !.connecting = @ \ {m.addr}]
      next == IF was = "HAND_SHAKE" THEN Send(up, p, m.cons, "none")
              ELSE IF m.cons THEN up
              ELSE [up EXCEPT !.todo = @ \cup {<<ConsAddr(Ip(s.conn[p].addr)), TRUE>>}]
  IN  IF p = None \/ was \notin {"HAND_SHAKE", "HAND_SHAKED"} THEN s
      ELSE IF m.cons THEN next ELSE Send(next, p, FALSE, "any")

\* The addresses of the other side's neighbours.
AddrHandle(s, m) ==
  [s EXCEPT !.todo = @ \cup
     {<<SyncAddr(ip), FALSE>> : ip \in {i \in Ips :
        /\ Owner[i] # Self /\ ~NodeEstablished(s, Owner[i])
        /\ GetPeerFromAddr(s, SyncAddr(i)) = None /\ SyncAddr(i) \notin s.connecting}}]

\* A ping is answered, if its sender is known.
PingHandle(s, m) == LET p == GetPeer(s, m.id)
                    IN  IF p = None THEN s ELSE Send(s, p, FALSE, s.conn[p].turn)

\* Faulty variant: a link without identity keeps its records.
DisconnectHandleKnown(s, m) ==
  IF GetPeer(s, m.id) = None THEN s ELSE RemoveRecords(s, m.addr)

\* The neighbour with the link's identity is closed if it has the link's
\* address, whether or not it is the same link.
DisconnectHandle(s, m) ==
  LET p == GetPeer(s, m.id)
      s1 == RemoveRecords(s, m.addr)
      s2 == [s1 EXCEPT !.connecting = @ \ {m.addr}]
      s3 == IF s.conn[p].addr # m.addr THEN s2
            ELSE CloseCons(CloseSync([s2 EXCEPT !.syncAddr = Without(@, {m.addr}),
                                                !.consAddr = Without(@, {m.addr})], p), p)
      l == s3.conn[p].clink
  IN  IF p = None THEN s1
      ELSE IF l # None /\ s3.conn[l].addr = m.addr
      THEN CloseCons([s3 EXCEPT !.consAddr = Without(@, {m.addr})], p)
      ELSE s3

\* rxMsg: one goroutine per channel.
RxMsg(ch) ==
  /\ net.chan[ch] # <<>>
  /\ LET m == Head(net.chan[ch])
         s == [net EXCEPT !.chan[ch] = Tail(@)]
     IN  net' = CASE m.kind = "version" -> VersionHandle(s, m)
                  [] m.kind = "verack" -> VerAckHandle(s, m)
                  [] m.kind = "addr" -> AddrHandle(s, m)
                  [] m.kind = "ping" -> PingHandle(s, m)
                  [] m.kind = "disconnect" -> DisconnectHandle(s, m)

(***************************************************************************)
(* The services.                                                           *)
(***************************************************************************)
\* connectSeeds: an established seed is asked for addresses, else all seeds
\* are dialled.
ConnectSeeds ==
  /\ net.rounds < MaxSeeds
  /\ LET up == {id \in DOMAIN net.nbr : /\ NodeEstablished(net, id)
                                        /\ Ip(net.conn[net.nbr[id]].addr) \in Seeds}
         s == [net EXCEPT !.rounds = @ + 1]
     IN  IF up = {} THEN net' = [s EXCEPT !.todo = @ \cup {<<SyncAddr(ip), FALSE>> : ip \in Seeds}]
         ELSE \E id \in up : net' = Send(s, s.nbr[id], FALSE, "any")

\* ping and timeout of the heartbeat, for one neighbour.
Ping(id) == /\ NodeEstablished(net, id) /\ net.conn[net.nbr[id]].sock = "closed"
            /\ net' = Send(net, net.nbr[id], FALSE, "none")
Timeout(id) == /\ NodeEstablished(net, id)
               /\ net' = CloseCons(CloseSync(net, net.nbr[id]), net.nbr[id])

\* An address given up is forgotten, with the neighbour found under it.
GiveUp(s, a) ==
  LET p == GetPeerFromAddr(s, a)
      s1 == [s EXCEPT !.connecting = @ \ {a}]
      s2 == [s1 EXCEPT !.syncAddr = IF s.conn[p].addr = a /\ ~s.conn[p].cons
                                    THEN Without(@, {a}) ELSE @,
                       !.consAddr = IF s.conn[p].addr = a THEN Without(@, {a}) ELSE @]
  IN  IF p = None THEN s1 ELSE DelNbrNode(s2, s.conn[p].id)

\* retryInactivePeer: inactive neighbours leave the list and are dialled again,
\* up to MaxRetry times.
RetryInactivePeer ==
  /\ ~net.dial[1].busy /\ net.again = {}
  /\ LET dead == {id \in DOMAIN net.nbr : net.conn[net.nbr[id]].state = "INACTIVITY"}
         live == {NodeAddr(net, net.nbr[id]) : id \in DOMAIN net.nbr \ dead}
         lost == {NodeAddr(net, net.nbr[id]) : id \in dead}
         shut == [net EXCEPT !.conn = [c \in DOMAIN @ |->
                    IF \E id \in dead : net.conn[net.nbr[id]].clink = c /\ @[c].sock = "open"
                    THEN [@[c] EXCEPT !.sock = "closed"]
                    ELSE IF \E id \in dead : net.nbr[id] = c
                    THEN [@[c] EXCEPT !.cstate = "INACTIVITY"] ELSE @[c]],
                  !.nbr = Without(@, dead)]
         tried == [a \in (DOMAIN net.retry \ live) \cup lost |->
                     IF a \in lost THEN 0 ELSE net.retry[a]]
         over == {a \in DOMAIN tried : tried[a] + 1 >= MaxRetry}
         rest == [a \in DOMAIN tried \ over |-> tried[a] + 1]
     IN  /\ dead # {} \/ DOMAIN net.retry # {}
         /\ net' = IF OutBoundFull(net) THEN [shut EXCEPT !.retry = tried]
                   ELSE [FoldFunction(LAMBDA a, s : GiveUp(s, a), shut, [a \in over |-> a])
                           EXCEPT !.retry = rest, !.again = DOMAIN tried]

LinksInit ==
  net = [conn |-> <<>>, nbr |-> <<>>, syncAddr |-> <<>>, consAddr |-> <<>>, connecting |-> {},
         inRec |-> {}, outRec |-> {}, own |-> <<0, 0>>, chan |-> [sync |-> <<>>, cons |-> <<>>],
         dial |-> [t \in Dialers |-> Idle], todo |-> {}, again |-> {}, retry |-> <<>>,
         rounds |-> 0]

LinksNext ==
  \/ \E t \in Dialers : Connect(t) \/ DialFails(t) \/ Dialled(t) \/ DialledInVain(t)
  \/ \E ip \in Ips : SyncAccept(ip) \/ ConsAccept(ip)
  \/ \E l \in DOMAIN net.conn : ReadMessage(l) \/ EndRx(l) \/ RemoteCloses(l)
  \/ RxMsg("sync") \/ RxMsg("cons")
  \/ ConnectSeeds \/ RetryInactivePeer
  \/ \E id \in DOMAIN net.nbr : Ping(id) \/ Timeout(id)

(***************************************************************************)
(* Properties.                                                             *)
(***************************************************************************)
LinksTypeOK ==
  /\ \A c \in DOMAIN net.conn : net.conn[c].sock \in {"open", "closed", "gone"}
  /\ \A id \in DOMAIN net.nbr : id # Self /\ ~net.conn[net.nbr[id]].cons /\ net.conn[net.nbr[id]].id = id
  /\ \A a \in DOMAIN net.syncAddr : net.conn[net.syncAddr[a]].addr = a
  /\ net.connecting \subseteq {SyncAddr(ip) : ip \in Ips} \cup {ConsAddr(ip) : ip \in Ips}

\* A link that has yet to report, or has reported, that it is broken.
Reports(a) == \/ \E c \in DOMAIN net.conn : net.conn[c].addr = a /\ net.conn[c].rx
              \/ \E i \in DOMAIN net.chan.sync :
                   net.chan.sync[i].kind = "disconnect" /\ net.chan.sync[i].addr = a

\* A place taken by a connection is given back: an address in the records of
\* Connect and startSyncAccept belongs to a link whose disconnect is still to
\* come or to be handled, so the limits never shut out peers for good.  The
\* limits on accepted connections hold; dialling goroutines may exceed theirs
\* by the number of those that passed the check together.
PlacesReturned ==
  /\ \A a \in net.inRec \cup net.outRec : Reports(a)
  /\ Cardinality(net.inRec) <= MaxConnInBound
  /\ \A ip \in Ips : Cardinality(FromIp(net, ip)) <= MaxConnInBoundForSingleIP
  /\ Cardinality(net.outRec) < MaxConnOutBound + Cardinality(Dialers)
=============================================================================
