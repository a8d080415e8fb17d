----------------------------- MODULE OverlayProofs -----------------------------
(***************************************************************************)
(* What TLAPS proves of the overlay, for every number of connections,      *)
(* mounts, events, alerts, faults and seeds: the type invariant, that the  *)
(* stream of every connection is whole, that only running handlers are     *)
(* registered and that a closed client stays closed.                       *)
(***************************************************************************)
EXTENDS Overlay, TLAPS

-----------------------------------------------------------------------------
(* Types.                                                                  *)

LEMMA SeqHasElements ==
  ASSUME NEW S, NEW s \in Seq(S), NEW n \in 1 .. Len(s)
  PROVE  s[n] \in S
OBVIOUS

LEMMA AppendToSeq ==
  ASSUME NEW S, NEW s \in Seq(S), NEW x \in S
  PROVE  /\ Append(s, x) \in Seq(S)
         /\ Len(Append(s, x)) = Len(s) + 1
         /\ Append(s, x) # <<>>
         /\ DOMAIN Append(s, x) = 1 .. Len(s) + 1
         /\ \A n \in 1 .. Len(s) : Append(s, x)[n] = s[n]
         /\ Append(s, x)[Len(s) + 1] = x
OBVIOUS

LEMMA TailOfSeq ==
  ASSUME NEW S, NEW s \in Seq(S), s # <<>>
  PROVE  /\ Tail(s) \in Seq(S)
         /\ Head(s) \in S
         /\ Head(s) = s[1]
         /\ Len(s) \in Nat \ {0}
         /\ Len(Tail(s)) = Len(s) - 1
         /\ \A n \in 1 .. Len(s) - 1 : Tail(s)[n] = s[n + 1]
OBVIOUS

(* An update of one field keeps a handler a handler.                       *)
LEMMA HandlerFields ==
  ASSUME NEW q \in Handler
  PROVE  /\ \A v \in {"none", "hello", "seed", "stream", "ended"} : [q EXCEPT !.pc = v] \in Handler
         /\ \A v \in Nat : [q EXCEPT !.since = v] \in Handler
         /\ \A v \in Nat : [q EXCEPT !.seq = v] \in Handler
         /\ \A v \in Seq(Nat) : [q EXCEPT !.queue = v] \in Handler
         /\ \A v \in {"none", "waiting", "dead"} : [q EXCEPT !.outbound = v] \in Handler
         /\ \A v \in Seq({0, 1}) : [q EXCEPT !.inbox = v] \in Handler
         /\ \A v \in SUBSET Conns : [q EXCEPT !.echo = v] \in Handler
         /\ \A v \in SUBSET Conns : [q EXCEPT !.stale = v] \in Handler
BY DEF Handler

LEMMA HandlerTypes ==
  ASSUME NEW q \in Handler
  PROVE  /\ q.pc \in {"none", "hello", "seed", "stream", "ended"}
         /\ q.since \in Nat
         /\ q.seq \in Nat
         /\ q.queue \in Seq(Nat)
         /\ q.outbound \in {"none", "waiting", "dead"}
         /\ q.inbox \in Seq({0, 1})
         /\ q.echo \subseteq Conns
         /\ q.stale \subseteq Conns
BY DEF Handler

LEMMA NoHandlerType == NoHandler \in Handler
BY DEF NoHandler, Handler

(* What is left of a handler that has ended.                               *)
LEMMA OverIsHandler ==
  ASSUME NEW q \in Handler
  PROVE  /\ Over(q) \in Handler
         /\ Over(q).pc = "ended"
         /\ Over(q).outbound = q.outbound
         /\ Over(q).inbox = <<>>
         /\ Over(q).echo = {}
<1>1. q.outbound \in {"none", "waiting", "dead"} /\ q.queue \in Seq(Nat)
  BY HandlerTypes
<1>2. PICK rest : rest = IF q.outbound = "waiting" THEN q.queue ELSE <<>>
  OBVIOUS
<1>3. rest \in Seq(Nat)
  BY <1>1, <1>2
<1>4. Over(q) = [pc |-> "ended", since |-> 0, seq |-> 0, queue |-> rest, outbound |-> q.outbound,
                 inbox |-> <<>>, echo |-> {}, stale |-> {}]
  <2>1. Over(q) = [NoHandler EXCEPT !.pc = "ended", !.outbound = q.outbound, !.queue = rest]
    BY <1>2 DEF Over
  <2>2. NoHandler = [pc |-> "none", since |-> 0, seq |-> 0, queue |-> <<>>, outbound |-> "none",
                     inbox |-> <<>>, echo |-> {}, stale |-> {}]
    BY DEF NoHandler
  <2>3. QED
    BY <2>1, <2>2
<1>5. QED
  BY <1>1, <1>3, <1>4 DEF Handler

LEMMA ClientType ==
  ASSUME NEW q \in OverlayClient
  PROVE  /\ \A v \in BOOLEAN : [q EXCEPT !.closedByUser = v] \in OverlayClient
         /\ \A v \in {"none", "set", "cleared"} : [q EXCEPT !.reconnectTimer = v] \in OverlayClient
         /\ \A v \in Conns : [q EXCEPT !.ws = v] \in OverlayClient
BY DEF OverlayClient

USE BoundsAssumption

LEMMA ConnectType ==
  ASSUME TypeOK, NEW k \in Clients, NEW q \in OverlayClient, Connect(k, q)
  PROVE  socket' \in [Conns -> Socket] /\ client' \in [Clients -> OverlayClient]
<1>1. PICK c \in Conns :
        /\ socket' = [socket EXCEPT ![c] = [state |-> "connecting", owner |-> k]]
        /\ client' = [client EXCEPT ![k] = [q EXCEPT !.closedByUser = FALSE, !.ws = c]]
  BY DEF Connect, Unused
<1>2. [q EXCEPT !.closedByUser = FALSE, !.ws = c] \in OverlayClient
  BY DEF OverlayClient
<1>3. QED
  BY <1>1, <1>2 DEF TypeOK, Socket

LEMMA ClosingType ==
  ASSUME TypeOK, NEW c \in Conns, Closing(c)
  PROVE  /\ socket' \in [Conns -> Socket]
         /\ server' \in [Conns -> Handler]
         /\ sent' \in [Conns -> Seq(Frame)]
<1>1. socket' \in [Conns -> Socket]
  <2>1. \A v \in {"unused", "connecting", "open", "closing", "closed"} : [socket[c] EXCEPT !.state = v] \in Socket
    BY DEF TypeOK, Socket
  <2>2. \A s : socket' = [socket EXCEPT ![c].state = s] => socket' = [socket EXCEPT ![c] = [socket[c] EXCEPT !.state = s]]
    OBVIOUS
  <2>3. (IF Gone(c) THEN socket[c].state ELSE "closing") \in {"unused", "connecting", "open", "closing", "closed"}
    BY DEF TypeOK, Socket
  <2>4. QED
    BY <2>1, <2>2, <2>3 DEF TypeOK, Closing
<1>2. server' \in [Conns -> Handler]
  <2>1. [server[c] EXCEPT !.inbox = Append(server[c].inbox, 0)] \in Handler
    BY HandlerFields, HandlerTypes, AppendToSeq DEF TypeOK
  <2>2. QED
    BY <2>1 DEF TypeOK, Closing
<1>3. sent' \in [Conns -> Seq(Frame)]
  BY DEF TypeOK, Closing, Lost
<1>4. QED
  BY <1>1, <1>2, <1>3

LEMMA EndType ==
  ASSUME TypeOK, NEW c \in Conns, End(c)
  PROVE  registry' \subseteq Conns /\ server' \in [Conns -> Handler]
BY OverIsHandler DEF TypeOK, End

LEMMA SendType ==
  ASSUME TypeOK, NEW c \in Conns, NEW event \in Nat, NEW q \in Handler, Send(c, event, q)
  PROVE  /\ registry' \subseteq Conns
         /\ server' \in [Conns -> Handler]
         /\ sent' \in [Conns -> Seq(Frame)]
<1>1. [seq |-> q.seq, event |-> event] \in Frame
  BY HandlerTypes DEF Frame
<1>2. Append(sent[c], [seq |-> q.seq, event |-> event]) \in Seq(Frame)
  BY <1>1, AppendToSeq DEF TypeOK
<1>3. QED
  BY <1>2, EndType DEF Send, TypeOK

-----------------------------------------------------------------------------
(* The inductive invariant.                                                *)

(* How the two ends of a connection and its handler fit together: a handler *)
(* that has ended has lost its connection, and nothing is on the way to a   *)
(* client without a running handler.                                        *)
Wire(c) ==
  /\ socket[c].state = "unused" => server[c].pc = "none"
  /\ socket[c].state = "open" => server[c].pc # "none"
  /\ server[c].pc = "none" => server[c] = NoHandler
  /\ ~Running(c) \/ Gone(c) => sent[c] = <<>>
  /\ server[c].pc = "ended" => Gone(c)
  /\ server[c].outbound = "waiting" => server[c].pc \in {"stream", "ended"}
  /\ \A n \in 1 .. Len(server[c].inbox) : server[c].inbox[n] = 0 => Gone(c)
  /\ \A d \in server[c].echo : server[d].pc # "none"
  /\ c \in registry => Running(c)
Wires == \A c \in Conns : Wire(c)

(* Who owns a connection: a client's newest one is the only one that may    *)
(* not be closed, a pending reconnect means that this one is, too, and      *)
(* after the unmount neither is left.                                       *)
ConnOwned(c) ==
  /\ socket[c].state = "unused" <=> socket[c].owner = 0
  /\ socket[c].owner # 0 => client[socket[c].owner].ws # 0
  /\ socket[c].owner # 0 /\ socket[c].state # "closed" => client[socket[c].owner].ws = c
ClientOwns(k) ==
  /\ k \in mounted => client[k].ws # 0 /\ ~client[k].closedByUser
  /\ client[k].ws = 0 => client[k].reconnectTimer = "none"
  /\ client[k].ws # 0 => socket[client[k].ws].owner = k
  /\ client[k].ws # 0 /\ k \notin mounted =>
       /\ client[k].closedByUser
       /\ client[k].reconnectTimer # "set"
       /\ Gone(client[k].ws)
  /\ client[k].reconnectTimer = "set" => socket[client[k].ws].state = "closed"
Ownership ==
  /\ \A c \in Conns : ConnOwned(c)
  /\ \A k \in Clients : ClientOwns(k)

(* What a running handler has sent and what it has still to send: the       *)
(* numbers up to seq are out, and the queue goes on where they end.         *)
Delivered(q) == IF q.seq <= 1 + Seeds THEN 0 ELSE q.seq - (1 + Seeds)
Phase(q) ==
  /\ q.pc = "hello" => q.seq = 0
  /\ q.pc = "seed" => q.seq \in 1 .. 1 + Seeds
  /\ q.pc = "stream" => q.seq >= 1 + Seeds
Backlog(q, events) ==
  /\ q.since + Delivered(q) + Len(q.queue) = events
  /\ \A n \in 1 .. Len(q.queue) : q.queue[n] = q.since + Delivered(q) + n
NumbersOut(frames, last) ==
  /\ \A n \in 1 .. last : \E i \in 1 .. Len(frames) : frames[i].seq = n
  /\ \A i \in 1 .. Len(frames) : frames[i].seq <= last
Stream(c) ==
  /\ NumberedWithoutGaps(sent[c])
  /\ EventsInOrder(sent[c], server[c].since)
  /\ Running(c) /\ ~Gone(c) =>
       Phase(server[c]) /\ Backlog(server[c], published) /\ NumbersOut(sent[c], server[c].seq)
Streams == \A c \in Conns : Stream(c)

Inv == TypeOK /\ Wires /\ Ownership /\ Streams

LEMMA MountedHasConnection ==
  ASSUME TypeOK, Ownership, NEW k \in mounted
  PROVE  k \in Clients /\ client[k] \in OverlayClient /\ client[k].ws \in Conns
BY DEF TypeOK, Ownership, ClientOwns, OverlayClient

LEMMA FrontTypes ==
  ASSUME TypeOK, Ownership, NEW k \in Clients, NEW c \in Conns,
         Mount(k) \/ Unmount(k) \/ Reconnect(k) \/ Show(c) \/ Drop(c) \/ Report(c)
  PROVE  TypeOK'
<1>1. client[k] \in OverlayClient /\ socket[c] \in Socket /\ server[c] \in Handler
  BY DEF TypeOK
<1>2. CASE Mount(k)
  BY <1>1, <1>2, ConnectType DEF Mount, TypeOK, backend
<1>3. CASE Unmount(k)
  <2>1. client[k].ws \in Conns
    BY <1>3, MountedHasConnection DEF Unmount
  <2>2. socket' \in [Conns -> Socket] /\ server' \in [Conns -> Handler] /\ sent' \in [Conns -> Seq(Frame)]
    BY <1>3, <2>1, ClosingType DEF Unmount
  <2>3. \A t \in {"none", "set", "cleared"} :
          [client[k] EXCEPT !.closedByUser = TRUE, !.reconnectTimer = t] \in OverlayClient
    BY <1>1 DEF OverlayClient
  <2>4. client' \in [Clients -> OverlayClient]
    BY <1>1, <1>3, <2>3 DEF Unmount, TypeOK, OverlayClient
  <2>5. QED
    BY <1>3, <2>2, <2>4 DEF Unmount, TypeOK
<1>4. CASE Reconnect(k)
  <2>1. [client[k] EXCEPT !.reconnectTimer = "none"] \in OverlayClient
    BY <1>1, ClientType
  <2>2. QED
    BY <1>4, <2>1, ConnectType DEF Reconnect, TypeOK, backend
<1>5. CASE OnOpen(c)
  <2>1. [socket[c] EXCEPT !.state = "open"] \in Socket
    BY <1>1 DEF Socket
  <2>2. QED
    BY <1>5, <2>1 DEF OnOpen, TypeOK, backend
<1>6. CASE OnClose(c)
  <2>1. [socket[c] EXCEPT !.state = "closed"] \in Socket
    BY <1>1 DEF Socket
  <2>2. \A j \in Clients : \A t \in {"none", "set", "cleared"} :
          [client EXCEPT ![j].reconnectTimer = t] \in [Clients -> OverlayClient]
    BY ClientType DEF TypeOK
  <2>3. \A j \in Clients : client[j].reconnectTimer \in {"none", "set", "cleared"}
    BY DEF TypeOK, OverlayClient
  <2>4. socket[c].owner \in Clients \cup {0}
    BY <1>1 DEF Socket
  <2>5. socket[c].owner # 0
    BY <1>6 DEF Ownership, ConnOwned, OnClose
  <2>6. client' \in [Clients -> OverlayClient]
    BY <1>6, <2>2, <2>3, <2>4, <2>5 DEF OnClose, TypeOK
  <2>7. QED
    BY <1>6, <2>1, <2>6 DEF OnClose, TypeOK, backend
<1>7. CASE Drop(c)
  BY <1>7, ClosingType DEF Drop, TypeOK, frontend
<1>8. CASE Report(c)
  <2>1. [server[c] EXCEPT !.inbox = Append(server[c].inbox, 1)] \in Handler
    BY <1>1, HandlerFields, HandlerTypes, AppendToSeq
  <2>2. QED
    BY <1>8, <2>1 DEF Report, TypeOK, frontend
<1>9. QED
  BY <1>2, <1>3, <1>4, <1>5, <1>6, <1>7, <1>8 DEF Show

LEMMA PublishTypes ==
  ASSUME TypeOK, Publish
  PROVE  TypeOK'
<1>1. \A d \in Conns : [server[d] EXCEPT !.queue = Append(server[d].queue, published + 1)] \in Handler
  <2>1. ASSUME NEW d \in Conns
        PROVE  [server[d] EXCEPT !.queue = Append(server[d].queue, published + 1)] \in Handler
    <3>1. server[d] \in Handler /\ published + 1 \in Nat
      BY DEF TypeOK
    <3>2. Append(server[d].queue, published + 1) \in Seq(Nat)
      BY <3>1, HandlerTypes, AppendToSeq
    <3>3. QED
      BY <3>1, <3>2, HandlerFields
  <2>2. QED
    BY <2>1
<1>2. QED
  BY <1>1 DEF Publish, TypeOK, Serving, frontend

LEMMA BackTypes ==
  ASSUME TypeOK, NEW c \in Conns, Serve(c) \/ HelloFails(c)
  PROVE  TypeOK'
<1>1. server[c] \in Handler /\ socket[c] \in Socket /\ sent[c] \in Seq(Frame)
  BY DEF TypeOK
<1>3. CASE Join(c)
  <2>1. [server[c] EXCEPT !.pc = "hello", !.since = published] \in Handler
    BY <1>1 DEF Handler, TypeOK
  <2>2. QED
    BY <1>3, <2>1 DEF Join, TypeOK, Serving, frontend
<1>4. CASE Hello(c)
  <2>1. [server[c] EXCEPT !.seq = 1, !.pc = "seed"] \in Handler
    BY <1>1 DEF Handler
  <2>2. QED
    BY <1>4, <2>1, SendType DEF Hello, TypeOK, Serving, frontend
<1>5. CASE Seed(c)
  <2>1. [server[c] EXCEPT !.seq = server[c].seq + 1] \in Handler
    <3>1. server[c].seq + 1 \in Nat
      BY <1>1, HandlerTypes
    <3>2. QED
      BY <1>1, <3>1, HandlerFields
  <2>2. [server[c] EXCEPT !.pc = "stream", !.outbound = "waiting"] \in Handler
    BY <1>1 DEF Handler
  <2>3. CASE server[c].seq = Seeds + 1
    BY <1>5, <2>2, <2>3 DEF Seed, TypeOK, Serving, frontend
  <2>4. CASE server[c].seq # Seeds + 1
    BY <1>5, <2>1, <2>4, SendType DEF Seed, TypeOK, Serving, frontend
  <2>5. QED
    BY <2>3, <2>4
<1>6. CASE Outbound(c)
  <2>1. server[c].queue \in Seq(Nat) /\ server[c].queue # <<>> /\ server[c].seq \in Nat
    BY <1>1, <1>6, HandlerTypes DEF Outbound
  <2>2. Tail(server[c].queue) \in Seq(Nat) /\ Head(server[c].queue) \in Nat
    BY <2>1, TailOfSeq
  <2>3. [server[c] EXCEPT !.queue = Tail(server[c].queue), !.seq = server[c].seq + 1] \in Handler
    <3>1. \A t \in Seq(Nat), n \in Nat : [server[c] EXCEPT !.queue = t, !.seq = n] \in Handler
      BY <1>1 DEF Handler
    <3>2. server[c].seq + 1 \in Nat
      BY <2>1
    <3>3. QED
      BY <2>2, <3>1, <3>2
  <2>4. [server[c] EXCEPT !.outbound = "dead"] \in Handler
    BY <1>1, HandlerFields
  <2>5. CASE server[c].pc = "stream" /\ ~Gone(c)
    BY <1>6, <2>2, <2>3, <2>5, SendType DEF Outbound, TypeOK, Serving, frontend
  <2>6. CASE ~(server[c].pc = "stream" /\ ~Gone(c))
    BY <1>6, <2>4, <2>6, OverIsHandler DEF Outbound, TypeOK, Serving, frontend
  <2>7. QED
    BY <2>5, <2>6
<1>7. CASE Inbound(c)
  <2>1. server[c].inbox \in Seq({0, 1}) /\ server[c].inbox # <<>>
    BY <1>1, <1>7, HandlerTypes DEF Inbound
  <2>2. Tail(server[c].inbox) \in Seq({0, 1})
    BY <2>1, TailOfSeq
  <2>3. [server[c] EXCEPT !.inbox = Tail(server[c].inbox), !.echo = registry] \in Handler
    BY <1>1, <2>2 DEF Handler, TypeOK
  <2>4. QED
    BY <1>7, <2>3, EndType DEF Inbound, TypeOK, Serving, frontend
<1>8. ASSUME NEW d \in Conns, Echo(c, d) PROVE TypeOK'
  <2>1. server[c].echo \subseteq Conns /\ server[c].stale \subseteq Conns
    BY <1>1, HandlerTypes
  <2>2. \A e, s \in SUBSET Conns : [server[c] EXCEPT !.echo = e, !.stale = s] \in Handler
    BY <1>1 DEF Handler
  <2>3. server' \in [Conns -> Handler] /\ registry' \subseteq Conns
    BY <1>8, <2>1, <2>2 DEF Echo, TypeOK
  <2>4. [seq |-> 0, event |-> 0] \in Frame
    BY DEF Frame
  <2>5. Append(sent[d], [seq |-> 0, event |-> 0]) \in Seq(Frame)
    BY <2>4, AppendToSeq DEF TypeOK
  <2>6. sent' \in [Conns -> Seq(Frame)]
    BY <1>8, <2>5 DEF Echo, TypeOK
  <2>7. QED
    BY <1>8, <2>3, <2>6 DEF Echo, TypeOK, Serving, frontend
<1>9. CASE HelloFails(c)
  <2>1. [socket[c] EXCEPT !.state = "closing"] \in Socket
    BY <1>1 DEF Socket
  <2>2. server' \in [Conns -> Handler]
    BY <1>1, <1>9, OverIsHandler DEF HelloFails, TypeOK
  <2>3. sent' \in [Conns -> Seq(Frame)]
    BY <1>9 DEF HelloFails, Lost, TypeOK
  <2>4. QED
    BY <1>9, <2>1, <2>2, <2>3 DEF HelloFails, TypeOK, frontend
<1>10. QED
  BY <1>3, <1>4, <1>5, <1>6, <1>7, <1>8, <1>9 DEF Serve

-----------------------------------------------------------------------------
(* Ownership.                                                              *)

LEMMA ConnectKeepsOwnership ==
  ASSUME TypeOK, Ownership, NEW k \in Clients, NEW q \in OverlayClient, Connect(k, q),
         q.reconnectTimer = "none",
         mounted' = mounted \cup {k},
         client[k].ws # 0 => socket[client[k].ws].state = "closed"
  PROVE  Ownership'
<1>1. PICK c \in Conns :
        /\ socket[c].state = "unused"
        /\ socket' = [socket EXCEPT ![c] = [state |-> "connecting", owner |-> k]]
        /\ client' = [client EXCEPT ![k] = [q EXCEPT !.closedByUser = FALSE, !.ws = c]]
  BY DEF Connect, Unused
<1>2. /\ client'[k].ws = c
      /\ client'[k].reconnectTimer = "none"
      /\ ~client'[k].closedByUser
      /\ \A j \in Clients \ {k} : client'[j] = client[j]
  BY <1>1 DEF TypeOK, OverlayClient
<1>3. /\ socket'[c].state = "connecting" /\ socket'[c].owner = k
      /\ \A d \in Conns \ {c} : socket'[d] = socket[d]
  BY <1>1 DEF TypeOK
<1>4. 0 \notin Conns /\ 0 \notin Clients
  BY DEF Conns, Clients
<1>5. \A d \in Conns : socket[d].owner \in Clients \cup {0}
  BY DEF TypeOK, Socket
<1>6. \A j \in Clients : client[j].ws \in Conns \cup {0}
  BY DEF TypeOK, OverlayClient
<1>7. ASSUME NEW d \in Conns PROVE ConnOwned(d)'
  <2>1. CASE d = c
    BY <1>2, <1>3, <1>4, <2>1 DEF ConnOwned
  <2>2. CASE d # c /\ socket[d].owner # k
    BY <1>2, <1>3, <1>5, <2>2 DEF ConnOwned, Ownership
  <2>3. CASE d # c /\ socket[d].owner = k
    BY <1>2, <1>3, <1>4, <1>5, <2>3 DEF ConnOwned, Ownership
  <2>4. QED
    BY <2>1, <2>2, <2>3
<1>8. ASSUME NEW j \in Clients PROVE ClientOwns(j)'
  <2>1. CASE j = k
    BY <1>2, <1>3, <1>4, <2>1 DEF ClientOwns, Ownership
  <2>2. CASE j # k
    <3>1. client[j].ws # c
      BY <1>1, <1>4, <2>2 DEF ClientOwns, ConnOwned, Ownership
    <3>2. client[j].ws # 0 => socket'[client[j].ws] = socket[client[j].ws]
      BY <1>3, <1>6, <3>1
    <3>3. QED
      BY <1>2, <2>2, <3>2 DEF ClientOwns, Ownership, Gone
  <2>3. QED
    BY <2>1, <2>2
<1>9. QED
  BY <1>7, <1>8 DEF Ownership

(* A connection that comes nearer to its end keeps its owner.              *)
LEMMA EndingKeepsOwnership ==
  ASSUME TypeOK, Ownership, NEW c \in Conns, NEW s \in {"open", "closing"},
         socket[c].state \notin {"unused", "closed"}, 
         Gone(c) => s = "closing",
         socket' = [socket EXCEPT ![c].state = s],
         client' = client, mounted' = mounted
  PROVE  Ownership'
<1>1. /\ \A d \in Conns : socket'[d].owner = socket[d].owner
      /\ \A d \in Conns \ {c} : socket'[d] = socket[d]
      /\ socket'[c].state = s
  BY DEF TypeOK, Socket
<1>2. \A j \in Clients : client[j].ws \in Conns \cup {0}
  BY DEF TypeOK, OverlayClient
<1>3. ASSUME NEW d \in Conns PROVE ConnOwned(d)'
  BY <1>1 DEF ConnOwned, Ownership
<1>4. ASSUME NEW j \in Clients PROVE ClientOwns(j)'
  BY <1>1, <1>2 DEF ClientOwns, Ownership, Gone
<1>5. QED
  BY <1>3, <1>4 DEF Ownership

LEMMA OwnershipIsKept ==
  ASSUME TypeOK, Ownership, Wires, [Next]_vars
  PROVE  Ownership'
<1>1. CASE UNCHANGED <<socket, client, mounted>>
  BY <1>1 DEF Ownership, ConnOwned, ClientOwns, Gone
<1>2. ASSUME NEW k \in Clients, Mount(k) PROVE Ownership'
  <2>1. client[k].ws = 0 /\ Connect(k, client[k]) /\ mounted' = mounted \cup {k} /\ client[k] \in OverlayClient
    BY <1>2 DEF Mount, TypeOK
  <2>2. client[k].reconnectTimer = "none"
    BY <2>1 DEF Ownership, ClientOwns
  <2>3. QED
    BY <2>1, <2>2, ConnectKeepsOwnership
<1>3. ASSUME NEW k \in Clients, Reconnect(k) PROVE Ownership'
  <2>1. /\ client[k].reconnectTimer = "set" /\ client[k] \in OverlayClient
        /\ Connect(k, [client[k] EXCEPT !.reconnectTimer = "none"]) /\ mounted' = mounted
    BY <1>3 DEF Reconnect, TypeOK
  <2>2. [client[k] EXCEPT !.reconnectTimer = "none"] \in OverlayClient
    BY <2>1, ClientType
  <2>3. [client[k] EXCEPT !.reconnectTimer = "none"].reconnectTimer = "none"
    BY <2>1 DEF OverlayClient
  <2>4. client[k].ws # 0 /\ socket[client[k].ws].state = "closed"
    BY <2>1 DEF Ownership, ClientOwns
  <2>5. k \in mounted
    BY <2>1, <2>4 DEF Ownership, ClientOwns
  <2>6. QED
    BY <2>1, <2>2, <2>3, <2>4, <2>5, ConnectKeepsOwnership
<1>4. ASSUME NEW k \in Clients, Unmount(k) PROVE Ownership'
  <2> DEFINE w == client[k].ws
  <2>1. k \in mounted /\ w \in Conns /\ w # 0 /\ client[k] \in OverlayClient
    BY <1>4, MountedHasConnection DEF Unmount, Conns
  <2>2. socket[w].owner = k /\ socket[w].state # "unused"
    BY <2>1 DEF Ownership, ClientOwns, ConnOwned, Clients
  <2>3. /\ \A d \in Conns : socket'[d].owner = socket[d].owner
        /\ \A d \in Conns \ {w} : socket'[d] = socket[d]
        /\ Gone(w)'
        /\ socket[w].state = "closed" => socket'[w].state = "closed"
        /\ socket'[w].state \in {"closing", "closed"}
    BY <1>4, <2>1 DEF Unmount, Closing, TypeOK, Socket, Gone
  <2>4. /\ client'[k].ws = w /\ client'[k].closedByUser
        /\ client'[k].reconnectTimer # "set"
        /\ \A j \in Clients \ {k} : client'[j] = client[j]
    BY <1>4, <2>1 DEF Unmount, TypeOK, OverlayClient
  <2>5. mounted' = mounted \ {k}
    BY <1>4 DEF Unmount
  <2>6. \A j \in Clients : client[j].ws \in Conns \cup {0}
    BY DEF TypeOK, OverlayClient
  <2>7. ASSUME NEW d \in Conns PROVE ConnOwned(d)'
    <3>1. socket[d].owner \in Clients \cup {0}
      BY DEF TypeOK, Socket
    <3>2. socket[d].owner # 0 => client'[socket[d].owner].ws = client[socket[d].owner].ws
      BY <2>4, <3>1
    <3>3. socket'[d].state = "closed" \/ socket[d].state # "closed"
      BY <2>3
    <3>4. socket'[d].state = "unused" <=> socket[d].state = "unused"
      BY <2>2, <2>3
    <3>5. QED
      BY <2>3, <3>2, <3>3, <3>4 DEF Ownership, ConnOwned
  <2>8. ASSUME NEW j \in Clients PROVE ClientOwns(j)'
    <3>1. CASE j = k
      BY <2>1, <2>2, <2>3, <2>4, <2>5, <3>1 DEF ClientOwns
    <3>2. CASE j # k
      <4>1. client[j].ws # w
        BY <2>1, <2>2, <3>2 DEF Ownership, ClientOwns
      <4>2. client[j].ws # 0 => socket'[client[j].ws] = socket[client[j].ws]
        BY <2>3, <2>6, <4>1
      <4>3. QED
        BY <2>4, <2>5, <3>2, <4>2 DEF Ownership, ClientOwns, Gone
    <3>3. QED
      BY <3>1, <3>2
  <2>9. QED
    BY <2>7, <2>8 DEF Ownership
<1>5. ASSUME NEW c \in Conns, OnOpen(c) PROVE Ownership'
  BY <1>5, EndingKeepsOwnership DEF OnOpen, Gone
<1>6. ASSUME NEW c \in Conns, Drop(c) PROVE Ownership'
  BY <1>6, EndingKeepsOwnership DEF Drop, Closing, Gone, frontend
<1>7. ASSUME NEW c \in Conns, HelloFails(c) PROVE Ownership'
  <2>1. socket[c].state # "unused"
    BY <1>7 DEF HelloFails, Wires, Wire
  <2>2. QED
    BY <1>7, <2>1, EndingKeepsOwnership DEF HelloFails, Gone, frontend
<1>8. ASSUME NEW c \in Conns, OnClose(c) PROVE Ownership'
  <2> DEFINE k == socket[c].owner
  <2>1. socket[c].state = "closing" /\ mounted' = mounted
    BY <1>8 DEF OnClose
  <2>2. k \in Clients /\ k # 0 /\ client[k].ws = c /\ client[k] \in OverlayClient
    BY <2>1 DEF Ownership, ConnOwned, TypeOK, Socket
  <2>3. /\ \A d \in Conns : socket'[d].owner = socket[d].owner
        /\ \A d \in Conns \ {c} : socket'[d] = socket[d]
        /\ socket'[c].state = "closed"
    BY <1>8 DEF OnClose, TypeOK, Socket
  <2>4. /\ \A j \in Clients \ {k} : client'[j] = client[j]
        /\ client'[k].ws = c
        /\ client'[k].closedByUser = client[k].closedByUser
        /\ client[k].closedByUser => client'[k].reconnectTimer = client[k].reconnectTimer
    BY <1>8, <2>2 DEF OnClose, TypeOK, OverlayClient
  <2>5. \A j \in Clients : client[j].ws \in Conns \cup {0}
    BY DEF TypeOK, OverlayClient
  <2>6. ASSUME NEW d \in Conns PROVE ConnOwned(d)'
    <3>1. socket[d].owner \in Clients \cup {0}
      BY DEF TypeOK, Socket
    <3>2. socket[d].owner # 0 => client'[socket[d].owner].ws = client[socket[d].owner].ws
      BY <2>2, <2>4, <3>1
    <3>3. QED
      BY <2>1, <2>3, <3>2 DEF Ownership, ConnOwned
  <2>7. ASSUME NEW j \in Clients PROVE ClientOwns(j)'
    <3>1. CASE j = k
      BY <2>1, <2>2, <2>3, <2>4, <3>1 DEF Ownership, ClientOwns, Gone, Conns
    <3>2. CASE j # k
      <4>1. client[j].ws # c
        BY <2>2, <3>2 DEF Ownership, ClientOwns, Conns
      <4>2. client[j].ws # 0 => socket'[client[j].ws] = socket[client[j].ws]
        BY <2>3, <2>5, <4>1
      <4>3. QED
        BY <2>1, <2>4, <3>2, <4>2 DEF Ownership, ClientOwns, Gone
    <3>3. QED
      BY <3>1, <3>2
  <2>8. QED
    BY <2>6, <2>7 DEF Ownership
<1>9. ASSUME NEW c \in Conns, Report(c) \/ Serve(c) PROVE UNCHANGED <<socket, client, mounted>>
  BY <1>9 DEF Report, Serve, Join, Hello, Seed, Outbound, Inbound, Echo, Serving, frontend
<1>10. QED
  BY <1>1, <1>2, <1>3, <1>4, <1>5, <1>6, <1>7, <1>8, <1>9 DEF Next, vars, Show, Publish, Serving, frontend

-----------------------------------------------------------------------------
(* The stream of one connection.                                           *)

LEMMA FrameTypes ==
  ASSUME NEW s \in Seq(Frame)
  PROVE  /\ Len(s) \in Nat
         /\ DOMAIN s = 1 .. Len(s)
         /\ \A i \in 1 .. Len(s) : s[i].seq \in Nat /\ s[i].event \in Nat
<1>1. \A i \in 1 .. Len(s) : s[i] \in Frame
  BY SeqHasElements
<1>2. \A f \in Frame : f.seq \in Nat /\ f.event \in Nat
  BY DEF Frame
<1>3. QED
  BY <1>1, <1>2

(* A frame with the next number.                                           *)
LEMMA NumberedFrame ==
  ASSUME NEW s \in Seq(Frame), NEW f \in Frame, NEW last \in Nat, f.seq = last + 1,
         NumberedWithoutGaps(s), NumbersOut(s, last)
  PROVE  NumberedWithoutGaps(Append(s, f)) /\ NumbersOut(Append(s, f), last + 1)
<1> DEFINE n == Len(s)
           t == Append(s, f)
<1>1. n \in Nat /\ DOMAIN s = 1 .. n /\ \A i \in 1 .. n : s[i].seq \in Nat
  BY FrameTypes
<1>2. /\ Len(t) = n + 1
      /\ DOMAIN t = 1 .. n + 1
      /\ \A i \in 1 .. n : t[i] = s[i]
      /\ t[n + 1].seq = last + 1
  BY AppendToSeq
<1>3. /\ \A m \in 1 .. last : \E i \in 1 .. n : s[i].seq = m
      /\ \A i \in 1 .. n : s[i].seq <= last
  BY DEF NumbersOut
<1> HIDE DEF n, t
<1>4. ASSUME NEW m \in 1 .. last + 1 PROVE \E i \in 1 .. n + 1 : t[i].seq = m
  <2>1. CASE m = last + 1
    BY <1>1, <1>2, <2>1
  <2>2. CASE m # last + 1
    <3>1. m \in 1 .. last
      BY <2>2
    <3>2. PICK i \in 1 .. n : s[i].seq = m
      BY <1>3, <3>1
    <3>3. i \in 1 .. n + 1 /\ t[i].seq = m
      BY <1>1, <1>2, <3>2
    <3>4. QED
      BY <3>3
  <2>3. QED
    BY <2>1, <2>2
<1>5. ASSUME NEW i \in 1 .. n + 1
      PROVE  i = n + 1 \/ i \in 1 .. n
  BY <1>1
<1>6. \A i \in 1 .. n + 1 : t[i].seq \in Nat /\ t[i].seq <= last + 1
  <2>1. ASSUME NEW i \in 1 .. n PROVE t[i].seq \in Nat /\ t[i].seq <= last + 1
    BY <1>1, <1>2, <1>3
  <2>2. QED
    BY <1>2, <1>5, <2>1
<1>7. ASSUME NEW i \in 1 .. n + 1, t[i].seq # 0
      PROVE  /\ \A m \in 1 .. t[i].seq - 1 : \E j \in 1 .. i - 1 : t[j].seq = m
             /\ \A j \in 1 .. i - 1 : t[j].seq < t[i].seq
  <2>1. CASE i = n + 1
    <3>1. i - 1 = n /\ t[i].seq = last + 1 /\ t[i].seq - 1 = last
      <4>1. t[i].seq = last + 1
        BY <1>2, <2>1
      <4>2. i - 1 = n
        BY <1>1, <2>1
      <4>3. QED
        BY <4>1, <4>2
    <3>2. \A m \in 1 .. last : \E j \in 1 .. n : t[j].seq = m
      BY <1>2, <1>3
    <3>3. \A j \in 1 .. n : t[j].seq < last + 1
      BY <1>1, <1>2, <1>3
    <3>4. QED
      BY <3>1, <3>2, <3>3
  <2>2. CASE i \in 1 .. n
    <3>1. t[i] = s[i]
      BY <1>2, <2>2
    <3>2. \A j \in 1 .. i - 1 : t[j] = s[j]
      <4>1. \A j \in 1 .. i - 1 : j \in 1 .. n
        BY <1>1, <2>2
      <4>2. QED
        BY <1>2, <4>1
    <3>3. /\ \A m \in 1 .. s[i].seq - 1 : \E j \in 1 .. i - 1 : s[j].seq = m
          /\ \A j \in 1 .. i - 1 : s[j].seq < s[i].seq
      BY <1>1, <1>7, <2>2, <3>1 DEF NumberedWithoutGaps
    <3>4. QED
      BY <3>1, <3>2, <3>3
  <2>3. QED
    BY <1>5, <2>1, <2>2
<1>8. NumberedWithoutGaps(t)
  BY <1>2, <1>7 DEF NumberedWithoutGaps
<1>9. NumbersOut(t, last + 1)
  BY <1>2, <1>4, <1>6 DEF NumbersOut
<1>10. QED
  BY <1>8, <1>9 DEF t

(* An echo, which has no number.                                           *)
LEMMA EchoFrame ==
  ASSUME NEW s \in Seq(Frame), NEW f \in Frame, f.seq = 0, NumberedWithoutGaps(s)
  PROVE  /\ NumberedWithoutGaps(Append(s, f))
         /\ \A last \in Nat : NumbersOut(s, last) => NumbersOut(Append(s, f), last)
<1> DEFINE n == Len(s)
           t == Append(s, f)
<1>1. n \in Nat /\ DOMAIN s = 1 .. n /\ \A i \in 1 .. n : s[i].seq \in Nat
  BY FrameTypes
<1>2. /\ Len(t) = n + 1
      /\ DOMAIN t = 1 .. n + 1
      /\ \A i \in 1 .. n : t[i] = s[i]
      /\ t[n + 1].seq = 0
  BY AppendToSeq
<1>3. ASSUME NEW last \in Nat, NumbersOut(s, last) PROVE NumbersOut(t, last)
  <2>1. /\ \A m \in 1 .. last : \E i \in 1 .. n : s[i].seq = m
        /\ \A i \in 1 .. n : s[i].seq <= last
    BY <1>3 DEF NumbersOut
  <2> HIDE DEF n, t
  <2>2. ASSUME NEW m \in 1 .. last PROVE \E i \in 1 .. n + 1 : t[i].seq = m
    <3>1. PICK i \in 1 .. n : s[i].seq = m
      BY <2>1
    <3>2. i \in 1 .. n + 1 /\ t[i].seq = m
      BY <1>1, <1>2, <3>1
    <3>3. QED
      BY <3>2
  <2>3. ASSUME NEW i \in 1 .. n + 1 PROVE t[i].seq <= last
    <3>1. CASE i = n + 1
      BY <1>2, <3>1
    <3>2. CASE i # n + 1
      <4>1. i \in 1 .. n
        BY <1>1, <3>2
      <4>2. QED
        BY <1>2, <2>1, <4>1
    <3>3. QED
      BY <3>1, <3>2
  <2>4. QED
    BY <1>2, <2>2, <2>3 DEF NumbersOut
<1> HIDE DEF n, t
<1>4. ASSUME NEW i \in 1 .. n + 1, t[i].seq # 0
      PROVE  /\ \A m \in 1 .. t[i].seq - 1 : \E j \in 1 .. i - 1 : t[j].seq = m
             /\ \A j \in 1 .. i - 1 : t[j].seq < t[i].seq
  <2>1. i # n + 1
    BY <1>2, <1>4
  <2>2. i \in 1 .. n
    BY <1>1, <2>1
  <2>3. t[i] = s[i]
    BY <1>2, <2>2
  <2>4. \A j \in 1 .. i - 1 : t[j] = s[j]
    BY <1>1, <1>2, <2>2
  <2>5. /\ \A m \in 1 .. s[i].seq - 1 : \E j \in 1 .. i - 1 : s[j].seq = m
        /\ \A j \in 1 .. i - 1 : s[j].seq < s[i].seq
    BY <1>1, <1>4, <2>2, <2>3 DEF NumberedWithoutGaps
  <2>6. \A m \in 1 .. t[i].seq - 1 : \E j \in 1 .. i - 1 : t[j].seq = m
    BY <2>3, <2>4, <2>5
  <2>7. \A j \in 1 .. i - 1 : t[j].seq < t[i].seq
    BY <2>3, <2>4, <2>5
  <2>8. QED
    BY <2>6, <2>7
<1>5. NumberedWithoutGaps(t)
  BY <1>2, <1>4 DEF NumberedWithoutGaps
<1>6. QED
  BY <1>3, <1>5 DEF t

(* A frame that carries what its number says.                              *)
LEMMA FrameInOrder ==
  ASSUME NEW s \in Seq(Frame), NEW f \in Frame, NEW since \in Nat, EventsInOrder(s, since),
         f.event = EventOf(f.seq, since)
  PROVE  EventsInOrder(Append(s, f), since)
<1> DEFINE n == Len(s)
           t == Append(s, f)
<1>1. n \in Nat /\ DOMAIN s = 1 .. n
  BY FrameTypes
<1>2. /\ DOMAIN t = 1 .. n + 1
      /\ \A i \in 1 .. n : t[i] = s[i]
      /\ t[n + 1] = f
  BY AppendToSeq
<1> HIDE DEF n, t
<1>3. ASSUME NEW i \in 1 .. n + 1 PROVE t[i].event = EventOf(t[i].seq, since)
  <2>1. CASE i = n + 1
    BY <1>2, <2>1
  <2>2. CASE i # n + 1
    <3>1. i \in 1 .. n
      BY <1>1, <2>2
    <3>2. QED
      BY <1>1, <1>2, <3>1 DEF EventsInOrder
  <2>3. QED
    BY <2>1, <2>2
<1>4. QED
  BY <1>2, <1>3 DEF EventsInOrder, t

-----------------------------------------------------------------------------
(* Wires and streams: what each action does to a connection.               *)

(* A connection that nothing happens to.                                   *)
LEMMA Untouched ==
  ASSUME NEW c \in Conns, Wire(c), Stream(c), published' = published,
         sent'[c] = sent[c], server'[c] = server[c], socket'[c] = socket[c],
         c \in registry' => c \in registry,
         \A d \in server[c].echo : server[d].pc # "none" => server'[d].pc # "none"
  PROVE  Wire(c)' /\ Stream(c)'
<1>1. Wire(c)'
  BY DEF Wire, Running, Gone
<1>2. Stream(c)'
  BY DEF Stream, Running, Gone, Phase, Backlog, Delivered
<1>3. QED
  BY <1>1, <1>2

(* A connection that is over on the client's side, with a handler that     *)
(* still runs and may find a disconnect to read.                           *)
LEMMA WireCut ==
  ASSUME TypeOK, NEW c \in Conns, Wire(c), sent'[c] = <<>>, Gone(c)', socket'[c].state # "unused",
         c \in registry' => c \in registry,
         server'[c] = server[c] \/
           (server[c].pc # "none" /\ server'[c] = [server[c] EXCEPT !.inbox = Append(server[c].inbox, 0)]),
         \A d \in server[c].echo : server[d].pc # "none" => server'[d].pc # "none"
  PROVE  Wire(c)' /\ Stream(c)'
<1>1. server[c] \in Handler
  BY DEF TypeOK
<1>2. /\ server'[c].pc = server[c].pc /\ server'[c].echo = server[c].echo
      /\ server'[c].outbound = server[c].outbound
  BY <1>1 DEF Handler
<1>3. server'[c].pc = "none" => server'[c] = NoHandler
  BY <1>2 DEF Wire
<1>4. Wire(c)'
  BY <1>2, <1>3 DEF Wire, Running, Gone
<1>5. Stream(c)'
  BY DEF Stream, NumberedWithoutGaps, EventsInOrder
<1>6. QED
  BY <1>4, <1>5

(* A handler ends.                                                         *)
LEMMA WireEnds ==
  ASSUME TypeOK, NEW c \in Conns, NEW q \in Handler,
         sent'[c] = <<>>, Gone(c)', c \notin registry', server'[c] = Over(q)
  PROVE  Wire(c)' /\ Stream(c)'
<1>1. /\ server'[c].pc = "ended" /\ server'[c].inbox = <<>> /\ server'[c].echo = {}
  BY OverIsHandler
<1>2. Wire(c)'
  BY <1>1 DEF Wire, Running, Gone
<1>3. Stream(c)'
  BY DEF Stream, NumberedWithoutGaps, EventsInOrder
<1>4. QED
  BY <1>2, <1>3

(* What may change about the other connections.                            *)
OthersKept(c) ==
  /\ published' = published
  /\ \A d \in Conns \ {c} :
       /\ sent'[d] = sent[d] /\ server'[d] = server[d] /\ socket'[d] = socket[d]
       /\ d \in registry' => d \in registry
  /\ server[c].pc # "none" => server'[c].pc # "none"

LEMMA OneConnection ==
  ASSUME TypeOK, Wires, Streams, NEW c \in Conns, OthersKept(c), Wire(c)', Stream(c)'
  PROVE  Wires' /\ Streams'
<1>1. ASSUME NEW d \in Conns PROVE Wire(d)' /\ Stream(d)'
  <2>1. CASE d = c
    BY <2>1
  <2>2. CASE d # c
    <3>1. server[d].echo \subseteq Conns
      BY DEF TypeOK, Handler
    <3>2. \A e \in Conns : server[e].pc # "none" => server'[e].pc # "none"
      BY DEF OthersKept
    <3>3. QED
      BY <2>2, <3>1, <3>2, Untouched DEF OthersKept, Wires, Streams
  <2>3. QED
    BY <2>1, <2>2
<1>2. QED
  BY <1>1 DEF Wires, Streams

LEMMA ClosingKeeps ==
  ASSUME TypeOK, Wires, Streams, NEW c \in Conns, Closing(c), socket[c].state # "unused",
         published' = published, registry' = registry
  PROVE  Wires' /\ Streams'
<1>1. server[c] \in Handler /\ socket[c] \in Socket /\ sent[c] \in Seq(Frame)
  BY DEF TypeOK
<1>2. sent'[c] = <<>> /\ Gone(c)' /\ socket'[c].state # "unused"
  BY DEF Closing, Lost, Gone, TypeOK, Socket
<1>3. server'[c] = server[c] \/
        (server[c].pc # "none" /\ server'[c] = [server[c] EXCEPT !.inbox = Append(server[c].inbox, 0)])
  BY DEF Closing, TypeOK
<1>4. server[c].pc # "none" => server'[c].pc # "none"
  BY <1>1, <1>3 DEF Handler
<1>5. \A d \in Conns \ {c} : sent'[d] = sent[d] /\ server'[d] = server[d] /\ socket'[d] = socket[d]
  BY DEF Closing, Lost, TypeOK
<1>6. \A d \in server[c].echo : server[d].pc # "none" => server'[d].pc # "none"
  BY <1>1, <1>4, <1>5 DEF Handler
<1>7. Wire(c)' /\ Stream(c)'
  BY <1>2, <1>3, <1>6, WireCut DEF Wires
<1>8. OthersKept(c)
  BY <1>4, <1>5 DEF OthersKept
<1>9. QED
  BY <1>7, <1>8, OneConnection

LEMMA ConnectKeeps ==
  ASSUME TypeOK, Wires, Streams, NEW k \in Clients, NEW q, Connect(k, q), UNCHANGED backend
  PROVE  Wires' /\ Streams'
<1>1. PICK c \in Conns : socket[c].state = "unused" /\ socket' = [socket EXCEPT ![c] = [state |-> "connecting", owner |-> k]]
  BY DEF Connect, Unused
<1>2. /\ socket'[c].state = "connecting"
      /\ \A d \in Conns \ {c} : socket'[d] = socket[d]
      /\ published' = published /\ registry' = registry /\ server' = server /\ sent' = sent
  BY <1>1 DEF TypeOK, backend
<1>3. server[c].pc = "none"
  BY <1>1 DEF Wires, Wire
<1>4. Wire(c)'
  <2>1. ~Gone(c) /\ ~Gone(c)'
    BY <1>1, <1>2 DEF Gone
  <2>2. Wire(c)
    BY DEF Wires
  <2>3. QED
    BY <1>2, <1>3, <2>1, <2>2 DEF Wire, Running
<1>5. Stream(c)'
  BY <1>2, <1>3 DEF Streams, Stream, Running
<1>6. QED
  BY <1>2, <1>4, <1>5, OneConnection DEF OthersKept

LEMMA FrontKeeps ==
  ASSUME Inv, NEW k \in Clients, NEW c \in Conns,
         Mount(k) \/ Unmount(k) \/ Reconnect(k) \/ Show(c) \/ Drop(c) \/ Report(c)
  PROVE  Wires' /\ Streams'
<1> USE DEF Inv
<1>1. server[c] \in Handler /\ socket[c] \in Socket
  BY DEF TypeOK
<1>2. CASE Mount(k)
  BY <1>2, ConnectKeeps DEF Mount
<1>3. CASE Reconnect(k)
  BY <1>3, ConnectKeeps DEF Reconnect
<1>4. CASE Unmount(k)
  <2>1. client[k].ws \in Conns
    BY <1>4, MountedHasConnection DEF Unmount
  <2>2. socket[client[k].ws].state # "unused"
    BY <1>4, <2>1 DEF Unmount, Ownership, ClientOwns, ConnOwned, Conns, Clients
  <2>3. QED
    BY <1>4, <2>1, <2>2, ClosingKeeps DEF Unmount
<1>5. CASE Drop(c)
  BY <1>5, ClosingKeeps DEF Drop
<1>6. CASE OnOpen(c)
  <2>1. /\ socket'[c].state = "open" /\ ~Gone(c) /\ ~Gone(c)' /\ server[c].pc # "none"
        /\ \A d \in Conns \ {c} : socket'[d] = socket[d]
        /\ published' = published /\ registry' = registry /\ server' = server /\ sent' = sent
    BY <1>1, <1>6 DEF OnOpen, backend, TypeOK, Gone
  <2>2. Wire(c)'
    BY <2>1 DEF Wires, Wire, Running, Gone
  <2>3. Stream(c)'
    BY <2>1 DEF Streams, Stream, Running, Phase, Backlog, Delivered
  <2>4. QED
    BY <2>1, <2>2, <2>3, OneConnection DEF OthersKept
<1>7. CASE OnClose(c)
  <2>1. /\ socket'[c].state = "closed" /\ Gone(c) /\ Gone(c)'
        /\ \A d \in Conns \ {c} : socket'[d] = socket[d]
        /\ published' = published /\ registry' = registry /\ server' = server /\ sent' = sent
    BY <1>1, <1>7 DEF OnClose, backend, TypeOK, Gone
  <2>2. Wire(c)'
    BY <2>1 DEF Wires, Wire, Running, Gone
  <2>3. Stream(c)'
    BY <2>1 DEF Streams, Stream
  <2>4. QED
    BY <2>1, <2>2, <2>3, OneConnection DEF OthersKept
<1>8. CASE Report(c)
  <2>1. /\ socket[c].state = "open" /\ published' = published /\ registry' = registry
        /\ sent' = sent /\ socket' = socket
        /\ server'[c] = [server[c] EXCEPT !.inbox = Append(server[c].inbox, 1)]
        /\ \A d \in Conns \ {c} : server'[d] = server[d]
    BY <1>8 DEF Report, TypeOK
  <2>2. /\ server'[c].pc = server[c].pc /\ server'[c].seq = server[c].seq /\ server'[c].since = server[c].since
        /\ server'[c].queue = server[c].queue /\ server'[c].outbound = server[c].outbound
        /\ server'[c].echo = server[c].echo /\ server'[c].inbox = Append(server[c].inbox, 1)
    BY <1>1, <2>1 DEF Handler
  <2>3. server[c].inbox \in Seq({0, 1})
    BY <1>1, HandlerTypes
  <2>4. \A n \in 1 .. Len(server'[c].inbox) : server'[c].inbox[n] = 0 => Gone(c)
    <3> DEFINE m == Len(server[c].inbox)
    <3>1. /\ Len(server'[c].inbox) = m + 1
          /\ \A n \in 1 .. m : server'[c].inbox[n] = server[c].inbox[n]
          /\ server'[c].inbox[m + 1] = 1
      BY <2>2, <2>3, AppendToSeq
    <3>2. \A n \in 1 .. m : server[c].inbox[n] = 0 => Gone(c)
      BY DEF Wires, Wire
    <3>3. m \in Nat
      BY <2>3
    <3> HIDE DEF m
    <3>4. ASSUME NEW n \in 1 .. m + 1, server'[c].inbox[n] = 0 PROVE Gone(c)
      <4>1. n # m + 1
        BY <3>1, <3>4
      <4>2. n \in 1 .. m
        BY <3>3, <4>1
      <4>3. QED
        BY <3>1, <3>2, <3>4, <4>2
    <3>5. QED
      BY <3>1, <3>4
  <2>5. \A d \in server[c].echo : server'[d].pc # "none"
    <3>1. server[c].echo \subseteq Conns
      BY <1>1, HandlerTypes
    <3>2. \A d \in Conns : server'[d].pc = server[d].pc
      BY <2>1, <2>2
    <3>3. QED
      BY <3>1, <3>2 DEF Wires, Wire
  <2>6. Wire(c)'
    BY <2>1, <2>2, <2>4, <2>5 DEF Wires, Wire, Running, Gone
  <2>7. Stream(c)'
    BY <2>1, <2>2 DEF Streams, Stream, Running, Gone, Phase, Backlog, Delivered
  <2>8. QED
    BY <2>1, <2>2, <2>6, <2>7, OneConnection DEF OthersKept
<1>9. QED
  BY <1>2, <1>3, <1>4, <1>5, <1>6, <1>7, <1>8 DEF Show

LEMMA EndKeeps ==
  ASSUME Inv, NEW c \in Conns, Gone(c), End(c), sent' = sent, published' = published, socket' = socket
  PROVE  Wires' /\ Streams'
<1> USE DEF Inv
<1>1. server[c] \in Handler /\ Wire(c)
  BY DEF TypeOK, Wires
<1>2. /\ registry' = registry \ {c} /\ server'[c] = Over(server[c])
      /\ \A d \in Conns \ {c} : server'[d] = server[d]
  BY DEF End, TypeOK
<1>3. sent'[c] = <<>> /\ Gone(c)'
  BY <1>1 DEF Wire, Gone
<1>4. Wire(c)' /\ Stream(c)'
  BY <1>1, <1>2, <1>3, WireEnds
<1>5. server'[c].pc # "none"
  BY <1>1, <1>2, OverIsHandler
<1>6. QED
  BY <1>2, <1>4, <1>5, OneConnection DEF OthersKept

LEMMA SendKeeps ==
  ASSUME Inv, NEW c \in Conns, NEW q \in Handler, NEW event \in Nat, Send(c, event, q),
         published' = published, socket' = socket, Running(c),
         q.pc \in {"seed", "stream"}, q.outbound = "waiting" => q.pc = "stream",
         q.inbox = server[c].inbox, q.echo = server[c].echo, q.since = server[c].since,
         q.seq = server[c].seq + 1, event = EventOf(q.seq, q.since),
         ~Gone(c) => Phase(q) /\ Backlog(q, published)
  PROVE  Wires' /\ Streams'
<1> USE DEF Inv
<1>1. /\ server[c] \in Handler /\ server[c].seq \in Nat /\ server[c].since \in Nat
      /\ sent[c] \in Seq(Frame) /\ server[c].echo \subseteq Conns
  BY HandlerTypes DEF TypeOK
<1>2. Wire(c) /\ Stream(c)
  BY DEF Wires, Streams
<1>3. CASE Gone(c)
  BY <1>3, EndKeeps DEF Send
<1>4. CASE ~Gone(c)
  <2> DEFINE f == [seq |-> q.seq, event |-> event]
  <2>1. /\ registry' = registry /\ server'[c] = q
        /\ \A d \in Conns \ {c} : server'[d] = server[d] /\ sent'[d] = sent[d]
        /\ sent'[c] = Append(sent[c], f)
    BY <1>4 DEF Send, TypeOK
  <2>2. f \in Frame /\ f.seq = server[c].seq + 1 /\ f.event = EventOf(f.seq, server[c].since)
    <3>1. q.seq \in Nat
      BY HandlerTypes
    <3>2. f \in Frame /\ f.seq = q.seq /\ f.event = event
      BY <3>1 DEF Frame
    <3> HIDE DEF f
    <3>3. QED
      BY <3>2
  <2> HIDE DEF f
  <2>3. ~Gone(c)' /\ Running(c)'
    BY <1>4, <2>1 DEF Gone, Running
  <2>4. Wire(c)'
    <3>1. server[c].pc # "none" /\ socket[c].state # "unused"
      BY <1>2 DEF Running, Wire
    <3>2. \A d \in Conns : server[d].pc # "none" => server'[d].pc # "none"
      BY <2>1
    <3>3. /\ socket'[c].state # "unused"
          /\ server'[c].pc # "none" /\ server'[c].pc # "ended"
          /\ server'[c].outbound = "waiting" => server'[c].pc \in {"stream", "ended"}
      BY <2>1, <3>1
    <3>4. \A n \in 1 .. Len(server'[c].inbox) : server'[c].inbox[n] # 0
      BY <1>2, <1>4, <2>1 DEF Wire
    <3>5. \A d \in server'[c].echo : server'[d].pc # "none"
      BY <1>1, <1>2, <2>1, <3>2 DEF Wire
    <3>6. QED
      BY <2>3, <3>3, <3>4, <3>5 DEF Wire
  <2>5. NumberedWithoutGaps(sent'[c]) /\ NumbersOut(sent'[c], server[c].seq + 1)
    BY <1>1, <1>2, <1>4, <2>1, <2>2, NumberedFrame DEF Stream
  <2>6. EventsInOrder(sent'[c], server[c].since)
    BY <1>1, <1>2, <2>1, <2>2, FrameInOrder DEF Stream
  <2>7. Stream(c)'
    BY <1>4, <2>1, <2>5, <2>6 DEF Stream
  <2>8. server'[c].pc # "none"
    BY <2>1
  <2>9. QED
    BY <2>1, <2>4, <2>7, <2>8, OneConnection DEF OthersKept
<1>5. QED
  BY <1>3, <1>4

LEMMA JoinKeeps ==
  ASSUME Inv, NEW c \in Conns, Join(c)
  PROVE  Wires' /\ Streams'
<1> USE DEF Inv
<1>1. /\ server[c] \in Handler /\ published \in Nat /\ sent[c] = <<>> /\ ~Gone(c)
      /\ server[c].pc = "none" /\ server[c] = NoHandler /\ socket[c].state = "connecting"
  BY DEF TypeOK, Join, Wires, Wire, Running, Gone
<1>2. /\ published' = published /\ sent' = sent /\ socket' = socket /\ registry' = registry \cup {c}
      /\ server'[c] = [server[c] EXCEPT !.pc = "hello", !.since = published]
      /\ \A d \in Conns \ {c} : server'[d] = server[d]
  BY DEF Join, Serving, TypeOK
<1>3. /\ server'[c].pc = "hello" /\ server'[c].since = published /\ server'[c].seq = 0
      /\ server'[c].queue = <<>> /\ server'[c].outbound = "none" /\ server'[c].inbox = <<>>
      /\ server'[c].echo = {}
  BY <1>1, <1>2 DEF NoHandler, Handler
<1>4. Wire(c)'
  BY <1>1, <1>2, <1>3 DEF Wire, Running, Gone
<1>5. Phase(server'[c]) /\ Backlog(server'[c], published)
  BY <1>1, <1>3 DEF Phase, Backlog, Delivered
<1>6. NumbersOut(sent'[c], server'[c].seq)
  BY <1>1, <1>2, <1>3 DEF NumbersOut
<1>7. Stream(c)'
  BY <1>1, <1>2, <1>5, <1>6 DEF Stream, NumberedWithoutGaps, EventsInOrder
<1>8. QED
  BY <1>2, <1>3, <1>4, <1>7, OneConnection DEF OthersKept

LEMMA HelloKeeps ==
  ASSUME Inv, NEW c \in Conns, Hello(c)
  PROVE  Wires' /\ Streams'
<1> USE DEF Inv
<1> DEFINE q == [server[c] EXCEPT !.seq = 1, !.pc = "seed"]
<1>1. server[c] \in Handler /\ server[c].pc = "hello" /\ Running(c) /\ Wire(c) /\ Stream(c)
  BY DEF TypeOK, Hello, Running, Wires, Streams
<1>2. /\ q \in Handler /\ q.pc = "seed" /\ q.seq = 1 /\ q.since = server[c].since /\ q.queue = server[c].queue
      /\ q.outbound = server[c].outbound /\ q.inbox = server[c].inbox /\ q.echo = server[c].echo
  BY <1>1 DEF Handler
<1>3. Send(c, 0, q) /\ published' = published /\ socket' = socket
  BY DEF Hello, Serving
<1> HIDE DEF q
<1>4. q.outbound # "waiting"
  BY <1>1, <1>2 DEF Wire
<1>5. 0 = EventOf(q.seq, q.since)
  BY <1>2 DEF EventOf
<1>6. CASE Gone(c)
  BY <1>1, <1>3, <1>6, EndKeeps DEF Send
<1>7. CASE ~Gone(c)
  <2>1. Phase(server[c]) /\ Backlog(server[c], published) /\ server[c].seq = 0
    BY <1>1, <1>7 DEF Stream, Phase
  <2>2. Phase(q)
    BY <1>2 DEF Phase
  <2>3. Delivered(q) = 0 /\ Delivered(server[c]) = 0
    BY <1>2, <2>1 DEF Delivered
  <2>4. Backlog(q, published)
    BY <1>2, <2>1, <2>3 DEF Backlog
  <2>5. q.seq = server[c].seq + 1
    BY <1>2, <2>1
  <2>6. QED
    BY <1>1, <1>2, <1>3, <1>4, <1>5, <2>2, <2>4, <2>5, SendKeeps
<1>8. QED
  BY <1>6, <1>7

LEMMA HelloFailsKeeps ==
  ASSUME Inv, NEW c \in Conns, HelloFails(c)
  PROVE  Wires' /\ Streams'
<1> USE DEF Inv
<1>1. server[c] \in Handler
  BY DEF TypeOK
<1>2. /\ registry' = registry \ {c} /\ server'[c] = Over(server[c]) /\ sent'[c] = <<>> /\ Gone(c)'
      /\ published' = published
      /\ \A d \in Conns \ {c} : server'[d] = server[d] /\ sent'[d] = sent[d] /\ socket'[d] = socket[d]
  BY DEF HelloFails, TypeOK, Lost, Gone, Socket
<1>3. Wire(c)' /\ Stream(c)'
  BY <1>1, <1>2, WireEnds
<1>4. server'[c].pc # "none"
  BY <1>1, <1>2, OverIsHandler
<1>5. QED
  BY <1>2, <1>3, <1>4, OneConnection DEF OthersKept

LEMMA SeedKeeps ==
  ASSUME Inv, NEW c \in Conns, Seed(c)
  PROVE  Wires' /\ Streams'
<1> USE DEF Inv
<1>1. /\ server[c] \in Handler /\ server[c].pc = "seed" /\ Running(c) /\ Wire(c) /\ Stream(c)
      /\ server[c].seq \in Nat
  BY HandlerTypes DEF TypeOK, Seed, Running, Wires, Streams
<1>2. published' = published /\ socket' = socket
  BY DEF Seed, Serving
<1>3. server[c].outbound # "waiting"
  BY <1>1 DEF Wire
<1>4. CASE server[c].seq = Seeds + 1
  <2>1. /\ registry' = registry /\ sent' = sent
        /\ server'[c] = [server[c] EXCEPT !.pc = "stream", !.outbound = "waiting"]
        /\ \A d \in Conns \ {c} : server'[d] = server[d]
    BY <1>4 DEF Seed, TypeOK
  <2>2. /\ server'[c].pc = "stream" /\ server'[c].seq = server[c].seq /\ server'[c].since = server[c].since
        /\ server'[c].queue = server[c].queue /\ server'[c].outbound = "waiting"
        /\ server'[c].inbox = server[c].inbox /\ server'[c].echo = server[c].echo
    BY <1>1, <2>1 DEF Handler
  <2>3. \A d \in Conns : server[d].pc # "none" => server'[d].pc # "none"
    BY <2>1, <2>2
  <2>4. server[c].echo \subseteq Conns
    BY <1>1, HandlerTypes
  <2>5. Wire(c)'
    BY <1>1, <1>2, <2>1, <2>2, <2>3, <2>4 DEF Wire, Running, Gone
  <2>6. Phase(server[c]) /\ Backlog(server[c], published) => Phase(server'[c]) /\ Backlog(server'[c], published)
    BY <1>1, <1>4, <2>2 DEF Phase, Backlog, Delivered
  <2>7. Stream(c)'
    BY <1>1, <1>2, <2>1, <2>2, <2>6 DEF Stream, Gone
  <2>8. QED
    BY <1>2, <2>1, <2>2, <2>5, <2>7, OneConnection DEF OthersKept
<1>5. CASE server[c].seq # Seeds + 1
  <2> DEFINE q == [server[c] EXCEPT !.seq = server[c].seq + 1]
  <2>1. Send(c, 0, q)
    BY <1>5 DEF Seed
  <2>2. server[c].seq + 1 \in Nat
    BY <1>1
  <2>3. /\ q \in Handler /\ q.pc = "seed" /\ q.seq = server[c].seq + 1 /\ q.since = server[c].since
        /\ q.queue = server[c].queue /\ q.outbound = server[c].outbound
        /\ q.inbox = server[c].inbox /\ q.echo = server[c].echo
    BY <1>1, <2>2 DEF Handler
  <2> HIDE DEF q
  <2>4. CASE Gone(c)
    BY <1>1, <1>2, <2>1, <2>4, EndKeeps DEF Send
  <2>5. CASE ~Gone(c)
    <3>1. Phase(server[c]) /\ Backlog(server[c], published) /\ server[c].seq \in 1 .. Seeds
      BY <1>1, <1>5, <2>5 DEF Stream, Phase
    <3>2. q.seq \in 1 .. Seeds + 1
      BY <2>3, <3>1
    <3>3. Phase(q) /\ 0 = EventOf(q.seq, q.since)
      BY <2>3, <3>2 DEF Phase, EventOf
    <3>4. Delivered(q) = 0 /\ Delivered(server[c]) = 0
      BY <3>1, <3>2 DEF Delivered
    <3>5. Backlog(q, published)
      BY <2>3, <3>1, <3>4 DEF Backlog
    <3>6. QED
      BY <1>1, <1>2, <1>3, <2>1, <2>3, <3>3, <3>5, SendKeeps
  <2>6. QED
    BY <2>4, <2>5
<1>6. QED
  BY <1>4, <1>5

LEMMA OutboundKeeps ==
  ASSUME Inv, NEW c \in Conns, Outbound(c)
  PROVE  Wires' /\ Streams'
<1> USE DEF Inv
<1>1. /\ server[c] \in Handler /\ Wire(c) /\ Stream(c)
      /\ server[c].seq \in Nat /\ server[c].since \in Nat /\ server[c].queue \in Seq(Nat)
      /\ server[c].queue # <<>> /\ server[c].outbound = "waiting"
  BY HandlerTypes DEF TypeOK, Outbound, Wires, Streams
<1>2. published' = published /\ socket' = socket
  BY DEF Outbound, Serving
<1>3. CASE server[c].pc = "stream" /\ ~Gone(c)
  <2> DEFINE t == server[c].queue
             q == [server[c] EXCEPT !.queue = Tail(t), !.seq = server[c].seq + 1]
  <2>1. Send(c, Head(t), q)
    BY <1>3 DEF Outbound
  <2>2. /\ Tail(t) \in Seq(Nat) /\ Head(t) \in Nat /\ Head(t) = t[1] /\ Len(t) \in Nat \ {0}
        /\ Len(Tail(t)) = Len(t) - 1
        /\ \A n \in 1 .. Len(t) - 1 : Tail(t)[n] = t[n + 1]
    BY <1>1, TailOfSeq
  <2>3. server[c].seq + 1 \in Nat
    <3>1. server[c].seq \in Nat
      BY <1>1
    <3>2. QED
      BY ONLY <3>1
  <2>4. /\ q.pc = "stream" /\ q.seq = server[c].seq + 1 /\ q.since = server[c].since
        /\ q.queue = Tail(t) /\ q.outbound = server[c].outbound
        /\ q.inbox = server[c].inbox /\ q.echo = server[c].echo
    BY <1>1, <1>3, ZenonT(60) DEF Handler
  <2>5. q \in Handler
    <3>1. \A r \in Seq(Nat), n \in Nat : [server[c] EXCEPT !.queue = r, !.seq = n] \in Handler
      BY <1>1, ZenonT(60) DEF Handler
    <3>2. QED
      BY <2>2, <2>3, <3>1
  <2> HIDE DEF q
  <2>6. Phase(server[c]) /\ Backlog(server[c], published) /\ server[c].seq >= 1 + Seeds /\ Running(c)
    BY <1>1, <1>3 DEF Stream, Phase, Running
  <2>7. Phase(q)
    BY <1>1, <2>4, <2>6 DEF Phase
  <2> DEFINE a == server[c].seq
             w == server[c].since
             d == Delivered(server[c])
             e == Delivered(q)
             m == Len(t)
  <2>8. /\ a \in Nat /\ w \in Nat /\ a >= 1 + Seeds /\ Seeds \in Nat
        /\ q.seq = a + 1 /\ q.since = w
        /\ d = IF a <= 1 + Seeds THEN 0 ELSE a - (1 + Seeds)
        /\ e = IF a + 1 <= 1 + Seeds THEN 0 ELSE a + 1 - (1 + Seeds)
    BY <1>1, <2>4, <2>6 DEF Delivered
  <2>9. /\ w + d + m = published
        /\ \A n \in 1 .. m : t[n] = w + d + n
        /\ m \in Nat \ {0} /\ Len(q.queue) = m - 1 /\ \A n \in 1 .. m - 1 : q.queue[n] = t[n + 1]
    BY <2>2, <2>4, <2>6 DEF Backlog
  <2>10. Head(t) = EventOf(q.seq, q.since) /\ Backlog(q, published)
    <3>1. Head(t) = t[1]
      BY <2>2
    <3> HIDE DEF a, w, d, e, m, t
    <3>2. d \in Nat /\ e = d + 1 /\ e = a + 1 - (1 + Seeds) /\ ~(a + 1 <= 1 + Seeds)
      BY <2>8
    <3>3. Head(t) = w + d + 1
      BY <2>9, <3>1
    <3>4. EventOf(q.seq, q.since) = w + e
      BY <2>8, <3>2 DEF EventOf
    <3>5. w + e + (m - 1) = published
      <4>1. m \in Nat /\ w \in Nat /\ w + d + m = published
        BY <2>8, <2>9
      <4>2. w + (d + 1) + (m - 1) = w + d + m
        BY <3>2, <4>1
      <4>3. QED
        BY <3>2, <4>1, <4>2
    <3>6. ASSUME NEW n \in 1 .. m - 1 PROVE q.queue[n] = w + e + n
      <4>1. n + 1 \in 1 .. m
        BY <2>9
      <4>2. q.queue[n] = w + d + (n + 1)
        BY <2>9, <4>1
      <4>3. QED
        BY <2>8, <3>2, <4>2
    <3>7. Backlog(q, published)
      BY <2>8, <2>9, <3>5, <3>6 DEF Backlog, e
    <3>8. w + d + 1 = w + e
      BY <2>8, <3>2
    <3>9. QED
      BY <3>3, <3>4, <3>7, <3>8
  <2>11. QED
    BY <1>1, <1>2, <1>3, <2>1, <2>2, <2>4, <2>5, <2>6, <2>7, <2>10, SendKeeps
<1>4. CASE ~(server[c].pc = "stream" /\ ~Gone(c))
  <2> DEFINE q == [server[c] EXCEPT !.outbound = "dead"]
  <2>1. /\ registry' = registry \ {c} /\ sent' = sent /\ server'[c] = Over(q)
        /\ \A d \in Conns \ {c} : server'[d] = server[d]
    BY <1>4 DEF Outbound, TypeOK
  <2>2. q \in Handler
    BY <1>1, HandlerFields
  <2> HIDE DEF q
  <2>3. Gone(c) /\ Gone(c)' /\ sent'[c] = <<>>
    BY <1>1, <1>2, <1>4, <2>1 DEF Wire, Gone
  <2>4. Wire(c)' /\ Stream(c)'
    BY <2>1, <2>2, <2>3, WireEnds
  <2>5. server'[c].pc # "none"
    BY <2>1, <2>2, OverIsHandler
  <2>6. QED
    BY <1>2, <2>1, <2>4, <2>5, OneConnection DEF OthersKept
<1>5. QED
  BY <1>3, <1>4

LEMMA InboundKeeps ==
  ASSUME Inv, NEW c \in Conns, Inbound(c)
  PROVE  Wires' /\ Streams'
<1> USE DEF Inv
<1>1. /\ server[c] \in Handler /\ Wire(c) /\ Stream(c) /\ server[c].pc = "stream"
      /\ server[c].inbox \in Seq({0, 1}) /\ server[c].inbox # <<>>
  BY HandlerTypes DEF TypeOK, Inbound, Wires, Streams
<1>2. published' = published /\ socket' = socket /\ sent' = sent
  BY DEF Inbound, Serving
<1>3. /\ Head(server[c].inbox) = server[c].inbox[1] /\ Len(server[c].inbox) \in Nat \ {0}
      /\ Len(Tail(server[c].inbox)) = Len(server[c].inbox) - 1
      /\ \A n \in 1 .. Len(server[c].inbox) - 1 : Tail(server[c].inbox)[n] = server[c].inbox[n + 1]
  BY <1>1, TailOfSeq
<1>4. CASE Head(server[c].inbox) = 0
  <2>1. Gone(c)
    BY <1>1, <1>3, <1>4 DEF Wire
  <2>2. End(c)
    BY <1>4 DEF Inbound
  <2>3. QED
    BY <1>2, <2>1, <2>2, EndKeeps
<1>5. CASE Head(server[c].inbox) # 0
  <2> DEFINE t == Tail(server[c].inbox)
  <2>1. /\ registry' = registry
        /\ server'[c] = [server[c] EXCEPT !.inbox = t, !.echo = registry]
        /\ \A d \in Conns \ {c} : server'[d] = server[d]
    BY <1>5 DEF Inbound, TypeOK
  <2>2. /\ server'[c].pc = server[c].pc /\ server'[c].seq = server[c].seq /\ server'[c].since = server[c].since
        /\ server'[c].queue = server[c].queue /\ server'[c].outbound = server[c].outbound
        /\ server'[c].inbox = t /\ server'[c].echo = registry
    BY <1>1, <2>1 DEF Handler
  <2>3. \A d \in Conns : server'[d].pc = server[d].pc
    BY <2>1, <2>2
  <2>4. \A n \in 1 .. Len(t) : t[n] = 0 => Gone(c)
    <3>1. ASSUME NEW n \in 1 .. Len(t), t[n] = 0 PROVE Gone(c)
      <4>1. n \in 1 .. Len(server[c].inbox) - 1 /\ n + 1 \in 1 .. Len(server[c].inbox)
        BY <1>3
      <4>2. server[c].inbox[n + 1] = 0
        BY <1>3, <3>1, <4>1
      <4>3. QED
        BY <1>1, <4>1, <4>2 DEF Wire
    <3>2. QED
      BY <3>1
  <2>5. \A d \in registry : server'[d].pc # "none"
    BY <2>3 DEF Wires, Wire, Running, TypeOK
  <2> HIDE DEF t
  <2>6. Wire(c)'
    BY <1>1, <1>2, <2>1, <2>2, <2>4, <2>5 DEF Wire, Running, Gone
  <2>7. Phase(server[c]) /\ Backlog(server[c], published) => Phase(server'[c]) /\ Backlog(server'[c], published)
    BY <2>2 DEF Phase, Backlog, Delivered
  <2>8. Stream(c)'
    BY <1>1, <1>2, <2>2, <2>7 DEF Stream, Running, Gone
  <2>9. QED
    BY <1>2, <2>1, <2>2, <2>6, <2>8, OneConnection DEF OthersKept
<1>6. QED
  BY <1>4, <1>5

LEMMA EchoKeeps ==
  ASSUME Inv, NEW c \in Conns, NEW d \in Conns, Echo(c, d)
  PROVE  Wires' /\ Streams'
<1> USE DEF Inv
<1> DEFINE f == [seq |-> 0, event |-> 0]
<1>1. /\ server[c] \in Handler /\ server[c].pc = "stream" /\ d \in server[c].echo
      /\ published' = published /\ socket' = socket
  BY DEF TypeOK, Echo, Serving
<1>2. registry' \subseteq registry
  BY DEF Echo
<1>3. PICK e, s : server' = [server EXCEPT ![c] = [server[c] EXCEPT !.echo = e, !.stale = s]] /\ e \subseteq server[c].echo
  <2>1. \A stale : /\ server[c].echo \ {d} \subseteq server[c].echo
                   /\ \E s : s = IF server[c].echo = {d} THEN {} ELSE stale
    OBVIOUS
  <2>2. QED
    BY <2>1 DEF Echo
<1>4. \A x \in Conns :
        /\ server'[x].pc = server[x].pc /\ server'[x].seq = server[x].seq /\ server'[x].since = server[x].since
        /\ server'[x].queue = server[x].queue /\ server'[x].outbound = server[x].outbound
        /\ server'[x].inbox = server[x].inbox /\ server'[x].echo \subseteq server[x].echo
        /\ server[x].pc = "none" => server'[x] = server[x]
  BY <1>1, <1>3 DEF TypeOK, Handler
<1>5. server[d].pc # "none"
  BY <1>1 DEF Wires, Wire
<1>6. \A x \in Conns : server[x].echo \subseteq Conns
  BY DEF TypeOK, Handler
<1>7. ~Gone(d) => Running(d)
  BY <1>5 DEF Wires, Wire, TypeOK, Handler, Running
<1>8. /\ \A x \in Conns : sent'[x] = sent[x] \/ (x = d /\ ~Gone(d))
      /\ sent'[d] = sent[d] \/ (sent'[d] = Append(sent[d], f))
  BY DEF Echo, TypeOK
<1>9. ASSUME NEW x \in Conns PROVE Wire(x)'
  <2>1. Wire(x)
    BY DEF Wires
  <2>2. sent'[x] = sent[x] \/ (Running(x) /\ ~Gone(x))
    BY <1>7, <1>8
  <2>3. \A y \in server'[x].echo : server'[y].pc # "none"
    BY <1>4, <1>6, <2>1 DEF Wire
  <2>4. server'[x].pc = "none" => server'[x] = NoHandler
    BY <1>4, <2>1 DEF Wire
  <2>5. QED
    BY <1>1, <1>2, <1>4, <2>1, <2>2, <2>3, <2>4 DEF Wire, Running, Gone
<1>10. ASSUME NEW x \in Conns PROVE Stream(x)'
  <2>1. Stream(x) /\ sent[x] \in Seq(Frame) /\ server[x].seq \in Nat /\ server[x].since \in Nat
    BY DEF Streams, TypeOK, Handler
  <2>2. Phase(server[x]) /\ Backlog(server[x], published) => Phase(server'[x]) /\ Backlog(server'[x], published)
    BY <1>4 DEF Phase, Backlog, Delivered
  <2>3. CASE sent'[x] = sent[x]
    BY <1>1, <1>4, <2>1, <2>2, <2>3 DEF Stream, Running, Gone
  <2>4. CASE sent'[x] = Append(sent[x], f)
    <3>1. f \in Frame /\ f.seq = 0 /\ f.event = EventOf(f.seq, server[x].since)
      BY DEF Frame, EventOf
    <3> HIDE DEF f
    <3>2. NumberedWithoutGaps(sent'[x])
      BY <2>1, <2>4, <3>1, EchoFrame DEF Stream
    <3>3. NumbersOut(sent[x], server[x].seq) => NumbersOut(sent'[x], server[x].seq)
      BY <2>1, <2>4, <3>1, EchoFrame DEF Stream
    <3>4. EventsInOrder(sent'[x], server[x].since)
      BY <2>1, <2>4, <3>1, FrameInOrder DEF Stream
    <3>5. QED
      BY <1>1, <1>4, <2>1, <2>2, <3>2, <3>3, <3>4 DEF Stream, Running, Gone
  <2>5. QED
    BY <1>8, <2>3, <2>4
<1>11. QED
  BY <1>9, <1>10 DEF Wires, Streams

LEMMA PublishKeeps ==
  ASSUME Inv, Publish
  PROVE  Wires' /\ Streams'
<1> USE DEF Inv
<1>1. published \in Nat /\ published' = published + 1 /\ sent' = sent /\ socket' = socket /\ registry' = registry
  BY DEF Publish, Serving, TypeOK
<1>2. ASSUME NEW c \in Conns
      PROVE  \/ c \notin Subscribed /\ server'[c] = server[c]
             \/ /\ c \in Subscribed
                /\ server'[c] = [server[c] EXCEPT !.queue = Append(server[c].queue, published + 1)]
  BY DEF Publish, TypeOK
<1>3. ASSUME NEW c \in Conns
      PROVE  /\ server'[c].pc = server[c].pc /\ server'[c].seq = server[c].seq /\ server'[c].since = server[c].since
             /\ server'[c].outbound = server[c].outbound
             /\ server'[c].inbox = server[c].inbox /\ server'[c].echo = server[c].echo
  <2>1. server[c] \in Handler
    BY DEF TypeOK
  <2>2. CASE server'[c] = server[c]
    BY <2>2
  <2>3. CASE \E t : server'[c] = [server[c] EXCEPT !.queue = t]
    <3>1. PICK t : server'[c] = [server[c] EXCEPT !.queue = t]
      BY <2>3
    <3>2. QED
      BY <2>1, <3>1 DEF Handler
  <2>4. QED
    BY <1>2, <2>2, <2>3
<1>4. \A c \in Conns : server[c].echo \subseteq Conns
  BY DEF TypeOK, Handler
<1>5. ASSUME NEW c \in Conns PROVE Wire(c)'
  <2>1. Wire(c)
    BY DEF Wires
  <2>2. server'[c].pc = "none" => server'[c] = NoHandler
    BY <1>2, <1>3, <2>1 DEF Wire, Subscribed
  <2>3. \A y \in server'[c].echo : server'[y].pc # "none"
    BY <1>3, <1>4, <2>1 DEF Wire
  <2>4. QED
    BY <1>1, <1>3, <2>1, <2>2, <2>3 DEF Wire, Running, Gone
<1>6. ASSUME NEW c \in Conns PROVE Stream(c)'
  <2>1. Stream(c) /\ server[c] \in Handler
    BY DEF Streams, TypeOK
  <2>2. CASE Running(c) /\ ~Gone(c)
    <3> DEFINE t == server[c].queue
               w == server[c].since
               d == Delivered(server[c])
               m == Len(t)
    <3>1. c \in Subscribed
      BY <2>2 DEF Subscribed, Running
    <3>2. t \in Seq(Nat) /\ w \in Nat /\ server[c].seq \in Nat
      BY <2>1, HandlerTypes
    <3>3. server'[c].queue = Append(t, published + 1)
      BY <1>2, <2>1, <3>1 DEF Handler
    <3>4. /\ Len(server'[c].queue) = m + 1
          /\ \A n \in 1 .. m : server'[c].queue[n] = t[n]
          /\ server'[c].queue[m + 1] = published + 1
          /\ m \in Nat
      <4>1. published + 1 \in Nat
        BY <1>1
      <4> HIDE DEF t
      <4>2. QED
        BY <3>2, <3>3, <4>1, AppendToSeq
    <3>5. d \in Nat
      BY <3>2 DEF Delivered
    <3>6. /\ w + d + m = published
          /\ \A n \in 1 .. m : t[n] = w + d + n
          /\ Phase(server[c])
      BY <2>1, <2>2 DEF Stream, Backlog
    <3>7. server'[c].since = w /\ Delivered(server'[c]) = d /\ Phase(server'[c])
      BY <1>3, <3>6 DEF Phase, Delivered
    <3> HIDE DEF t, w, d, m
    <3>8. w + d + (m + 1) = published + 1
      BY <3>2, <3>4, <3>5, <3>6
    <3>9. ASSUME NEW n \in 1 .. m + 1 PROVE server'[c].queue[n] = w + d + n
      <4>1. CASE n = m + 1
        BY <3>4, <3>8, <4>1
      <4>2. CASE n # m + 1
        <5>1. n \in 1 .. m
          BY <3>4, <4>2
        <5>2. QED
          BY <3>4, <3>6, <5>1
      <4>3. QED
        BY <4>1, <4>2
    <3>10. Backlog(server'[c], published + 1)
      BY <3>4, <3>7, <3>8, <3>9 DEF Backlog
    <3>11. QED
      BY <1>1, <1>3, <2>1, <2>2, <3>7, <3>10 DEF Stream
  <2>3. CASE ~(Running(c) /\ ~Gone(c))
    BY <1>1, <1>3, <2>1, <2>3 DEF Stream, Running, Gone
  <2>4. QED
    BY <2>2, <2>3
<1>7. QED
  BY <1>5, <1>6 DEF Wires, Streams

-----------------------------------------------------------------------------
(* The theorems.                                                           *)

LEMMA InitInv == Init => Inv
<1> SUFFICES ASSUME Init PROVE Inv
  OBVIOUS
<1>1. NoHandler \in Handler /\ NoHandler.pc = "none" /\ NoHandler.inbox = <<>> /\ NoHandler.echo = {}
      /\ NoHandler.outbound = "none"
  BY NoHandlerType DEF NoHandler
<1>2. TypeOK
  BY <1>1 DEF Init, TypeOK, Socket, OverlayClient
<1>3. Wires
  BY <1>1 DEF Init, Wires, Wire, Running, Gone
<1>4. Ownership
  BY DEF Init, Ownership, ConnOwned, ClientOwns, Clients
<1>5. Streams
  BY <1>1 DEF Init, Streams, Stream, NumberedWithoutGaps, EventsInOrder, Running
<1>6. QED
  BY <1>2, <1>3, <1>4, <1>5 DEF Inv

LEMMA InvIsInductive == Inv /\ [Next]_vars => Inv'
<1> SUFFICES ASSUME Inv, [Next]_vars PROVE Inv'
  OBVIOUS
<1>1. TypeOK /\ Wires /\ Ownership /\ Streams
  BY DEF Inv
<1>2. Ownership'
  BY <1>1, OwnershipIsKept
<1>3. ASSUME NEW k \in Clients, Mount(k) \/ Unmount(k) \/ Reconnect(k)
      PROVE  TypeOK' /\ Wires' /\ Streams'
  <2>1. client[k].ws = 0 \/ client[k].ws \in Conns
    BY <1>1 DEF TypeOK, OverlayClient
  <2>2. PICK c \in Conns : TRUE
    BY <1>1, <1>3, <2>1, MountedHasConnection DEF Mount, Unmount, Reconnect, Connect, Unused
  <2>3. QED
    BY <1>1, <1>3, <2>2, FrontTypes, FrontKeeps
<1>4. ASSUME NEW c \in Conns, Show(c) \/ Drop(c) \/ Report(c)
      PROVE  TypeOK' /\ Wires' /\ Streams'
  <2>1. PICK k \in Clients : TRUE
    BY <1>1, <1>4 DEF Show, OnOpen, OnClose, Drop, Report, Ownership, ConnOwned, TypeOK, Socket
  <2>2. QED
    BY <1>1, <1>4, <2>1, FrontTypes, FrontKeeps
<1>5. ASSUME Publish PROVE TypeOK' /\ Wires' /\ Streams'
  <2>1. TypeOK'
    BY <1>1, <1>5, PublishTypes
  <2>2. QED
    BY <1>5, <2>1, PublishKeeps
<1>6. ASSUME NEW c \in Conns, Serve(c) \/ HelloFails(c)
      PROVE  TypeOK' /\ Wires' /\ Streams'
  BY <1>1, <1>6, BackTypes, JoinKeeps, HelloKeeps, HelloFailsKeeps, SeedKeeps, OutboundKeeps,
     InboundKeeps, EchoKeeps DEF Serve
<1>7. ASSUME UNCHANGED vars PROVE TypeOK' /\ Wires' /\ Streams'
  BY <1>1, <1>7 DEF vars, TypeOK, Wires, Wire, Streams, Stream, Running, Gone
<1>8. TypeOK' /\ Wires' /\ Streams'
  BY <1>3, <1>4, <1>5, <1>6, <1>7 DEF Next
<1>9. QED
  BY <1>2, <1>8 DEF Inv

LEMMA InvHolds == Spec => []Inv
BY InitInv, InvIsInductive, PTL DEF Spec

(* The state of the backend and of the overlays has its type, whatever the *)
(* bounds.                                                                 *)
THEOREM TypeCorrect == Spec => []TypeOK
<1>1. Inv => TypeOK
  BY DEF Inv
<1>2. QED
  BY <1>1, InvHolds, PTL

(* Only connections whose handler runs are registered.                     *)
THEOREM RegistryStaysLive == Spec => []RegistryIsLive
<1>1. Inv => RegistryIsLive
  BY DEF Inv, RegistryIsLive, Wires, Wire, TypeOK
<1>2. QED
  BY <1>1, InvHolds, PTL

(* After the unmount a client has no connection and opens none, and a      *)
(* mounted App never has two.                                              *)
THEOREM ClosedClientsStayClosed == Spec => []ClosedStaysClosed
<1>1. ASSUME Inv PROVE ClosedStaysClosed
  <2>1. ASSUME NEW k \in Clients, NEW c \in Live(k) PROVE c = client[k].ws /\ k \in mounted
    BY <1>1, <2>1 DEF Inv, Live, Ownership, ConnOwned, ClientOwns, Gone, Clients
  <2>2. QED
    BY <2>1 DEF ClosedStaysClosed
<1>2. QED
  BY <1>1, InvHolds, PTL

(* The stream of every connection is whole: gapless numbers, every event   *)
(* since the connection joined, once and in order.                         *)
THEOREM StreamsStayWhole == Spec => []StreamIsWhole
<1>1. ASSUME Inv PROVE StreamIsWhole
  <2>1. ASSUME NEW c \in Conns, Running(c), ~Gone(c) PROVE NothingIsMissing(c)
    <3> DEFINE t == server[c].queue
               w == server[c].since
               a == server[c].seq
               d == Delivered(server[c])
               m == Len(t)
    <3>1. /\ server[c] \in Handler /\ sent[c] \in Seq(Frame) /\ published \in Nat
          /\ a \in Nat /\ w \in Nat /\ m \in Nat /\ Seeds \in Nat
      BY <1>1, HandlerTypes DEF Inv, TypeOK
    <3>2. /\ EventsInOrder(sent[c], w) /\ Backlog(server[c], published) /\ NumbersOut(sent[c], a)
      BY <1>1, <2>1 DEF Inv, Streams, Stream
    <3>3. /\ w + d + m = published /\ \A n \in 1 .. m : t[n] = w + d + n
          /\ d = IF a <= 1 + Seeds THEN 0 ELSE a - (1 + Seeds)
      BY <3>2 DEF Backlog, Delivered
    <3>4. /\ DOMAIN sent[c] = 1 .. Len(sent[c]) /\ Len(sent[c]) \in Nat
          /\ \A i \in DOMAIN sent[c] : sent[c][i].seq \in Nat /\ sent[c][i].seq <= a
          /\ \A i \in DOMAIN sent[c] : sent[c][i].event = EventOf(sent[c][i].seq, w)
      BY <3>1, <3>2, FrameTypes DEF NumbersOut, EventsInOrder
    <3>5. \A n \in 1 .. a : \E i \in DOMAIN sent[c] : sent[c][i].seq = n
      BY <3>1, <3>2, <3>4 DEF NumbersOut
    <3> HIDE DEF t, w, a, d, m
    <3>6. d \in Nat /\ published - m = w + d
      BY <3>1, <3>3
    <3>7. ASSUME NEW e \in w + 1 .. w + d PROVE \E i \in DOMAIN sent[c] : sent[c][i].event = e
      <4>1. PICK n : n = e - w + (1 + Seeds)
        OBVIOUS
      <4>2. n \in 1 .. a /\ ~(n <= 1 + Seeds) /\ w + (n - (1 + Seeds)) = e
        BY <3>1, <3>3, <3>6, <4>1
      <4>3. EventOf(n, w) = e
        BY <4>2 DEF EventOf
      <4>4. PICK i \in DOMAIN sent[c] : sent[c][i].seq = n
        BY <3>5, <4>2
      <4>5. QED
        BY <3>4, <4>3, <4>4
    <3>8. ASSUME NEW i \in DOMAIN sent[c] PROVE sent[c][i].event <= w + d
      <4> DEFINE n == sent[c][i].seq
      <4>1. n \in Nat /\ n <= a /\ sent[c][i].event = EventOf(n, w)
        BY <3>4
      <4> HIDE DEF n
      <4>2. EventOf(n, w) <= w + d
        BY <3>1, <3>3, <4>1 DEF EventOf
      <4>3. QED
        BY <4>1, <4>2
    <3>9. QED
      BY <3>3, <3>6, <3>7, <3>8 DEF NothingIsMissing, t, w, m
  <2>2. QED
    BY <1>1, <2>1 DEF Inv, Streams, Stream, StreamIsWhole
<1>2. QED
  BY <1>1, InvHolds, PTL

===============================================================================
