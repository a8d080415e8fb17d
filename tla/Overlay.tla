-------------------------------- MODULE Overlay --------------------------------
(***************************************************************************)
(* The realtime overlay of one user: the WebSocket handler, its            *)
(* ConnectionManager and GameEventBus in one backend process               *)
(* (src/backend/app/modules/realtime), and the overlay's OverlayClient     *)
(* (src/frontend/overlay/src/api/overlayClient.ts) as App.tsx mounts it.   *)
(*                                                                         *)
(* The process runs one coroutine at a time, so a handler's step goes from *)
(* one await to the next.  A connection delivers frames in order until it  *)
(* is closed; each side learns of the end in its own time.                 *)
(***************************************************************************)
EXTENDS Naturals, Sequences

CONSTANTS
  MaxConns,   \* bound on the connections that are opened
  MaxMounts,  \* bound on the times the App is mounted, by the user's overlays
  MaxEvents,  \* bound on the game events published
  MaxAlerts,  \* bound on the alerts a user reports
  MaxDrops,   \* bound on the connections that the network loses
  Seeds       \* the number of _SEED_EVENTS

ASSUME BoundsAssumption ==
  {MaxConns, MaxMounts, MaxEvents, MaxAlerts, MaxDrops, Seeds} \subseteq Nat

Conns == 1 .. MaxConns
Clients == 1 .. MaxMounts

VARIABLES
  published,  \* event_bus.publish: the number of events so far
  registry,   \* manager._conns of the user
  server,     \* the handler of each connection
  socket,     \* the client's side of each connection
  sent,       \* frames written to each connection, while it lasts
  client,     \* the OverlayClients, by mount
  mounted,    \* the clients of mounted Apps
  drops, alerts  \* the faults and alerts so far

vars == <<published, registry, server, socket, sent, client, mounted, drops, alerts>>

(* since: the events published before the connection joined; queue: its    *)
(* subscription; outbound: its outbound task; inbox: messages of the       *)
(* client, 0 for its disconnect; echo: connections still to be sent the    *)
(* alert, stale those that refused it.                                     *)
NoHandler == [pc |-> "none", since |-> 0, seq |-> 0, queue |-> <<>>, outbound |-> "none",
              inbox |-> <<>>, echo |-> {}, stale |-> {}]

Init ==
  /\ published = 0 /\ registry = {} /\ mounted = {} /\ drops = 0 /\ alerts = 0
  /\ server = [c \in Conns |-> NoHandler]
  /\ socket = [c \in Conns |-> [state |-> "unused", owner |-> 0]]
  /\ sent = [c \in Conns |-> <<>>]
  /\ client = [k \in Clients |-> [closedByUser |-> FALSE, reconnectTimer |-> "none", ws |-> 0]]

backend == <<published, registry, server, sent>>
frontend == <<client, mounted>>

-----------------------------------------------------------------------------
(* The overlay's client.                                                   *)
Gone(c) == socket[c].state \in {"closing", "closed"}
Unused == {c \in Conns : socket[c].state = "unused" /\ \A d \in Conns : socket[d].state = "unused" => c <= d}

(* connect(): a new WebSocket.                                             *)
Connect(k, q) ==
  \E c \in Unused :
    /\ socket' = [socket EXCEPT ![c] = [state |-> "connecting", owner |-> k]]
    /\ client' = [client EXCEPT ![k] = [q EXCEPT !.closedByUser = FALSE, !.ws = c]]

(* App's effect makes a client and connects it; they are numbered as they  *)
(* come.                                                                   *)
Mount(k) ==
  /\ client[k].ws = 0 /\ \A j \in Clients : j < k => client[j].ws # 0
  /\ Connect(k, client[k])
  /\ mounted' = mounted \cup {k}
  /\ UNCHANGED <<backend, drops, alerts>>

(* The end of a connection on the client's side, unless it has ended: what *)
(* it was sent is history, and the server will read its disconnect.        *)
Lost(c) == sent' = [sent EXCEPT ![c] = <<>>]
Closing(c) ==
  /\ Lost(c)
  /\ socket' = [socket EXCEPT ![c].state = IF Gone(c) THEN @ ELSE "closing"]
  /\ server' = IF Gone(c) \/ server[c].pc = "none" THEN server
               ELSE [server EXCEPT ![c].inbox = Append(@, 0)]

(* Mutant: the pending reconnect is left to run.                           *)
UnmountTimerLeft(k) ==
  /\ k \in mounted
  /\ client' = [client EXCEPT ![k].closedByUser = TRUE]
  /\ Closing(client[k].ws)
  /\ mounted' = mounted \ {k}
  /\ UNCHANGED <<published, registry, drops, alerts>>

(* The effect's cleanup calls close(): the timer is cleared, and keeps its *)
(* handle.                                                                 *)
Unmount(k) ==
  /\ k \in mounted
  /\ LET timer == client[k].reconnectTimer IN
     client' = [client EXCEPT ![k] = [client[k] EXCEPT
                  !.closedByUser = TRUE, !.reconnectTimer = IF timer = "none" THEN timer ELSE "cleared"]]
  /\ Closing(client[k].ws)
  /\ mounted' = mounted \ {k}
  /\ UNCHANGED <<published, registry, drops, alerts>>

OnOpen(c) ==
  /\ socket[c].state = "connecting" /\ server[c].pc # "none"
  /\ socket' = [socket EXCEPT ![c].state = "open"]
  /\ UNCHANGED <<backend, client, mounted, drops, alerts>>

(* The network loses a connection.                                         *)
Drop(c) ==
  /\ socket[c].state \in {"connecting", "open"} /\ drops < MaxDrops
  /\ Closing(c)
  /\ drops' = drops + 1
  /\ UNCHANGED <<published, registry, frontend, alerts>>

(* Mutant: a connection that was never accepted is not tried again.        *)
OnCloseIfAccepted(c) ==
  LET k == socket[c].owner IN
  /\ socket[c].state = "closing"
  /\ socket' = [socket EXCEPT ![c].state = "closed"]
  /\ client' = IF client[k].closedByUser \/ server[c].pc = "none" THEN client
               ELSE [client EXCEPT ![k].reconnectTimer = IF @ = "none" THEN "set" ELSE @]
  /\ UNCHANGED <<backend, mounted, drops, alerts>>

(* onclose: unless the user closed it the client will connect again        *)
(* (scheduleReconnect does nothing while it has a timer).                  *)
OnClose(c) ==
  LET k == socket[c].owner IN
  /\ socket[c].state = "closing"
  /\ socket' = [socket EXCEPT ![c].state = "closed"]
  /\ client' = IF client[k].closedByUser THEN client
               ELSE [client EXCEPT ![k].reconnectTimer = IF @ = "none" THEN "set" ELSE @]
  /\ UNCHANGED <<backend, mounted, drops, alerts>>

(* The timer of two seconds fires.                                         *)
Reconnect(k) ==
  /\ client[k].reconnectTimer = "set"
  /\ Connect(k, [client[k] EXCEPT !.reconnectTimer = "none"])
  /\ UNCHANGED <<backend, mounted, drops, alerts>>

(* send(): the user reports an alert.                                      *)
Report(c) ==
  /\ socket[c].state = "open" /\ alerts < MaxAlerts
  /\ server' = [server EXCEPT ![c].inbox = Append(@, 1)]
  /\ alerts' = alerts + 1
  /\ UNCHANGED <<published, registry, sent, socket, frontend, drops>>

-----------------------------------------------------------------------------
(* The backend.  A step of it leaves the client's side alone.              *)
Serving == UNCHANGED <<socket, frontend, drops, alerts>>

(* overlay_ws() accepts, registers the connection and subscribes its queue *)
(* (the manager's lock is never held across an await).                     *)
Join(c) ==
  /\ server[c].pc = "none" /\ socket[c].state = "connecting"
  /\ registry' = registry \cup {c}
  /\ server' = [server EXCEPT ![c].pc = "hello", ![c].since = published]
  /\ UNCHANGED <<published, sent>> /\ Serving

(* event_bus.publish: the event joins every queue of the user, and the     *)
(* queues of ended handlers, which nobody unsubscribes.                    *)
Subscribed ==
  {c \in Conns : server[c].pc \in {"hello", "seed", "stream"} \/ server[c].outbound = "waiting"}
Publish ==
  /\ published < MaxEvents
  /\ published' = published + 1
  /\ server' = [c \in Conns |-> IF c \in Subscribed
                                THEN [server[c] EXCEPT !.queue = Append(@, published + 1)] ELSE server[c]]
  /\ UNCHANGED <<registry, sent>> /\ Serving

(* What is left of a handler that has ended: the task that reads its       *)
(* queue.  A queue that nobody reads stays subscribed, and is left out.    *)
(* When a frame cannot be sent, gather leaves _inbound to answer the alerts *)
(* it has received; here it ends with the rest.                            *)
Over(q) == [NoHandler EXCEPT !.pc = "ended", !.outbound = q.outbound,
                             !.queue = IF q.outbound = "waiting" THEN q.queue ELSE <<>>]

(* Mutant: the connection stays registered.                                *)
EndRegistered(c) ==
  /\ registry' = registry
  /\ server' = [server EXCEPT ![c] = Over(@)]

(* finally: the connection is taken out of the registry.  gather leaves    *)
(* the outbound task as it is.                                             *)
End(c) ==
  /\ registry' = registry \ {c}
  /\ server' = [server EXCEPT ![c] = Over(@)]

(* A numbered frame goes out, or the connection is gone and the handler    *)
(* ends.                                                                   *)
Send(c, event, q) ==
  IF Gone(c) THEN End(c) /\ sent' = sent
  ELSE /\ sent' = [sent EXCEPT ![c] = Append(@, [seq |-> q.seq, event |-> event])]
       /\ server' = [server EXCEPT ![c] = q]
       /\ registry' = registry

(* The hello frame.                                                        *)
Hello(c) ==
  /\ server[c].pc = "hello"
  /\ Send(c, 0, [server[c] EXCEPT !.seq = 1, !.pc = "seed"])
  /\ UNCHANGED published /\ Serving

(* The profile cannot be read: the handler ends and its connection with it.*)
HelloFails(c) ==
  /\ server[c].pc = "hello" /\ ~Gone(c) /\ drops < MaxDrops
  /\ registry' = registry \ {c}
  /\ server' = [server EXCEPT ![c] = Over(@)]
  /\ socket' = [socket EXCEPT ![c].state = "closing"]
  /\ Lost(c)
  /\ drops' = drops + 1
  /\ UNCHANGED <<published, frontend, alerts>>

(* Mutant: the outbound task is never made.                                *)
SeedAlone(c) ==
  /\ server[c].pc = "seed"
  /\ IF server[c].seq = Seeds + 1
     THEN /\ server' = [server EXCEPT ![c].pc = "stream"]
          /\ UNCHANGED <<registry, sent>>
     ELSE Send(c, 0, [server[c] EXCEPT !.seq = @ + 1])
  /\ UNCHANGED published /\ Serving

(* The seed events; then the outbound and the inbound task.                *)
Seed(c) ==
  /\ server[c].pc = "seed"
  /\ IF server[c].seq = Seeds + 1
     THEN /\ server' = [server EXCEPT ![c].pc = "stream", ![c].outbound = "waiting"]
          /\ UNCHANGED <<registry, sent>>
     ELSE Send(c, 0, [server[c] EXCEPT !.seq = @ + 1])
  /\ UNCHANGED published /\ Serving

(* Mutant: the newest event goes first.                                    *)
OutboundNewest(c) ==
  LET q == server[c].queue IN
  /\ server[c].outbound = "waiting" /\ q # <<>> /\ server[c].pc = "stream"
  /\ Send(c, q[Len(q)], [server[c] EXCEPT !.queue = SubSeq(q, 1, Len(q) - 1), !.seq = @ + 1])
  /\ UNCHANGED published /\ Serving

(* _outbound: the next event of the queue.  A task whose handler has ended *)
(* takes one event, fails to send it, and dies.                            *)
Outbound(c) ==
  LET q == server[c].queue IN
  /\ server[c].outbound = "waiting" /\ q # <<>>
  /\ IF server[c].pc = "stream" /\ ~Gone(c)
     THEN Send(c, Head(q), [server[c] EXCEPT !.queue = Tail(q), !.seq = @ + 1])
     ELSE /\ registry' = registry \ {c} /\ sent' = sent
          /\ server' = [server EXCEPT ![c] = Over([server[c] EXCEPT !.outbound = "dead"])]
  /\ UNCHANGED published /\ Serving

(* _inbound: an alert is echoed to the user's connections, a disconnect    *)
(* ends the handler.                                                       *)
Inbound(c) ==
  LET q == server[c] IN
  /\ q.pc = "stream" /\ q.inbox # <<>> /\ q.echo = {}
  /\ IF Head(q.inbox) = 0 THEN End(c)
     ELSE /\ server' = [server EXCEPT ![c] = [q EXCEPT !.inbox = Tail(q.inbox), !.echo = registry]]
          /\ registry' = registry
  /\ UNCHANGED <<published, sent>> /\ Serving

(* manager.send: one connection after the other, in any order, then the    *)
(* stale ones are discarded.  The echo has no number.                      *)
Echo(c, d) ==
  /\ server[c].pc = "stream" /\ d \in server[c].echo
  /\ LET q == server[c]
         stale == IF Gone(d) THEN q.stale \cup {d} ELSE q.stale
         last == q.echo = {d} IN
     /\ server' = [server EXCEPT ![c] = [q EXCEPT !.echo = q.echo \ {d}, !.stale = IF last THEN {} ELSE stale]]
     /\ registry' = IF last THEN registry \ stale ELSE registry
  /\ sent' = IF Gone(d) THEN sent ELSE [sent EXCEPT ![d] = Append(@, [seq |-> 0, event |-> 0])]
  /\ UNCHANGED published /\ Serving

Serve(c) == Join(c) \/ Hello(c) \/ Seed(c) \/ Outbound(c) \/ Inbound(c) \/ (\E d \in Conns : Echo(c, d))
Show(c) == OnOpen(c) \/ OnClose(c)
Next ==
  \/ Publish
  \/ \E k \in Clients : Mount(k) \/ Unmount(k) \/ Reconnect(k)
  \/ \E c \in Conns : Serve(c) \/ Show(c) \/ HelloFails(c) \/ Drop(c) \/ Report(c)

(* The event loops of the two sides go on, and timers fire.                *)
Fairness ==
  /\ \A c \in Conns : WF_vars(Serve(c)) /\ WF_vars(Show(c))
  /\ \A k \in Clients : WF_vars(Reconnect(k))
Spec == Init /\ [][Next]_vars /\ Fairness

-----------------------------------------------------------------------------
(* The type invariant.                                                     *)
Handler == [pc : {"none", "hello", "seed", "stream", "ended"}, since : Nat, seq : Nat,
            queue : Seq(Nat), outbound : {"none", "waiting", "dead"}, inbox : Seq({0, 1}),
            echo : SUBSET Conns, stale : SUBSET Conns]
Socket == [state : {"unused", "connecting", "open", "closing", "closed"}, owner : Clients \cup {0}]
Frame == [seq : Nat, event : Nat]
OverlayClient == [closedByUser : BOOLEAN, reconnectTimer : {"none", "set", "cleared"}, ws : Conns \cup {0}]
TypeOK ==
  /\ published \in Nat /\ drops \in Nat /\ alerts \in Nat
  /\ registry \subseteq Conns
  /\ server \in [Conns -> Handler]
  /\ socket \in [Conns -> Socket]
  /\ sent \in [Conns -> Seq(Frame)]
  /\ client \in [Clients -> OverlayClient]
  /\ mounted \subseteq Clients

Running(c) == server[c].pc \in {"hello", "seed", "stream"}

(* The frames that are not echoes have the numbers 1, 2, 3, ..., each once *)
(* and in order.                                                           *)
NumberedWithoutGaps(frames) ==
  \A i \in DOMAIN frames : frames[i].seq # 0 =>
    /\ \A n \in 1 .. frames[i].seq - 1 : \E j \in 1 .. i - 1 : frames[j].seq = n
    /\ \A j \in 1 .. i - 1 : frames[j].seq < frames[i].seq

(* The hello and the seeds carry no event, and the numbers after them the  *)
(* events published since the connection joined.                           *)
EventOf(seq, since) == IF seq <= 1 + Seeds THEN 0 ELSE since + (seq - (1 + Seeds))
EventsInOrder(frames, since) ==
  \A i \in DOMAIN frames : frames[i].event = EventOf(frames[i].seq, since)

(* The queue holds the newest of those events, and the others are sent.    *)
NothingIsMissing(c) ==
  LET Queued == Len(server[c].queue)
      Taken == published - Queued IN
  /\ \A n \in 1 .. Queued : server[c].queue[n] = Taken + n
  /\ \A e \in server[c].since + 1 .. Taken : \E i \in DOMAIN sent[c] : sent[c][i].event = e
  /\ \A i \in DOMAIN sent[c] : sent[c][i].event <= Taken

(* A connection gets the hello, the seeds and then every event published   *)
(* since it joined, once, in order and numbered without gaps, whatever     *)
(* echoes come between; what it has not been sent is still in its queue.   *)
StreamIsWhole ==
  \A c \in Conns :
    /\ NumberedWithoutGaps(sent[c])
    /\ EventsInOrder(sent[c], server[c].since)
    /\ Running(c) /\ ~Gone(c) => NothingIsMissing(c)

(* Only a connection whose handler runs is registered: an alert is never   *)
(* echoed to the ones that are over.                                       *)
RegistryIsLive == \A c \in registry : Running(c)

(* A client that was closed opens no connection any more, a timer pending  *)
(* at its close included, and a mounted App never has two.                 *)
Live(k) == {c \in Conns : socket[c].owner = k /\ socket[c].state \in {"connecting", "open"}}
ClosedStaysClosed ==
  \A k \in Clients : IF k \in mounted THEN \A c, d \in Live(k) : c = d ELSE Live(k) = {}

(* No event stays in the queue of a connection that lasts: with            *)
(* StreamIsWhole, every event is sent.                                     *)
EventsArrive ==
  \A c \in Conns : server[c].queue # <<>> /\ server[c].pc = "stream" ~> server[c].queue = <<>> \/ Gone(c)

(* A mounted App that has lost its connection gets another, as long as     *)
(* there are connections to be had.                                        *)
Recovers ==
  \A k \in Clients : (k \in mounted /\ Live(k) = {}) ~> (k \notin mounted \/ Live(k) # {} \/ Unused = {})
===============================================================================
