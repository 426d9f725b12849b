------------------------------ MODULE AsyncTcp ------------------------------
(***************************************************************************)
(* The server side of AsyncTCP (firmware/lib/AsyncTCP/src/AsyncTCP.cpp).   *)
(*                                                                         *)
(* Two threads share every AsyncClient.  The lwIP thread runs the          *)
(* callbacks of its control blocks (pcb), which post events to a queue;    *)
(* the async_tcp task takes the events and runs the application's          *)
(* callbacks, whose calls into TCP are executed by the lwIP thread while   *)
(* the task waits.  Three devices keep the threads from using what the     *)
(* other has freed: closing a client puts a CLEAR in front of the queue    *)
(* that removes its events; a call carries the client's "closed slot",     *)
(* and lwIP refuses it once the slot is marked; and a call, being served   *)
(* by the lwIP thread, returns only after the callback under way.          *)
(*                                                                         *)
(* AsyncClients are heap addresses, which malloc may give out again;       *)
(* control blocks are numbered in the order of the connections.            *)
(***************************************************************************)
EXTENDS Integers, Sequences, FiniteSets

CONSTANTS
  Addresses,    \* heap addresses an AsyncClient can have
  Connections,  \* bound: connections accepted in a behaviour; the server is
                \* begun as long as there is one to come
  Slots,        \* number of closed slots (16 in the build)
  QueueLength,  \* of _async_queue (256 in the build)
  Traffic       \* bound: segments, acknowledgements and polls in a behaviour

ASSUME TcpAssumption ==
  /\ Connections \in Nat /\ Slots \in Nat /\ QueueLength \in Nat \ {0}
  /\ Traffic \in Nat
\* No AsyncClient is at the null address.
ASSUME AddressAssumption == "none" \notin Addresses

VARIABLES
  server,       \* the server's own control block: _pcb of AsyncServer
  conn,         \* control blocks: state, tcp_arg and segments received so far
  traffic,      \* the count that Traffic bounds
  heap,         \* the AsyncClients
  closedSlots, closedIndex,
  queue,        \* _async_queue
  lwip,         \* the event the callback under way is about to post
  async,        \* the async_tcp task: its point, the event it handles and
                \* the registers of the call it makes
  delivered,    \* history: the segments the application was given
  mishaps,      \* history: the use of a block lwIP freed ("pcb"), or of a
                \* client that is deleted or null ("client")
  causes        \* history: the races and resets a connection met

library == <<closedSlots, closedIndex>>
history == <<delivered, mishaps, causes>>
vars == <<server, conn, traffic, heap, library, queue, lwip, async, history>>

Conn == 1..Connections
None == "none"
NoSlot == -1
\* The server's control block, and the clients: the connection each is for,
\* its control block or 0, its closed slot, and whether it has callbacks.
\* "touched": the block was freed, and end() used it nevertheless.
AsyncServer == {"null", "open", "freed", "touched"}
AsyncClient == [conn: 0..Connections, pcb: 0..Connections, slot: NoSlot..(Slots - 1), hooked: BOOLEAN]
NoClient == [conn |-> 0, pcb |-> 0, slot |-> NoSlot, hooked |-> FALSE]
Event(type, a, p, n) == [type |-> type, arg |-> a, pcb |-> p, n |-> n]
NoEvent == Event(None, None, 0, 0)
Idle == [at |-> "get", ev |-> NoEvent, back |-> "get", pcb |-> 0,
         slot |-> NoSlot, call |-> None, held |-> NoEvent, first |-> NoEvent]

TypeOK ==
  LET Events == [type: {None, "ACCEPT", "RECV", "SENT", "POLL", "FIN", "ERROR", "CLEAR"},
                 arg: Addresses \union {None}, pcb: 0..Connections,
                 n: 0..Traffic]
      Points == {"get", "app", "ack", "check", "unhook", "unrecv", "clear", "close",
                 "abort", "discard", "slot", "call", "first", "putfirst", "rest", "put"}
  IN  /\ server \in AsyncServer
      /\ conn \in [Conn -> [state: {"new", "open", "closed"}, arg: Addresses \union {None},
                            rx: 0..Traffic]]
      /\ traffic \in 0..Traffic
      /\ heap \in [Addresses -> AsyncClient]
      /\ closedSlots \in [0..(Slots - 1) -> Nat] /\ closedIndex \in Nat
      /\ queue \in Seq(Events) /\ Len(queue) <= QueueLength
      /\ lwip \in Events
      /\ async \in [at: Points, ev: Events, back: Points, pcb: 0..Connections,
                    slot: NoSlot..(Slots - 1), call: {None, "write", "recved", "close", "abort"},
                    held: Events, first: Events]
      /\ delivered \in [Conn -> Seq(1..Traffic)]
      /\ mishaps \in [Conn -> SUBSET {"pcb", "client"}]
      /\ causes \in [Conn -> SUBSET {"reset", "fin in a call", "slot given away", "fin in _close",
                                     "fin unhooked", "closed in onData", "rotation",
                                     "address reused", "no slot"}]

Init ==
  /\ server = "null"
  /\ conn = [p \in Conn |-> [state |-> "new", arg |-> None, rx |-> 0]]
  /\ traffic = 0
  /\ heap = [a \in Addresses |-> NoClient]
  /\ closedSlots = [s \in 0..(Slots - 1) |-> 1] /\ closedIndex = 1
  /\ queue = <<>> /\ lwip = NoEvent /\ async = Idle
  /\ delivered = [p \in Conn |-> <<>>]
  /\ mishaps = [p \in Conn |-> {}] /\ causes = [p \in Conn |-> {}]

Noted(f, p, what) == [q \in Conn |-> f[q] \union IF q = p THEN what ELSE {}]
Mishap(p, what) == mishaps' = Noted(mishaps, p, what)
Cause(p, why) == causes' = Noted(causes, p, why)

\* The task goes on elsewhere, with the event it handles.
At(point) == IF point = "get" THEN Idle ELSE [Idle EXCEPT !.at = point, !.ev = async.ev]
Go(point) == async' = At(point)

-----------------------------------------------------------------------------
(* The server, switched by webserver_task.                                 *)

\* While a connection of before holds the port, bind may be refused: the
\* control block is then closed, and _pcb still points to it until end().
Begin ==
  /\ server \in {"null", "touched"} /\ \E p \in Conn : conn[p].state = "new"
  /\ \/ server' = "open"
     \/ server' = "freed" /\ \E p \in Conn : conn[p].state # "new"
  /\ UNCHANGED <<conn, traffic, heap, library, queue, lwip, async, history>>

\* end() leaves the accepted connections alone.  It calls tcp_arg, tcp_accept
\* and tcp_close on the control block, also on the one begin() has closed.
End ==
  /\ server \in {"open", "freed"}
  /\ server' = IF server = "freed" THEN "touched" ELSE "null"
  /\ UNCHANGED <<conn, traffic, heap, library, queue, lwip, async, history>>

-----------------------------------------------------------------------------
(* The lwIP thread: a callback runs when the thread is not in another, and *)
(* its event is posted, in a step of its own, once the queue has room.     *)

\* The slot freed longest ago, the last of several; none when all are in use.
AllocateClosedSlot ==
  LET free == {s \in DOMAIN closedSlots : closedSlots[s] # 0}
      better(s, t) == closedSlots[s] < closedSlots[t] \/ (closedSlots[s] = closedSlots[t] /\ s >= t)
  IN  IF free = {} THEN NoSlot ELSE CHOOSE s \in free : \A t \in free : better(s, t)

\* Mutant of FreeClosedSlot: the slot stays in use.
KeepClosedSlot(s) == UNCHANGED library

FreeClosedSlot(s) ==
  IF s = NoSlot THEN UNCHANGED library
  ELSE /\ closedSlots' = [closedSlots EXCEPT ![s] = closedIndex]
       /\ closedIndex' = closedIndex + 1

\* The events of this address are being removed, or will be.
Cleared(a) == \E e \in {queue[i] : i \in DOMAIN queue} \union {async.ev} :
                e.type = "CLEAR" /\ e.arg = a

\* What a new connection p meets at its address and with its slot, and what
\* the call under way meets with it.
Races(q, p, a, s) ==
  {why \in {"address reused", "no slot", "slot given away"} :
     \/ why = "address reused" /\ q = p /\ Cleared(a)
     \/ why = "no slot" /\ q = p /\ s = NoSlot
     \/ why = "slot given away" /\ q = async.pcb /\ async.at = "call" /\ s # NoSlot /\ s = async.slot}

NewClient(p, s) == [conn |-> p, pcb |-> p, slot |-> s, hooked |-> FALSE]

\* A connection: its AsyncClient is constructed here, its request only when
\* async_tcp handles the event.
Accept ==
  /\ server = "open" /\ lwip = NoEvent
  /\ \E p \in Conn, a \in Addresses :
       LET s == AllocateClosedSlot IN
       /\ conn[p].state = "new" /\ \A q \in 1..(p - 1) : conn[q].state # "new"
       /\ heap[a] = NoClient
       /\ conn' = [conn EXCEPT ![p].state = "open", ![p].arg = a]
       /\ heap' = [heap EXCEPT ![a] = NewClient(p, s)]
       /\ IF s = NoSlot THEN UNCHANGED closedSlots
          ELSE closedSlots' = [closedSlots EXCEPT ![s] = 0]
       /\ lwip' = Event("ACCEPT", a, p, 0)
       /\ causes' = [q \in Conn |-> causes[q] \union Races(q, p, a, s)]
  /\ UNCHANGED <<server, traffic, closedIndex, queue, async, delivered, mishaps>>

Callback(p) == lwip = NoEvent /\ conn[p].state = "open" /\ conn[p].arg # None

Receive(p) ==
  /\ Callback(p) /\ traffic < Traffic /\ traffic' = traffic + 1
  /\ conn' = [conn EXCEPT ![p].rx = @ + 1]
  /\ lwip' = Event("RECV", conn[p].arg, p, conn[p].rx + 1)
  /\ UNCHANGED <<server, heap, library, queue, async, history>>

Tick(p, type) ==
  /\ Callback(p) /\ traffic < Traffic /\ traffic' = traffic + 1
  /\ lwip' = Event(type, conn[p].arg, p, traffic + 1)
  /\ UNCHANGED <<server, conn, heap, library, queue, async, history>>

\* The half-second poll, and the acknowledgement of what was sent.
Poll(p) == Tick(p, "POLL")
Sent(p) == Tick(p, "SENT")

\* The points of _close and of a call at which _pcb has been looked at.
InClose(p) == async.at \in {"unhook", "clear"} /\ heap[async.ev.arg].conn = p

\* The peer closes: lwIP's thread closes the control block itself, marks the
\* slot and takes the control block away from the client, then posts.
Fin(p) ==
  /\ Callback(p)
  /\ conn' = [conn EXCEPT ![p].state = "closed", ![p].arg = None]
  /\ heap' = [heap EXCEPT ![conn[p].arg].pcb = 0, ![conn[p].arg].slot = NoSlot]
  /\ FreeClosedSlot(heap[conn[p].arg].slot)
  /\ lwip' = Event("FIN", conn[p].arg, p, 0)
  /\ Cause(p, IF InClose(p) THEN {"fin in _close"} ELSE {})
  /\ UNCHANGED <<server, traffic, queue, async, delivered, mishaps>>

\* A reset: lwIP frees the control block and says so, no more.
Reset(p) ==
  /\ lwip = NoEvent /\ conn[p].state = "open"
  /\ conn' = [conn EXCEPT ![p].state = "closed", ![p].arg = None]
  /\ lwip' = IF conn[p].arg = None THEN NoEvent ELSE Event("ERROR", conn[p].arg, p, 0)
  /\ Cause(p, {"reset"})
  /\ UNCHANGED <<server, traffic, heap, library, queue, async, delivered, mishaps>>

\* A FIN when tcp_arg has been taken away.  Until tcp_recv's callback has been,
\* too, it is called with a null client, which _s_lwip_fin follows; then lwIP's
\* own closes the control block and frees it.
FinUnhooked(p) ==
  /\ lwip = NoEvent /\ conn[p].state = "open" /\ conn[p].arg = None
  /\ conn' = [conn EXCEPT ![p].state = "closed", ![p].arg = None]
  /\ Cause(p, {"fin unhooked"})
  /\ Mishap(p, IF async.at = "unrecv" /\ heap[async.ev.arg].pcb = p THEN {"client"} ELSE {})
  /\ UNCHANGED <<server, traffic, heap, library, queue, lwip, async, delivered>>

\* Mutant of Post: every event is put in front.
PostInFront ==
  /\ lwip # NoEvent /\ Len(queue) < QueueLength
  /\ queue' = <<lwip>> \o queue
  /\ lwip' = NoEvent
  /\ UNCHANGED <<server, conn, traffic, heap, library, async, history>>

Post ==
  /\ lwip # NoEvent /\ Len(queue) < QueueLength
  /\ queue' = IF lwip.type = "ACCEPT" THEN <<lwip>> \o queue ELSE Append(queue, lwip)
  /\ lwip' = NoEvent
  /\ Cause(lwip.pcb, IF async.at \in {"rest", "put"} THEN {"rotation"} ELSE {})
  /\ UNCHANGED <<server, conn, traffic, heap, library, async, delivered, mishaps>>

\* Mutant of Refused: the call is made whatever its slot says.
NeverRefused(s) == FALSE

\* The check of every _tcp_..._api function.
Refused(s) == s # NoSlot /\ closedSlots[s] # 0

\* A call of the task, executed between two callbacks.  tcp_close may fail
\* for want of memory.
Serve ==
  /\ async.at = "call" /\ lwip = NoEvent
  /\ LET p == async.pcb
         closes == async.call \in {"close", "abort"}
     IN  \/ /\ Refused(async.slot)
            /\ Go(IF async.call = "close" THEN "abort" ELSE async.back)
            /\ UNCHANGED <<conn, mishaps>>
         \/ /\ ~Refused(async.slot)
            /\ Mishap(p, IF conn[p].state = "closed" THEN {"pcb"} ELSE {})
            /\ \/ /\ conn' = IF closes THEN [conn EXCEPT ![p].state = "closed", ![p].arg = None]
                             ELSE conn
                  /\ Go(async.back)
               \/ /\ async.call = "close" /\ UNCHANGED conn
                  /\ Go("abort")
  /\ UNCHANGED <<server, traffic, heap, library, queue, lwip, delivered, causes>>

-----------------------------------------------------------------------------
(* The async_tcp task.                                                     *)

Client == heap[async.ev.arg]
taskOnly == UNCHANGED <<server, conn, traffic, lwip>>

\* The client was deleted, or its address given to another connection.
Deleted == Client.conn # async.ev.pcb

\* The request is constructed, and sets the client's callbacks.
SetCallbacks(a) == heap' = [heap EXCEPT ![a].hooked = TRUE]

\* Takes an event, and goes where _handle_async_event sends it.
Take ==
  /\ async.at = "get" /\ queue # <<>>
  /\ LET e == Head(queue)
         c == heap[e.arg]
         point == CASE e.type = "RECV"   -> IF c.hooked THEN "app" ELSE "ack"
                    [] e.type = "SENT"   -> IF c.hooked THEN "app" ELSE "get"
                    [] e.type = "POLL"   -> IF c.hooked /\ c.pcb = e.pcb THEN "app" ELSE "get"
                    [] e.type = "FIN"    -> "clear"
                    [] e.type = "ERROR"  -> "discard"
                    [] e.type = "CLEAR"  -> "first"
                    [] e.type = "ACCEPT" -> "get"
         stale == c.conn # e.pcb /\ e.type # "CLEAR"
     IN  /\ queue' = Tail(queue)
         /\ async' = IF stale \/ point = "get" THEN Idle ELSE [Idle EXCEPT !.ev = e, !.at = point]
         /\ IF e.type = "ACCEPT" THEN SetCallbacks(e.arg) ELSE UNCHANGED heap
         /\ delivered' = IF e.type = "RECV" /\ ~stale /\ c.hooked
                         THEN [delivered EXCEPT ![e.pcb] = Append(@, e.n)] ELSE delivered
         /\ Mishap(e.pcb, IF stale THEN {"client"} ELSE {})
  /\ taskOnly /\ UNCHANGED <<library, causes>>

StartCall(call, back) ==
  async' = [async EXCEPT !.at = "slot", !.pcb = Client.pcb, !.call = call, !.back = back]

\* After the application's callback, _recv acknowledges the data.
AfterApp == IF async.ev.type = "RECV" THEN "ack" ELSE "get"

\* The application's callback, onData, onAck or onPoll: returns, or makes a
\* call (those it makes are alike), or closes, as the timeouts of _poll do.
AppReturns == /\ async.at = "app" /\ Go(AfterApp)
              /\ taskOnly /\ UNCHANGED <<heap, library, queue, history>>

AppWrites == /\ async.at = "app" /\ Client.pcb # 0 /\ StartCall("write", AfterApp)
             /\ taskOnly /\ UNCHANGED <<heap, library, queue, history>>

\* close() acknowledges what is left, if there is a control block, then
\* _close() looks again.
AppCloses ==
  /\ async.at = "app"
  /\ IF Client.pcb = 0 THEN Go("check") ELSE StartCall("recved", "check")
  /\ Cause(async.ev.pcb, IF async.ev.type = "RECV" THEN {"closed in onData"} ELSE {})
  /\ taskOnly /\ UNCHANGED <<heap, library, queue, delivered, mishaps>>

\* The second argument of a call is read after the first.
ReadSlot ==
  /\ async.at = "slot"
  /\ async' = IF async.pcb = 0 THEN At(async.back)
              ELSE [async EXCEPT !.at = "call", !.slot = Client.slot]
  /\ Cause(async.pcb, IF async.pcb # 0 /\ Client.pcb = 0 THEN {"fin in a call"} ELSE {})
  /\ taskOnly /\ UNCHANGED <<heap, library, queue, delivered, mishaps>>

\* _recv, back from onData, looks at the client's fields.
Ack ==
  /\ async.at = "ack"
  /\ Mishap(async.ev.pcb, IF Deleted THEN {"client"} ELSE {})
  /\ IF Deleted \/ Client.pcb = 0 THEN Go("get") ELSE StartCall("recved", "get")
  /\ taskOnly /\ UNCHANGED <<heap, library, queue, delivered, causes>>

Check ==
  /\ async.at = "check"
  /\ Go(IF Client.pcb = 0 THEN AfterApp ELSE "unhook")
  /\ taskOnly /\ UNCHANGED <<heap, library, queue, history>>

\* From this thread, tcp_arg on the control block, then tcp_recv with tcp_sent,
\* tcp_err and tcp_poll.  The events lwIP posts between them have no client,
\* and the task passes over them: they are left out.
Unhook ==
  /\ \/ async.at = "unhook" /\ Go("unrecv")
     \/ async.at = "unrecv" /\ Go("clear")
  /\ LET p == Client.pcb IN
     IF p = 0 THEN UNCHANGED <<conn, mishaps>>
     ELSE /\ Mishap(p, IF conn[p].state = "closed" THEN {"pcb"} ELSE {})
          /\ conn' = [conn EXCEPT ![p].arg = None]
  /\ UNCHANGED <<server, traffic, heap, library, queue, lwip, delivered, causes>>

\* _fin goes on to the end of the client, _close to lwIP's tcp_close.
AfterClear == IF async.ev.type = "FIN" THEN "discard" ELSE "close"

\* Mutant of Clear: the client's events stay in the queue.
ClearNothing ==
  /\ async.at = "clear" /\ Go(AfterClear)
  /\ taskOnly /\ UNCHANGED <<heap, library, queue, history>>

\* _tcp_clear_events.
Clear ==
  /\ async.at = "clear" /\ Len(queue) < QueueLength
  /\ queue' = <<Event("CLEAR", async.ev.arg, async.ev.pcb, 0)>> \o queue
  /\ Go(AfterClear)
  /\ taskOnly /\ UNCHANGED <<heap, library, history>>

Close == /\ async.at = "close" /\ StartCall("close", "discard")
         /\ taskOnly /\ UNCHANGED <<heap, library, queue, history>>

\* The close was refused, or failed.
Abort ==
  /\ async.at = "abort"
  /\ IF Client.pcb = 0 THEN Go("discard") ELSE StartCall("abort", "discard")
  /\ taskOnly /\ UNCHANGED <<heap, library, queue, history>>

\* Mutant of Discard: the client is left on the heap.
DiscardKeeps ==
  /\ async.at = "discard" /\ Go(IF async.ev.type \in {"FIN", "ERROR"} THEN "get" ELSE AfterApp)
  /\ heap' = [heap EXCEPT ![async.ev.arg].pcb = 0]
  /\ taskOnly /\ UNCHANGED <<library, queue, history>>

\* _pcb = NULL and _discard_cb: the request and the client are deleted, and
\* the destructor frees the slot; nobody deletes a client whose request is not
\* there yet.  _error first takes tcp_arg away.
Discard ==
  /\ async.at = "discard"
  /\ Go(IF async.ev.type \in {"FIN", "ERROR"} THEN "get" ELSE AfterApp)
  /\ Mishap(async.ev.pcb, IF async.ev.type = "ERROR" /\ Client.pcb # 0 THEN {"pcb"} ELSE {})
  /\ IF Client.hooked
     THEN FreeClosedSlot(Client.slot) /\ heap' = [heap EXCEPT ![async.ev.arg] = NoClient]
     ELSE UNCHANGED library /\ heap' = [heap EXCEPT ![async.ev.arg].pcb = 0]
  /\ taskOnly /\ UNCHANGED <<queue, delivered, causes>>

\* _remove_events_with_arg turns the queue over once: the first event that
\* stays marks the end of the round, and every event is received and, unless
\* it is the client's, sent again to the back.  Nothing keeps lwIP from
\* posting meanwhile.
Matches(e) == e.type # "ACCEPT" /\ e.arg = async.ev.arg

TurnFirst ==
  /\ async.at = "first"
  /\ \/ queue = <<>> /\ Go("get") /\ UNCHANGED queue
     \/ /\ queue # <<>> /\ queue' = Tail(queue)
        /\ async' = IF Matches(Head(queue)) THEN async
                    ELSE [async EXCEPT !.at = "putfirst", !.held = Head(queue), !.first = Head(queue)]
  /\ taskOnly /\ UNCHANGED <<heap, library, history>>

TurnNext ==
  /\ async.at = "rest"
  /\ \/ (queue = <<>> \/ Head(queue) = async.first) /\ Go("get") /\ UNCHANGED queue
     \/ /\ queue # <<>> /\ Head(queue) # async.first /\ queue' = Tail(queue)
        /\ async' = IF Matches(Head(queue)) THEN async
                    ELSE [async EXCEPT !.at = "put", !.held = Head(queue)]
  /\ taskOnly /\ UNCHANGED <<heap, library, history>>

PutBack ==
  /\ async.at \in {"putfirst", "put"} /\ Len(queue) < QueueLength
  /\ queue' = Append(queue, async.held)
  /\ async' = [async EXCEPT !.at = "rest", !.held = NoEvent]
  /\ taskOnly /\ UNCHANGED <<heap, library, history>>

-----------------------------------------------------------------------------
Task == \/ Take \/ AppReturns \/ AppWrites \/ AppCloses \/ ReadSlot \/ Ack \/ Check \/ Unhook
        \/ Clear \/ Close \/ Abort \/ Discard \/ TurnFirst \/ TurnNext \/ PutBack

Peer == Accept \/ \E p \in Conn : Receive(p) \/ Poll(p) \/ Sent(p) \/ Fin(p) \/ FinUnhooked(p) \/ Reset(p)

Next == Begin \/ End \/ Peer \/ Post \/ Serve \/ Task

\* Both threads go on as long as they can; nothing is assumed of the peers.
Spec == Init /\ [][Next]_vars /\ WF_vars(Post) /\ WF_vars(Serve) /\ WF_vars(Task)

-----------------------------------------------------------------------------
(* Properties.                                                             *)

Excused(p, why) == causes[p] \intersect why # {}

BlocksLeftAlone ==
  \A p \in Conn : "pcb" \in mishaps[p] =>
    Excused(p, {"reset", "fin in a call", "fin unhooked", "slot given away", "no slot"})

ServerLeftAlone == server = "touched" => \E p \in Conn : conn[p].state # "new"

\* What lwIP freed is not touched again, but for the races named: a reset,
\* which no slot reports, nor a FIN once _close has taken tcp_arg away; a FIN
\* between the two arguments of a call; a slot given to another client under a
\* call.  The server's block is, by end(), only where a connection of before
\* held the port.
FreedBlocksAreLeftAlone == BlocksLeftAlone /\ ServerLeftAlone

\* A deleted client, or none, is not used, but after a FIN inside _close, or
\* when the application closes from onData, or its events were out of order.
DeletedClientsAreLeftAlone ==
  \A p \in Conn : "client" \in mishaps[p] =>
    Excused(p, {"fin in _close", "fin unhooked", "closed in onData", "rotation"})

\* The application is given what the peer sent, from the start and in order,
\* unless lwIP posted while the task turned the queue over (the comment in
\* _remove_events_with_arg means to keep the order), or the events of the
\* address were removed for an earlier client.
GivenInOrder(p) == \A i \in DOMAIN delivered[p] : delivered[p][i] = i

DataInOrderUnlessOvertaken ==
  \A p \in Conn : GivenInOrder(p) \/ Excused(p, {"rotation", "address reused"})

\* A closed slot is marked in use by the one client that has it: none leaks,
\* and no two clients share one.
SlotsAccounted ==
  \A s \in DOMAIN closedSlots :
    Cardinality({a \in Addresses : heap[a].slot = s}) = IF closedSlots[s] = 0 THEN 1 ELSE 0

\* The two invariants about what there is at any moment: types, the length of
\* the queue among them, and slots.
SlotsInv == TypeOK /\ SlotsAccounted

\* The queue is full, and the task, which alone empties it, waits for room in
\* it or for the lwIP thread, which does.
Stuck == /\ Len(queue) = QueueLength
         /\ \/ async.at \in {"clear", "putfirst", "put"}
            \/ async.at = "call" /\ lwip # NoEvent

\* When a connection has ended its client is deleted, with its request.
EndedClientsAreDeleted ==
  \A p \in Conn :
    conn[p].state = "closed" ~>
      \/ \A a \in Addresses : heap[a].conn # p
      \/ Stuck \/ Excused(p, {"rotation", "address reused"})

=============================================================================
