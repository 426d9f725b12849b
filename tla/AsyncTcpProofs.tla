--------------------------- MODULE AsyncTcpProofs ---------------------------
(***************************************************************************)
(* Proofs about AsyncTcp: slots and blocks first, then the order of the    *)
(* events, and what follows from it for deleted clients and for the data;  *)
(* for any number of connections, slots, addresses and any room in the     *)
(* event queue.                                                            *)
(***************************************************************************)
EXTENDS AsyncTcp, SequenceTheorems, FiniteSetTheorems, WellFoundedInduction, TLAPS

-----------------------------------------------------------------------------
(* Types.                                                                  *)

Apps == {"RECV", "SENT", "POLL"}
Ends == {"FIN", "ERROR"}
Events == {e \in [type : Apps \union Ends \union {"ACCEPT", "CLEAR"}, arg : Addresses, pcb : Conn, n : 0..Traffic] :
             /\ e.type = "RECV" => e.n # 0
             /\ e.type \notin Apps => e.n = 0}
OrNone == Events \union {NoEvent}
Turning == {"first", "putfirst", "rest", "put"}
Closing == {"unrecv", "clear", "close", "abort", "discard"}
Calling == {"slot", "call"}
Points == {"get", "app", "ack", "check", "unhook"} \union Closing \union Calling \union Turning
Calls == {"write", "recved", "close", "abort"}
AsyncTask == [at : Points, ev : OrNone, back : {"get", "ack", "check", "discard"}, pcb : 0..Connections,
              slot : NoSlot..(Slots - 1), call : Calls \union {None}, held : OrNone, first : OrNone]
Causes == {"reset", "fin in a call", "slot given away", "fin in _close", "fin unhooked",
           "closed in onData", "rotation", "address reused", "no slot"}
Block == [state : {"new", "open", "closed"}, arg : Addresses \union {None}, rx : 0..Traffic]

\* What the task does at a point goes with the event it handles.
Fits(type, at) ==
  \/ type \in Apps /\ at \in {"app", "check", "unhook"} \union Closing \union Calling
  \/ type = "RECV" /\ at = "ack"
  \/ type = "FIN" /\ at \in {"clear", "discard"}
  \/ type = "ERROR" /\ at = "discard"
  \/ type = "CLEAR" /\ at \in Turning

Registers ==
  /\ IF async.at = "get" THEN async.ev = NoEvent ELSE async.ev \in Events /\ Fits(async.ev.type, async.at)
  /\ async.at \in Calling =>
       /\ async.call # None
       /\ IF async.call \in {"close", "abort"} THEN async.back = "discard" ELSE async.back # "discard"
       /\ async.back = "ack" => async.ev.type = "RECV"
  /\ async.at = "call" => async.pcb # 0
  /\ IF async.at \in {"putfirst", "put"} THEN async.held \in Events ELSE async.held = NoEvent
  /\ async.at \in {"putfirst", "put", "rest"} => async.first \in Events
  /\ async.at = "putfirst" => async.held = async.first

TypeInv ==
  /\ server \in AsyncServer
  /\ conn \in [Conn -> Block] /\ \A p \in Conn : conn[p].rx <= traffic
  /\ traffic \in 0..Traffic
  /\ heap \in [Addresses -> AsyncClient]
  /\ closedSlots \in [0..(Slots - 1) -> Nat] /\ closedIndex \in Nat \ {0}
  /\ queue \in Seq(Events) /\ Len(queue) <= QueueLength
  /\ lwip \in OrNone
  /\ async \in AsyncTask /\ Registers
  /\ delivered \in [Conn -> Seq(1..Traffic)]
  /\ mishaps \in [Conn -> SUBSET {"pcb", "client"}]
  /\ causes \in [Conn -> SUBSET Causes]

-----------------------------------------------------------------------------
(* Clients and control blocks.                                             *)

\* The task closes the client, and has taken tcp_arg away.
IsClosing == async.at \in Closing \/ (async.at \in Calling /\ async.call \in {"close", "abort"})
HasClient == async.at \notin {"get", "ack"} \union Turning

ClientLinks ==
  /\ \A p \in Conn : conn[p].arg # None =>
       conn[p].state = "open" /\ heap[conn[p].arg].conn = p /\ heap[conn[p].arg].pcb = p
  /\ \A a \in Addresses :
       /\ heap[a].pcb \in {0, heap[a].conn}
       /\ heap[a].conn = 0 => heap[a].slot = NoSlot
       /\ heap[a].conn # 0 => conn[heap[a].conn].state # "new"
  /\ \A a, b \in Addresses : heap[a].conn = heap[b].conn /\ heap[a].conn # 0 => a = b

TaskLinks ==
  /\ HasClient => heap[async.ev.arg].conn = async.ev.pcb
  /\ async.at \in Calling => async.pcb \in {0, async.ev.pcb}
  /\ IsClosing => conn[async.ev.pcb].arg = None

Links == ClientLinks /\ TaskLinks

\* An event that waits: in the queue, about to be posted, or in the task's hands.
Waits(e) == (\E i \in 1..Len(queue) : queue[i] = e) \/ e = lwip \/ e = async.held
EventFits(e) ==
  /\ conn[e.pcb].state # "new"
  /\ e.type = "RECV" => e.n <= conn[e.pcb].rx
  /\ e.type \in {"SENT", "POLL"} => e.n <= traffic
  /\ e.type \in Ends => conn[e.pcb].state = "closed"
  /\ e.type = "ERROR" => "reset" \in causes[e.pcb]
EventsFit == \A e \in Events : Waits(e) \/ e = async.ev => EventFits(e)

SlotsOwned ==
  \A s \in 0..(Slots - 1) :
    IF closedSlots[s] = 0 THEN \E a \in Addresses : heap[a].slot = s /\ \A b \in Addresses \ {a} : heap[b].slot # s
    ELSE \A a \in Addresses : heap[a].slot # s

-----------------------------------------------------------------------------
(* Freed control blocks.                                                   *)

FreedExcuse == {"reset", "fin in a call", "fin unhooked", "slot given away", "no slot"}

\* A client whose block is closed was reset, or _close had taken its tcp_arg
\* away, or it is about to be discarded.
BlocksClosed ==
  \A a \in Addresses :
    heap[a].pcb # 0 /\ conn[heap[a].pcb].state = "closed" =>
      \/ "reset" \in causes[heap[a].pcb] \/ "fin unhooked" \in causes[heap[a].pcb]
      \/ (async.at = "discard" /\ async.ev.arg = a)
SlotsGiven ==
  \A a \in Addresses : heap[a].pcb # 0 /\ heap[a].slot = NoSlot => "no slot" \in causes[heap[a].pcb]

\* The call carries the slot of the client, or of a client that lost its block,
\* and then the slot is marked.
CallChecked ==
  LET c == heap[async.ev.arg] IN
  \/ Excused(async.pcb, FreedExcuse)
  \/ async.slot # NoSlot /\ c.pcb = async.pcb /\ c.slot = async.slot
  \/ async.slot # NoSlot /\ c.pcb = 0 /\ closedSlots[async.slot] # 0

FreedFollows ==
  /\ BlocksClosed /\ SlotsGiven
  /\ async.at = "call" => CallChecked
  /\ BlocksLeftAlone

-----------------------------------------------------------------------------
(* The queue, and the registers of the task.                               *)

LEMMA AppendQueue ==
  ASSUME queue \in Seq(Events), NEW e \in Events, queue' = Append(queue, e)
  PROVE  /\ queue' \in Seq(Events) /\ Len(queue) \in Nat /\ Len(queue') = Len(queue) + 1
         /\ queue'[Len(queue) + 1] = e
         /\ \A i \in 1..Len(queue) : queue'[i] = queue[i]
BY SMT, AppendProperties, LenProperties

LEMMA PrependQueue ==
  ASSUME queue \in Seq(Events), NEW e \in Events, queue' = <<e>> \o queue
  PROVE  /\ queue' \in Seq(Events) /\ Len(queue) \in Nat /\ Len(queue') = Len(queue) + 1
         /\ queue'[1] = e
         /\ \A i \in 2..Len(queue') : queue'[i] = queue[i - 1]
<1>1. <<e>> \in Seq(Events) /\ Len(<<e>>) = 1 /\ <<e>>[1] = e
  BY SMT
<1>2. Len(queue) \in Nat
  BY LenProperties
<1>3. /\ queue' \in Seq(Events) /\ Len(queue') = Len(<<e>>) + Len(queue)
      /\ \A i \in 1..(Len(<<e>>) + Len(queue)) :
           queue'[i] = IF i <= Len(<<e>>) THEN <<e>>[i] ELSE queue[i - Len(<<e>>)]
  BY <1>1, ConcatProperties, Zenon
<1> QED BY SMT, <1>1, <1>2, <1>3

LEMMA TailQueue ==
  ASSUME queue \in Seq(Events), queue # <<>>, queue' = Tail(queue)
  PROVE  /\ Head(queue) = queue[1] /\ queue[1] \in Events
         /\ queue' \in Seq(Events) /\ Len(queue') = Len(queue) - 1 /\ Len(queue) \in Nat \ {0}
         /\ \A i \in 1..Len(queue') : queue'[i] = queue[i + 1]
<1>1. Len(queue) \in Nat /\ Len(queue) # 0
  BY EmptySeq, LenProperties
<1>2. Head(queue) = queue[1] /\ queue[1] \in Events
  BY SMT, <1>1, ElementOfSeq
<1>3. queue' \in Seq(Events) /\ Len(queue') = Len(queue) - 1 /\ \A i \in 1..Len(queue') : queue'[i] = queue[i + 1]
  BY SMT, <1>1, HeadTailProperties
<1> QED BY <1>1, <1>2, <1>3, SMT

\* Nothing is an event of none.
LEMMA EventParts ==
  ASSUME NEW e \in Events
  PROVE  /\ e.arg \in Addresses /\ e.arg # None /\ e.pcb \in Conn /\ e.pcb \in Nat \ {0} /\ e # NoEvent
         /\ e.type \in Apps \union Ends \union {"ACCEPT", "CLEAR"}
         /\ e.n \in 0..Traffic /\ (e.type = "RECV" => e.n \in 1..Traffic)
         /\ (e.type \notin Apps => e.n = 0)
BY SMT, AddressAssumption, TcpAssumption DEF Events, Conn, None, NoEvent, Event

LEMMA NewEvent ==
  ASSUME NEW type \in Apps \union Ends \union {"ACCEPT", "CLEAR"}, NEW a \in Addresses, NEW p \in Conn,
         NEW n \in 0..Traffic, type = "RECV" => n # 0, type \notin Apps => n = 0
  PROVE  Event(type, a, p, n) \in Events
BY DEF Event, Events

LEMMA NoEventParts ==
  /\ NoEvent.type = None /\ NoEvent.arg = None /\ NoEvent.pcb = 0 /\ NoEvent \notin Events /\ NoEvent \in OrNone
  /\ None \notin Apps \union Ends \union {"ACCEPT", "CLEAR"}
BY EventParts DEF NoEvent, Event, None, Apps, Ends, OrNone

LEMMA IdleIs ==
  /\ Idle \in AsyncTask /\ Idle.at = "get" /\ Idle.ev = NoEvent /\ Idle.back = "get" /\ Idle.pcb = 0
  /\ Idle.slot = NoSlot /\ Idle.call = None /\ Idle.held = NoEvent /\ Idle.first = NoEvent
BY SMT, NoEventParts, TcpAssumption DEF Idle, AsyncTask, Points, NoSlot

\* A register is set, the others stay.
SameBut(r, q, fields) == \A f \in {"at", "ev", "back", "pcb", "slot", "call", "held", "first"} \ fields : r[f] = q[f]

LEMMA WithAt ==
  ASSUME NEW r \in AsyncTask, NEW v \in Points
  PROVE  [r EXCEPT !.at = v] \in AsyncTask /\ [r EXCEPT !.at = v].at = v /\ SameBut([r EXCEPT !.at = v], r, {"at"})
BY SMT DEF AsyncTask, SameBut

LEMMA WithEv ==
  ASSUME NEW r \in AsyncTask, NEW v \in OrNone
  PROVE  [r EXCEPT !.ev = v] \in AsyncTask /\ [r EXCEPT !.ev = v].ev = v /\ SameBut([r EXCEPT !.ev = v], r, {"ev"})
BY SMT DEF AsyncTask, SameBut

LEMMA WithBack ==
  ASSUME NEW r \in AsyncTask, NEW v \in {"get", "ack", "check", "discard"}
  PROVE  [r EXCEPT !.back = v] \in AsyncTask /\ [r EXCEPT !.back = v].back = v /\ SameBut([r EXCEPT !.back = v], r, {"back"})
BY SMT DEF AsyncTask, SameBut

LEMMA WithPcb ==
  ASSUME NEW r \in AsyncTask, NEW v \in 0..Connections
  PROVE  [r EXCEPT !.pcb = v] \in AsyncTask /\ [r EXCEPT !.pcb = v].pcb = v /\ SameBut([r EXCEPT !.pcb = v], r, {"pcb"})
BY SMT DEF AsyncTask, SameBut

LEMMA WithSlot ==
  ASSUME NEW r \in AsyncTask, NEW v \in NoSlot..(Slots - 1)
  PROVE  [r EXCEPT !.slot = v] \in AsyncTask /\ [r EXCEPT !.slot = v].slot = v /\ SameBut([r EXCEPT !.slot = v], r, {"slot"})
BY SMT DEF AsyncTask, SameBut

LEMMA WithCall ==
  ASSUME NEW r \in AsyncTask, NEW v \in Calls \union {None}
  PROVE  [r EXCEPT !.call = v] \in AsyncTask /\ [r EXCEPT !.call = v].call = v /\ SameBut([r EXCEPT !.call = v], r, {"call"})
BY SMT DEF AsyncTask, SameBut

LEMMA WithHeld ==
  ASSUME NEW r \in AsyncTask, NEW v \in OrNone
  PROVE  [r EXCEPT !.held = v] \in AsyncTask /\ [r EXCEPT !.held = v].held = v /\ SameBut([r EXCEPT !.held = v], r, {"held"})
BY SMT DEF AsyncTask, SameBut

LEMMA WithFirst ==
  ASSUME NEW r \in AsyncTask, NEW v \in OrNone
  PROVE  [r EXCEPT !.first = v] \in AsyncTask /\ [r EXCEPT !.first = v].first = v /\ SameBut([r EXCEPT !.first = v], r, {"first"})
BY SMT DEF AsyncTask, SameBut

\* Where Go leads.
LEMMA GoDoes ==
  ASSUME async \in AsyncTask, NEW point \in Points, Go(point)
  PROVE  /\ async' \in AsyncTask /\ async'.at = point
         /\ async'.ev = IF point = "get" THEN NoEvent ELSE async.ev
         /\ async'.back = "get" /\ async'.pcb = 0 /\ async'.slot = NoSlot /\ async'.call = None
         /\ async'.held = NoEvent /\ async'.first = NoEvent
<1>1. CASE point = "get"
  BY <1>1, IdleIs DEF Go, At
<1>2. CASE point # "get"
  <2> DEFINE r == [Idle EXCEPT !.at = point]
  <2>1. async' = [r EXCEPT !.ev = async.ev] /\ async.ev \in OrNone
    BY <1>2 DEF Go, At, AsyncTask
  <2>2. r \in AsyncTask /\ r.at = point /\ SameBut(r, Idle, {"at"})
    BY IdleIs, WithAt
  <2> HIDE DEF r
  <2>3. async' \in AsyncTask /\ async'.ev = async.ev /\ SameBut(async', r, {"ev"})
    BY <2>1, <2>2, WithEv
  <2> QED BY <1>2, <2>2, <2>3, IdleIs DEF SameBut
<1> QED BY <1>1, <1>2

LEMMA StartCallDoes ==
  ASSUME async \in AsyncTask, NEW call \in Calls, NEW back \in {"get", "ack", "check", "discard"},
         Client.pcb \in 0..Connections, StartCall(call, back)
  PROVE  /\ async' \in AsyncTask /\ async'.at = "slot" /\ async'.ev = async.ev /\ async'.back = back
         /\ async'.pcb = Client.pcb /\ async'.slot = async.slot /\ async'.call = call
         /\ async'.held = async.held /\ async'.first = async.first
<1> DEFINE r == [async EXCEPT !.at = "slot"]
           s == [r EXCEPT !.pcb = Client.pcb]
           t == [s EXCEPT !.call = call]
<1>1. async' = [t EXCEPT !.back = back]
  BY DEF StartCall
<1>2. r \in AsyncTask /\ r.at = "slot" /\ SameBut(r, async, {"at"})
  BY WithAt DEF Points, Calling
<1> HIDE DEF r
<1>3. s \in AsyncTask /\ s.pcb = Client.pcb /\ SameBut(s, r, {"pcb"})
  BY <1>2, WithPcb
<1> HIDE DEF s
<1>4. t \in AsyncTask /\ t.call = call /\ SameBut(t, s, {"call"})
  BY <1>3, WithCall
<1> HIDE DEF t
<1>5. async' \in AsyncTask /\ async'.back = back /\ SameBut(async', t, {"back"})
  BY <1>1, <1>4, WithBack
<1> QED BY <1>2, <1>3, <1>4, <1>5 DEF SameBut

LEMMA CauseDoes ==
  ASSUME causes \in [Conn -> SUBSET Causes], NEW p, NEW why \in SUBSET Causes, Cause(p, why)
  PROVE  /\ causes' \in [Conn -> SUBSET Causes]
         /\ \A q \in Conn : causes'[q] = causes[q] \union IF q = p THEN why ELSE {}
BY DEF Cause, Noted

LEMMA MishapDoes ==
  ASSUME mishaps \in [Conn -> SUBSET {"pcb", "client"}], NEW p, NEW what \in SUBSET {"pcb", "client"}, Mishap(p, what)
  PROVE  /\ mishaps' \in [Conn -> SUBSET {"pcb", "client"}]
         /\ \A q \in Conn : mishaps'[q] = mishaps[q] \union IF q = p THEN what ELSE {}
BY DEF Mishap, Noted

-----------------------------------------------------------------------------
(* The closed slots.                                                       *)

\* Of some natural numbers one is the least.
LEMMA LeastIs == ASSUME NEW S \in SUBSET Nat, S # {} PROVE \E n \in S : \A m \in S : n <= m
<1> DEFINE R == {ss \in Nat \X Nat : ss[1] < ss[2]}
<1>1. IsWellFoundedOn(R, Nat)
  BY NatLessThanWellFounded DEF OpToRel
<1>2. PICK n \in S : \A m \in S : ~ (<<m, n>> \in R)
  <2> HIDE DEF R
  <2> QED BY <1>1, WFMin
<1>3. \A m \in S : m < n => <<m, n>> \in R
  BY SMT
<1>4. \A m \in S : ~ (m < n)
  BY <1>2, <1>3
<1> QED BY SMT, <1>4

\* A slot is given out that no client has, or none when all are in use.
LEMMA AllocateDoes ==
  ASSUME closedSlots \in [0..(Slots - 1) -> Nat], NEW s, s = AllocateClosedSlot
  PROVE  /\ s \in NoSlot..(Slots - 1)
         /\ s # NoSlot => s \in 0..(Slots - 1) /\ closedSlots[s] # 0
<1> DEFINE free == {u \in DOMAIN closedSlots : closedSlots[u] # 0}
           better(u, t) == closedSlots[u] < closedSlots[t] \/ (closedSlots[u] = closedSlots[t] /\ u >= t)
<1>1. DOMAIN closedSlots = 0..(Slots - 1) /\ free \subseteq 0..(Slots - 1) /\ 0..(Slots - 1) \subseteq Nat
  BY SMT, TcpAssumption
<1>2. CASE free = {}
  <2>1. s = NoSlot
    BY <1>2 DEF AllocateClosedSlot
  <2> QED BY SMT, <2>1, TcpAssumption DEF NoSlot
<1>3. CASE free # {}
  <2> DEFINE Times == {closedSlots[u] : u \in free}
  <2>1. Times \in SUBSET Nat /\ Times # {}
    BY <1>1, <1>3
  <2>2. PICK n \in Times : \A m \in Times : n <= m
    BY <2>1, LeastIs
  <2> DEFINE Last == {Slots - 1 - u : u \in {v \in free : closedSlots[v] = n}}
  <2>3. Last \in SUBSET Nat /\ Last # {}
    <3>1. \A u \in free : Slots - 1 - u \in Nat
      BY SMT, <1>1, TcpAssumption
    <3>2. \E v \in free : closedSlots[v] = n
      BY <2>2
    <3> QED BY <3>1, <3>2
  <2>4. PICK k \in Last : \A m \in Last : k <= m
    BY <2>3, LeastIs
  <2>5. PICK u \in free : closedSlots[u] = n /\ k = Slots - 1 - u
    BY <2>4
  <2>6. \A t \in free : better(u, t)
    <3> SUFFICES ASSUME NEW t \in free PROVE better(u, t)
      OBVIOUS
    <3>1. closedSlots[t] \in Times /\ n <= closedSlots[t] /\ n \in Nat /\ closedSlots[t] \in Nat
      BY <2>1, <2>2
    <3>2. CASE closedSlots[t] = n
      <4>1. Slots - 1 - t \in Last /\ k <= Slots - 1 - t
        BY <2>4, <3>2
      <4>2. u >= t
        BY SMT, <1>1, <2>5, <4>1, TcpAssumption
      <4> QED BY <2>5, <3>2, <4>2
    <3>3. CASE closedSlots[t] # n
      <4>1. n < closedSlots[t]
        BY SMT, <3>1, <3>3
      <4> QED BY <2>5, <4>1
    <3> QED BY <3>2, <3>3
  <2>7. s = CHOOSE v \in free : \A t \in free : better(v, t)
    BY <1>3 DEF AllocateClosedSlot
  <2> HIDE DEF better
  <2>8. s \in free
    BY <2>5, <2>6, <2>7
  <2>9. s \in 0..(Slots - 1) /\ closedSlots[s] # 0
    BY <1>1, <2>8
  <2>10. 0..(Slots - 1) \subseteq NoSlot..(Slots - 1)
    BY SMT, TcpAssumption DEF NoSlot
  <2> QED BY <2>9, <2>10
<1> QED BY <1>2, <1>3

LEMMA FreeDoes ==
  ASSUME closedSlots \in [0..(Slots - 1) -> Nat], closedIndex \in Nat \ {0}, NEW s \in NoSlot..(Slots - 1), FreeClosedSlot(s)
  PROVE  /\ closedSlots' \in [0..(Slots - 1) -> Nat] /\ closedIndex' \in Nat \ {0}
         /\ s # NoSlot => s \in 0..(Slots - 1) /\ closedSlots'[s] # 0
         /\ \A t \in 0..(Slots - 1) : t # s => closedSlots'[t] = closedSlots[t]
<1>1. CASE s = NoSlot
  BY <1>1 DEF FreeClosedSlot, library
<1>2. CASE s # NoSlot
  <2>1. closedSlots' = [closedSlots EXCEPT ![s] = closedIndex] /\ closedIndex' = closedIndex + 1
    BY <1>2 DEF FreeClosedSlot
  <2>2. s \in 0..(Slots - 1)
    BY SMT, <1>2, TcpAssumption DEF NoSlot
  <2>3. closedIndex' \in Nat \ {0}
    BY SMT, <2>1
  <2> QED BY <2>1, <2>2, <2>3
<1> QED BY <1>1, <1>2

-----------------------------------------------------------------------------
(* Clients and control blocks.                                             *)

LEMMA HeapWith ==
  ASSUME heap \in [Addresses -> AsyncClient], NEW a \in Addresses, NEW c \in AsyncClient,
         heap' = [heap EXCEPT ![a] = c]
  PROVE  heap' \in [Addresses -> AsyncClient] /\ heap'[a] = c /\ \A b \in Addresses \ {a} : heap'[b] = heap[b]
BY Zenon

LEMMA ClientIs ==
  ASSUME NEW c \in AsyncClient
  PROVE  /\ c.conn \in 0..Connections /\ c.pcb \in 0..Connections /\ c.slot \in NoSlot..(Slots - 1) /\ c.hooked \in BOOLEAN
         /\ c.conn # 0 => c.conn \in Conn
         /\ c.pcb # 0 => c.pcb \in Conn
BY SMT, TcpAssumption DEF AsyncClient, Conn

LEMMA NoClientIs ==
  NoClient \in AsyncClient /\ NoClient.conn = 0 /\ NoClient.pcb = 0 /\ NoClient.slot = NoSlot /\ NoClient.hooked = FALSE
BY SMT, TcpAssumption DEF NoClient, AsyncClient, NoSlot

LEMMA NewClientIs ==
  ASSUME NEW p \in Conn, NEW s \in NoSlot..(Slots - 1)
  PROVE  /\ NewClient(p, s) \in AsyncClient /\ NewClient(p, s).conn = p /\ NewClient(p, s).pcb = p
         /\ NewClient(p, s).slot = s /\ NewClient(p, s).hooked = FALSE
BY SMT, TcpAssumption DEF NewClient, AsyncClient, Conn

LEMMA LosesBlock ==
  ASSUME NEW c \in AsyncClient
  PROVE  /\ [c EXCEPT !.pcb = 0] \in AsyncClient
         /\ [c EXCEPT !.pcb = 0].pcb = 0 /\ [c EXCEPT !.pcb = 0].conn = c.conn
         /\ [c EXCEPT !.pcb = 0].slot = c.slot /\ [c EXCEPT !.pcb = 0].hooked = c.hooked
BY SMT, TcpAssumption DEF AsyncClient

LEMMA LosesSlot ==
  ASSUME NEW c \in AsyncClient
  PROVE  /\ [c EXCEPT !.slot = NoSlot] \in AsyncClient
         /\ [c EXCEPT !.slot = NoSlot].slot = NoSlot /\ [c EXCEPT !.slot = NoSlot].conn = c.conn
         /\ [c EXCEPT !.slot = NoSlot].pcb = c.pcb /\ [c EXCEPT !.slot = NoSlot].hooked = c.hooked
BY SMT, TcpAssumption DEF AsyncClient, NoSlot

LEMMA IsHooked ==
  ASSUME NEW c \in AsyncClient
  PROVE  /\ [c EXCEPT !.hooked = TRUE] \in AsyncClient
         /\ [c EXCEPT !.hooked = TRUE].hooked = TRUE /\ [c EXCEPT !.hooked = TRUE].conn = c.conn
         /\ [c EXCEPT !.hooked = TRUE].pcb = c.pcb /\ [c EXCEPT !.hooked = TRUE].slot = c.slot
<1> DEFINE B == BOOLEAN
<1>1. TRUE \in B /\ c \in [conn : 0..Connections, pcb : 0..Connections, slot : NoSlot..(Slots - 1), hooked : B]
  BY DEF AsyncClient
<1>2. AsyncClient = [conn : 0..Connections, pcb : 0..Connections, slot : NoSlot..(Slots - 1), hooked : B]
  BY DEF AsyncClient
<1> HIDE DEF B
<1> QED BY <1>1, <1>2, Zenon

LEMMA BlockIs ==
  ASSUME NEW b \in Block
  PROVE  b.state \in {"new", "open", "closed"} /\ b.arg \in Addresses \union {None} /\ b.rx \in 0..Traffic
BY DEF Block

\* A control block gets another state and another argument, or only that.
LEMMA ConnWith ==
  ASSUME conn \in [Conn -> Block], NEW p \in Conn, NEW state \in {"new", "open", "closed"},
         NEW arg \in Addresses \union {None},
         conn' = [conn EXCEPT ![p].state = state, ![p].arg = arg]
  PROVE  /\ conn' \in [Conn -> Block] /\ conn'[p].state = state /\ conn'[p].arg = arg /\ conn'[p].rx = conn[p].rx
         /\ \A q \in Conn \ {p} : conn'[q] = conn[q]
<1> DEFINE b == [conn[p] EXCEPT !.state = state]
           c == [b EXCEPT !.arg = arg]
<1>1. b \in Block /\ b.state = state /\ b.rx = conn[p].rx
  BY SMT DEF Block
<1>2. c \in Block /\ c.state = b.state /\ c.arg = arg /\ c.rx = b.rx
  <2> HIDE DEF b
  <2> QED BY SMT, <1>1 DEF Block
<1>3. conn' = [conn EXCEPT ![p] = c]
  OBVIOUS
<1> HIDE DEF c
<1> QED BY <1>1, <1>2, <1>3

LEMMA ConnWithArg ==
  ASSUME conn \in [Conn -> Block], NEW p \in Conn, conn' = [conn EXCEPT ![p].arg = None]
  PROVE  /\ conn' \in [Conn -> Block] /\ conn'[p].state = conn[p].state /\ conn'[p].arg = None /\ conn'[p].rx = conn[p].rx
         /\ \A q \in Conn \ {p} : conn'[q] = conn[q]
BY SMT DEF Block

LEMMA ConnWithRx ==
  ASSUME conn \in [Conn -> Block], NEW p \in Conn, conn' = [conn EXCEPT ![p].rx = @ + 1], conn[p].rx + 1 \in 0..Traffic
  PROVE  /\ conn' \in [Conn -> Block] /\ conn'[p].state = conn[p].state /\ conn'[p].arg = conn[p].arg
         /\ conn'[p].rx = conn[p].rx + 1
         /\ \A q \in Conn \ {p} : conn'[q] = conn[q]
BY SMT DEF Block

-----------------------------------------------------------------------------
(* Types: the registers, then one lemma for each action.                   *)

LEMMA EventOfTask ==
  ASSUME TypeInv, async.at # "get"
  PROVE  /\ async.ev \in Events /\ async.ev.arg \in Addresses /\ async.ev.pcb \in Conn
         /\ Fits(async.ev.type, async.at) /\ Client \in AsyncClient /\ Client = heap[async.ev.arg]
BY EventParts DEF TypeInv, Registers, Client

LEMMA ClientOfBlock ==
  ASSUME TypeInv, NEW p \in Conn, conn[p].arg # None
  PROVE  conn[p].arg \in Addresses /\ heap[conn[p].arg] \in AsyncClient
BY BlockIs DEF TypeInv

LEMMA AfterAppIs ==
  ASSUME async.ev.type \in Apps
  PROVE  AfterApp \in {"ack", "get"} /\ (AfterApp = "ack" <=> async.ev.type = "RECV")
BY DEF AfterApp

LEMMA GoTypes ==
  ASSUME TypeInv, NEW point \in Points \ (Calling \union {"putfirst", "put", "rest"}), Go(point),
         point = "get" \/ (async.ev \in Events /\ Fits(async.ev.type, point))
  PROVE  async' \in AsyncTask /\ Registers'
<1>1. async \in AsyncTask
  BY DEF TypeInv
<1>2. /\ async' \in AsyncTask /\ async'.at = point
      /\ async'.ev = IF point = "get" THEN NoEvent ELSE async.ev
      /\ async'.held = NoEvent
  BY <1>1, GoDoes
<1> QED BY <1>2 DEF Registers, Calling

LEMMA CallTypes ==
  ASSUME TypeInv, async.at \in {"app", "ack", "close", "abort"}, async.ev.type \in Apps,
         NEW call \in Calls, NEW back \in {"get", "ack", "check", "discard"}, StartCall(call, back),
         IF call \in {"close", "abort"} THEN back = "discard" ELSE back # "discard",
         back = "ack" => async.ev.type = "RECV"
  PROVE  async' \in AsyncTask /\ Registers'
<1>1. Client.pcb \in 0..Connections /\ async.ev \in Events
  BY EventOfTask, ClientIs
<1>2. /\ async' \in AsyncTask /\ async'.at = "slot" /\ async'.ev = async.ev /\ async'.back = back
      /\ async'.call = call /\ async'.held = async.held
  BY <1>1, StartCallDoes DEF TypeInv
<1>3. async.held = NoEvent
  BY DEF TypeInv, Registers
<1>4. call # None
  BY DEF Calls, None
<1> QED BY <1>1, <1>2, <1>3, <1>4 DEF Registers, Calling, Fits

LEMMA TypeInit == Init => TypeInv
<1> SUFFICES ASSUME Init PROVE TypeInv
  OBVIOUS
<1>1. conn \in [Conn -> Block] /\ \A p \in Conn : conn[p].rx <= traffic
  BY SMT, TcpAssumption DEF Init, Block
<1>2. heap \in [Addresses -> AsyncClient]
  BY NoClientIs DEF Init
<1>3. closedSlots \in [0..(Slots - 1) -> Nat] /\ closedIndex \in Nat \ {0}
  BY SMT DEF Init
<1>4. queue \in Seq(Events) /\ Len(queue) <= QueueLength
  <2>1. <<>> \in Seq(Events) /\ Len(<<>>) = 0
    BY EmptySeq
  <2> QED BY SMT, <2>1, TcpAssumption DEF Init
<1>5. async \in AsyncTask /\ Registers
  BY IdleIs DEF Init, Registers, Calling
<1>6. delivered \in [Conn -> Seq(1..Traffic)]
  <2>1. <<>> \in Seq(1..Traffic)
    BY EmptySeq
  <2> QED BY <2>1 DEF Init
<1>7. traffic \in 0..Traffic
  BY SMT, TcpAssumption DEF Init
<1> QED BY <1>1, <1>2, <1>3, <1>4, <1>5, <1>6, <1>7 DEF Init, TypeInv, AsyncServer, OrNone

LEMMA ServerTypes == ASSUME TypeInv, Begin \/ End PROVE TypeInv'
BY DEF Begin, End, TypeInv, Registers, AsyncServer, library, history

\* What Accept writes down of the races.
LEMMA RacesAre ==
  ASSUME causes \in [Conn -> SUBSET Causes], NEW p \in Conn, NEW a, NEW s,
         causes' = [q \in Conn |-> causes[q] \union Races(q, p, a, s)]
  PROVE  /\ causes' \in [Conn -> SUBSET Causes] /\ \A q \in Conn : causes[q] \subseteq causes'[q]
         /\ Cleared(a) => "address reused" \in causes'[p]
         /\ s = NoSlot => "no slot" \in causes'[p]
         /\ async.pcb \in Conn /\ async.at = "call" /\ s # NoSlot /\ s = async.slot
              => "slot given away" \in causes'[async.pcb]
<1>1. \A q \in Conn : Races(q, p, a, s) \subseteq Causes /\ causes'[q] = causes[q] \union Races(q, p, a, s)
  BY DEF Races, Causes
<1>2. DOMAIN causes' = Conn /\ causes' = [q \in Conn |-> causes'[q]]
  OBVIOUS
<1>3. Cleared(a) => "address reused" \in Races(p, p, a, s)
  BY DEF Races
<1>4. s = NoSlot => "no slot" \in Races(p, p, a, s)
  BY DEF Races
<1>5. async.at = "call" /\ s # NoSlot /\ s = async.slot => "slot given away" \in Races(async.pcb, p, a, s)
  BY DEF Races
<1> QED BY <1>1, <1>2, <1>3, <1>4, <1>5

\* A connection is accepted: its control block, its client, and the client's slot.
Accepted(p, a, s) ==
  /\ s # NoSlot => s \in 0..(Slots - 1) /\ closedSlots[s] # 0 /\ closedSlots'[s] = 0
  /\ closedSlots' \in [0..(Slots - 1) -> Nat]
  /\ \A t \in 0..(Slots - 1) : t # s => closedSlots'[t] = closedSlots[t]
  /\ conn[p].state = "new" /\ heap[a] = NoClient
  /\ conn' \in [Conn -> Block]
  /\ conn'[p].state = "open" /\ conn'[p].arg = a /\ conn'[p].rx = conn[p].rx
  /\ \A q \in Conn \ {p} : conn'[q] = conn[q]
  /\ heap' \in [Addresses -> AsyncClient] /\ heap'[a] = NewClient(p, s)
  /\ \A b \in Addresses \ {a} : heap'[b] = heap[b]
  /\ lwip = NoEvent /\ lwip' = Event("ACCEPT", a, p, 0) /\ lwip' \in Events
  /\ causes' \in [Conn -> SUBSET Causes] /\ \A q \in Conn : causes[q] \subseteq causes'[q]
  /\ Cleared(a) => "address reused" \in causes'[p]
  /\ s = NoSlot => "no slot" \in causes'[p]
  /\ async.pcb \in Conn /\ async.at = "call" /\ s # NoSlot /\ s = async.slot
       => "slot given away" \in causes'[async.pcb]

LEMMA AcceptDoes ==
  ASSUME TypeInv, Accept
  PROVE  \E p \in Conn, a \in Addresses, s \in NoSlot..(Slots - 1) : Accepted(p, a, s)
<1> DEFINE s == AllocateClosedSlot
<1>1. PICK p \in Conn, a \in Addresses :
         /\ conn[p].state = "new" /\ heap[a] = NoClient
         /\ conn' = [conn EXCEPT ![p].state = "open", ![p].arg = a]
         /\ heap' = [heap EXCEPT ![a] = NewClient(p, s)]
         /\ IF s = NoSlot THEN UNCHANGED closedSlots
            ELSE closedSlots' = [closedSlots EXCEPT ![s] = 0]
         /\ lwip' = Event("ACCEPT", a, p, 0)
         /\ causes' = [q \in Conn |-> causes[q] \union Races(q, p, a, s)]
  BY Zenon DEF Accept
<1>2. s \in NoSlot..(Slots - 1) /\ (s # NoSlot => s \in 0..(Slots - 1) /\ closedSlots[s] # 0)
  BY AllocateDoes DEF TypeInv
<1> HIDE DEF s
<1>3. /\ closedSlots' \in [0..(Slots - 1) -> Nat]
      /\ s # NoSlot => closedSlots'[s] = 0
      /\ \A t \in 0..(Slots - 1) : t # s => closedSlots'[t] = closedSlots[t]
  <2>1. closedSlots \in [0..(Slots - 1) -> Nat]
    BY DEF TypeInv
  <2>2. IF s = NoSlot THEN UNCHANGED closedSlots ELSE closedSlots' = [closedSlots EXCEPT ![s] = 0]
    BY <1>1, Zenon
  <2>3. CASE s = NoSlot
    BY <2>1, <2>2, <2>3
  <2>4. CASE s # NoSlot
    <3>1. closedSlots' = [closedSlots EXCEPT ![s] = 0] /\ s \in 0..(Slots - 1) /\ 0 \in Nat
      BY <1>2, <2>2, <2>4
    <3> QED BY <2>1, <3>1, Zenon
  <2> QED BY <2>3, <2>4
<1>4. /\ conn' \in [Conn -> Block]
      /\ conn'[p].state = "open" /\ conn'[p].arg = a /\ conn'[p].rx = conn[p].rx
      /\ \A q \in Conn \ {p} : conn'[q] = conn[q]
  <2>1. conn' = [conn EXCEPT ![p].state = "open", ![p].arg = a] /\ conn \in [Conn -> Block]
    BY <1>1, Zenon DEF TypeInv
  <2> QED BY <2>1, ConnWith
<1>5. /\ heap' \in [Addresses -> AsyncClient] /\ heap'[a] = NewClient(p, s)
      /\ \A b \in Addresses \ {a} : heap'[b] = heap[b]
  <2>1. heap' = [heap EXCEPT ![a] = NewClient(p, s)] /\ heap \in [Addresses -> AsyncClient]
    BY <1>1, Zenon DEF TypeInv
  <2> QED BY <1>2, <2>1, NewClientIs, HeapWith
<1>6. Event("ACCEPT", a, p, 0) \in Events
  BY SMT, TcpAssumption, NewEvent
<1>7. /\ causes' \in [Conn -> SUBSET Causes] /\ \A q \in Conn : causes[q] \subseteq causes'[q]
      /\ Cleared(a) => "address reused" \in causes'[p]
      /\ s = NoSlot => "no slot" \in causes'[p]
      /\ async.pcb \in Conn /\ async.at = "call" /\ s # NoSlot /\ s = async.slot
           => "slot given away" \in causes'[async.pcb]
  <2>1. causes' = [q \in Conn |-> causes[q] \union Races(q, p, a, s)] /\ causes \in [Conn -> SUBSET Causes]
    BY <1>1, Zenon DEF TypeInv
  <2> QED BY <2>1, RacesAre
<1>8. lwip = NoEvent /\ lwip' = Event("ACCEPT", a, p, 0) /\ conn[p].state = "new" /\ heap[a] = NoClient
  BY <1>1, Zenon DEF Accept
<1>9. Accepted(p, a, s)
  BY <1>2, <1>3, <1>4, <1>5, <1>6, <1>7, <1>8, Zenon DEF Accepted
<1> QED BY <1>2, <1>9, Zenon

LEMMA AcceptTypes == ASSUME TypeInv, Accept PROVE TypeInv'
<1>1. PICK p \in Conn, a \in Addresses, s \in NoSlot..(Slots - 1) : Accepted(p, a, s)
  BY AcceptDoes
<1>2. /\ closedSlots' \in [0..(Slots - 1) -> Nat]
      /\ conn' \in [Conn -> Block] /\ conn'[p].rx = conn[p].rx
      /\ \A q \in Conn \ {p} : conn'[q] = conn[q]
      /\ heap' \in [Addresses -> AsyncClient]
      /\ lwip' \in Events
      /\ causes' \in [Conn -> SUBSET Causes]
  BY <1>1, Zenon DEF Accepted
<1>3. \A q \in Conn : conn'[q].rx = conn[q].rx
  BY <1>2
<1> QED BY <1>2, <1>3 DEF Accept, TypeInv, Registers, OrNone

LEMMA ReceiveDoes ==
  ASSUME TypeInv, NEW p \in Conn, Receive(p)
  PROVE  /\ conn[p].arg \in Addresses /\ conn[p].state = "open" /\ lwip = NoEvent
         /\ traffic' = traffic + 1 /\ traffic' \in 0..Traffic /\ conn[p].rx + 1 \in 1..Traffic /\ conn[p].rx + 1 <= traffic'
         /\ conn' \in [Conn -> Block] /\ conn'[p].state = conn[p].state /\ conn'[p].arg = conn[p].arg
         /\ conn'[p].rx = conn[p].rx + 1
         /\ \A q \in Conn \ {p} : conn'[q] = conn[q]
         /\ lwip' = Event("RECV", conn[p].arg, p, conn[p].rx + 1) /\ lwip' \in Events
<1>1. conn[p].arg \in Addresses /\ conn[p].state = "open" /\ lwip = NoEvent
  BY BlockIs DEF Receive, Callback, TypeInv
<1>2. /\ traffic' = traffic + 1 /\ traffic' \in 0..Traffic
      /\ conn[p].rx \in 0..Traffic /\ conn[p].rx + 1 \in 1..Traffic /\ conn[p].rx + 1 <= traffic'
  BY TcpAssumption, BlockIs, SMTT(30) DEF Receive, TypeInv
<1>3. conn[p].rx + 1 \in 0..Traffic /\ conn[p].rx + 1 # 0
  BY SMT, <1>2
<1>4. /\ conn' \in [Conn -> Block] /\ conn'[p].state = conn[p].state /\ conn'[p].arg = conn[p].arg
      /\ conn'[p].rx = conn[p].rx + 1
      /\ \A q \in Conn \ {p} : conn'[q] = conn[q]
  BY <1>3, ConnWithRx DEF Receive, TypeInv
<1>5. lwip' = Event("RECV", conn[p].arg, p, conn[p].rx + 1) /\ lwip' \in Events
  BY <1>1, <1>3, NewEvent DEF Receive, Apps
<1> QED BY <1>1, <1>2, <1>4, <1>5

LEMMA ReceiveTypes == ASSUME TypeInv, NEW p \in Conn, Receive(p) PROVE TypeInv'
<1>1. \A q \in Conn : conn'[q].rx <= traffic'
  <2> SUFFICES ASSUME NEW q \in Conn PROVE conn'[q].rx <= traffic'
    OBVIOUS
  <2>1. conn[q].rx \in Nat /\ conn[q].rx <= traffic /\ traffic \in Nat
    BY SMT, BlockIs DEF TypeInv
  <2>2. CASE q = p
    BY <2>2, ReceiveDoes
  <2>3. CASE q # p
    <3>1. conn'[q].rx = conn[q].rx /\ traffic' = traffic + 1
      BY <2>3, ReceiveDoes
    <3> QED BY SMT, <2>1, <3>1
  <2> QED BY <2>2, <2>3
<1> QED BY <1>1, ReceiveDoes DEF Receive, TypeInv, Registers, OrNone, library, history

LEMMA TickDoes ==
  ASSUME TypeInv, NEW p \in Conn, NEW type \in {"POLL", "SENT"}, Tick(p, type)
  PROVE  /\ conn[p].arg \in Addresses /\ conn[p].state = "open" /\ lwip = NoEvent
         /\ traffic \in Nat /\ traffic' = traffic + 1 /\ traffic' \in 0..Traffic
         /\ lwip' = Event(type, conn[p].arg, p, traffic + 1) /\ lwip' \in Events
<1>1. conn[p].arg \in Addresses /\ conn[p].state = "open" /\ lwip = NoEvent
  BY BlockIs DEF Tick, Callback, TypeInv
<1>2. traffic \in Nat /\ traffic' = traffic + 1 /\ traffic' \in 0..Traffic
  BY SMT, TcpAssumption DEF Tick, TypeInv
<1>3. lwip' = Event(type, conn[p].arg, p, traffic + 1) /\ lwip' \in Events
  BY <1>1, <1>2, NewEvent DEF Tick, Apps
<1> QED BY <1>1, <1>2, <1>3

LEMMA TickTypes == ASSUME TypeInv, NEW p \in Conn, Poll(p) \/ Sent(p) PROVE TypeInv'
<1>1. PICK type \in {"POLL", "SENT"} : Tick(p, type)
  BY DEF Poll, Sent
<1>2. \A q \in Conn : conn'[q].rx <= traffic'
  <2> SUFFICES ASSUME NEW q \in Conn PROVE conn'[q].rx <= traffic'
    OBVIOUS
  <2>1. conn[q].rx \in Nat /\ conn[q].rx <= traffic
    BY SMT, BlockIs DEF TypeInv
  <2>2. conn'[q].rx = conn[q].rx /\ traffic' = traffic + 1 /\ traffic \in Nat
    BY <1>1, TickDoes DEF Tick
  <2> QED BY SMT, <2>1, <2>2
<1> QED BY <1>1, <1>2, TickDoes DEF Tick, TypeInv, Registers, OrNone, library, history

\* What a step does to the client at an address.
ClientBecomes(a, c) ==
  /\ heap' \in [Addresses -> AsyncClient] /\ heap'[a] = c
  /\ \A b \in Addresses \ {a} : heap'[b] = heap[b]

LEMMA ClientLoses ==
  ASSUME heap \in [Addresses -> AsyncClient], NEW a \in Addresses,
         heap' = [heap EXCEPT ![a].pcb = 0, ![a].slot = NoSlot]
  PROVE  /\ heap' \in [Addresses -> AsyncClient]
         /\ heap'[a].pcb = 0 /\ heap'[a].slot = NoSlot
         /\ heap'[a].conn = heap[a].conn /\ heap'[a].hooked = heap[a].hooked
         /\ \A b \in Addresses \ {a} : heap'[b] = heap[b]
<1> DEFINE c == [heap[a] EXCEPT !.pcb = 0]
           d == [c EXCEPT !.slot = NoSlot]
<1>1. heap' = [heap EXCEPT ![a] = d] /\ heap[a] \in AsyncClient
  BY Zenon
<1>2. c \in AsyncClient /\ c.pcb = 0 /\ c.conn = heap[a].conn /\ c.hooked = heap[a].hooked
  BY <1>1, LosesBlock
<1> HIDE DEF c
<1>3. d \in AsyncClient /\ d.pcb = 0 /\ d.slot = NoSlot /\ d.conn = heap[a].conn /\ d.hooked = heap[a].hooked
  BY <1>2, LosesSlot
<1> HIDE DEF d
<1> QED BY <1>1, <1>3, HeapWith

\* The control block is closed, and has no client any more.
BlockCloses(p) ==
  /\ conn' \in [Conn -> Block] /\ conn'[p].state = "closed" /\ conn'[p].arg = None /\ conn'[p].rx = conn[p].rx
  /\ \A q \in Conn \ {p} : conn'[q] = conn[q]

LEMMA CloseBlock ==
  ASSUME conn \in [Conn -> Block], NEW p \in Conn, conn' = [conn EXCEPT ![p].state = "closed", ![p].arg = None]
  PROVE  BlockCloses(p)
BY ConnWith DEF BlockCloses

\* A slot is marked as free.
SlotFrees(s) ==
  /\ closedSlots' \in [0..(Slots - 1) -> Nat] /\ closedIndex' \in Nat \ {0}
  /\ s # NoSlot => s \in 0..(Slots - 1) /\ closedSlots'[s] # 0
  /\ \A t \in 0..(Slots - 1) : t # s => closedSlots'[t] = closedSlots[t]

LEMMA FreeSlot ==
  ASSUME TypeInv, NEW s \in NoSlot..(Slots - 1), FreeClosedSlot(s)
  PROVE  SlotFrees(s)
BY FreeDoes DEF TypeInv, SlotFrees

\* A connection meets what excuses it.
Meets(p, why) ==
  /\ causes' \in [Conn -> SUBSET Causes]
  /\ \A q \in Conn : causes[q] \subseteq causes'[q]
  /\ p \in Conn => why \subseteq causes'[p]

LEMMA CauseMeets ==
  ASSUME TypeInv, NEW p, NEW why \in SUBSET Causes, Cause(p, why)
  PROVE  Meets(p, why)
BY CauseDoes DEF TypeInv, Meets

LEMMA FinDoes ==
  ASSUME TypeInv, NEW p \in Conn, Fin(p)
  PROVE  /\ lwip = NoEvent /\ conn[p].state = "open" /\ conn[p].arg \in Addresses /\ conn[p].arg # None
         /\ BlockCloses(p)
         /\ heap' \in [Addresses -> AsyncClient]
         /\ heap'[conn[p].arg].pcb = 0 /\ heap'[conn[p].arg].slot = NoSlot
         /\ heap'[conn[p].arg].conn = heap[conn[p].arg].conn /\ heap'[conn[p].arg].hooked = heap[conn[p].arg].hooked
         /\ \A b \in Addresses \ {conn[p].arg} : heap'[b] = heap[b]
         /\ SlotFrees(heap[conn[p].arg].slot)
         /\ lwip' = Event("FIN", conn[p].arg, p, 0) /\ lwip' \in Events
         /\ Meets(p, IF InClose(p) THEN {"fin in _close"} ELSE {})
<1>1. lwip = NoEvent /\ conn[p].state = "open" /\ conn[p].arg \in Addresses /\ conn[p].arg # None
  BY ClientOfBlock DEF Fin, Callback
<1>2. BlockCloses(p)
  BY CloseBlock DEF Fin, TypeInv
<1>3. /\ heap' \in [Addresses -> AsyncClient]
      /\ heap'[conn[p].arg].pcb = 0 /\ heap'[conn[p].arg].slot = NoSlot
      /\ heap'[conn[p].arg].conn = heap[conn[p].arg].conn /\ heap'[conn[p].arg].hooked = heap[conn[p].arg].hooked
      /\ \A b \in Addresses \ {conn[p].arg} : heap'[b] = heap[b]
  BY <1>1, ClientLoses DEF Fin, TypeInv
<1>4. SlotFrees(heap[conn[p].arg].slot)
  <2>1. heap[conn[p].arg].slot \in NoSlot..(Slots - 1)
    BY <1>1, ClientOfBlock, ClientIs
  <2> QED BY <2>1, FreeSlot DEF Fin
<1>5. lwip' = Event("FIN", conn[p].arg, p, 0) /\ lwip' \in Events
  <2>1. 0 \in 0..Traffic
    BY SMT, TcpAssumption
  <2> QED BY <1>1, <2>1, NewEvent DEF Fin, Ends
<1>6. Meets(p, IF InClose(p) THEN {"fin in _close"} ELSE {})
  <2>1. (IF InClose(p) THEN {"fin in _close"} ELSE {}) \in SUBSET Causes
    BY Zenon DEF Causes
  <2> QED BY <2>1, CauseMeets DEF Fin
<1> QED BY <1>1, <1>2, <1>3, <1>4, <1>5, <1>6

\* The segments counted stay so.
LEMMA CountStays ==
  ASSUME TypeInv, NEW p \in Conn, BlockCloses(p), traffic' = traffic
  PROVE  \A q \in Conn : conn'[q].rx <= traffic'
BY DEF BlockCloses, TypeInv

LEMMA FinTypes == ASSUME TypeInv, NEW p \in Conn, Fin(p) PROVE TypeInv'
<1>1. traffic' = traffic
  BY DEF Fin
<1>2. \A q \in Conn : conn'[q].rx <= traffic'
  BY <1>1, FinDoes, CountStays
<1>3. /\ conn' \in [Conn -> Block] /\ heap' \in [Addresses -> AsyncClient]
      /\ closedSlots' \in [0..(Slots - 1) -> Nat] /\ closedIndex' \in Nat \ {0}
      /\ lwip' \in Events /\ causes' \in [Conn -> SUBSET Causes]
  BY FinDoes DEF BlockCloses, SlotFrees, Meets
<1> QED BY <1>2, <1>3 DEF Fin, TypeInv, Registers, OrNone

\* lwIP closes a control block and no slot says so.
Ceases(p) == Reset(p) \/ FinUnhooked(p)

LEMMA CeasesDoes ==
  ASSUME TypeInv, NEW p \in Conn, Ceases(p)
  PROVE  /\ lwip = NoEvent /\ conn[p].state = "open" /\ BlockCloses(p)
         /\ \E why \in {"reset", "fin unhooked"} : Meets(p, {why})
         /\ \/ conn[p].arg = None /\ lwip' = NoEvent
            \/ /\ conn[p].arg \in Addresses /\ lwip' = Event("ERROR", conn[p].arg, p, 0) /\ lwip' \in Events
               /\ "reset" \in causes'[p]
<1>1. lwip = NoEvent /\ conn[p].state = "open"
  BY DEF Ceases, Reset, FinUnhooked
<1>2. BlockCloses(p) /\ 0 \in 0..Traffic
  <2>1. 0 \in 0..Traffic
    BY SMT, TcpAssumption
  <2> QED BY <2>1, CloseBlock DEF Ceases, Reset, FinUnhooked, TypeInv
<1>3. PICK why \in {"reset", "fin unhooked"} : Meets(p, {why}) /\ (Reset(p) => why = "reset")
  <2>1. {"reset"} \in SUBSET Causes /\ {"fin unhooked"} \in SUBSET Causes
    BY DEF Causes
  <2>2. Reset(p) => Meets(p, {"reset"})
    BY <2>1, CauseMeets DEF Reset
  <2>3. FinUnhooked(p) => Meets(p, {"fin unhooked"})
    BY <2>1, CauseMeets DEF FinUnhooked
  <2> QED BY <2>2, <2>3 DEF Ceases
<1>4. \/ conn[p].arg = None /\ lwip' = NoEvent
      \/ conn[p].arg \in Addresses /\ lwip' = Event("ERROR", conn[p].arg, p, 0) /\ lwip' \in Events /\ Reset(p)
  <2>1. CASE conn[p].arg = None
    BY <1>1, <2>1 DEF Ceases, Reset, FinUnhooked
  <2>2. CASE conn[p].arg # None
    <3>1. Reset(p)
      BY <2>2 DEF Ceases, FinUnhooked
    <3>2. conn[p].arg \in Addresses /\ lwip' = Event("ERROR", conn[p].arg, p, 0)
      BY <2>2, <3>1, ClientOfBlock DEF Reset
    <3> QED BY <1>2, <3>1, <3>2, NewEvent DEF Ends
  <2> QED BY <2>1, <2>2
<1>5. Reset(p) => "reset" \in causes'[p]
  BY <1>3 DEF Meets
<1> QED BY <1>1, <1>2, <1>3, <1>4, <1>5

LEMMA CeasesMishaps ==
  ASSUME TypeInv, NEW p \in Conn, Ceases(p)
  PROVE  /\ mishaps' \in [Conn -> SUBSET {"pcb", "client"}]
         /\ \A q \in Conn : "pcb" \in mishaps'[q] => "pcb" \in mishaps[q]
         /\ \A q \in Conn : "client" \in mishaps'[q] => "client" \in mishaps[q] \/ "fin unhooked" \in causes'[q]
<1>1. CASE Reset(p)
  BY <1>1 DEF Reset, TypeInv
<1>2. CASE FinUnhooked(p)
  <2> DEFINE what == IF async.at = "unrecv" /\ heap[async.ev.arg].pcb = p THEN {"client"} ELSE {}
  <2>1. what \in SUBSET {"pcb", "client"} /\ "pcb" \notin what /\ Mishap(p, what)
    BY <1>2, Zenon DEF FinUnhooked
  <2> HIDE DEF what
  <2>2. /\ mishaps' \in [Conn -> SUBSET {"pcb", "client"}]
        /\ \A q \in Conn : mishaps'[q] = mishaps[q] \union IF q = p THEN what ELSE {}
    BY <2>1, MishapDoes DEF TypeInv
  <2>3. "fin unhooked" \in causes'[p]
    <3>1. {"fin unhooked"} \in SUBSET Causes
      BY DEF Causes
    <3>2. Meets(p, {"fin unhooked"})
      BY <1>2, <3>1, CauseMeets DEF FinUnhooked
    <3> QED BY <3>2 DEF Meets
  <2> QED BY <2>1, <2>2, <2>3
<1> QED BY <1>1, <1>2 DEF Ceases

LEMMA CeasesTypes == ASSUME TypeInv, NEW p \in Conn, Ceases(p) PROVE TypeInv'
<1>1. traffic' = traffic
  BY DEF Ceases, Reset, FinUnhooked
<1>2. \A q \in Conn : conn'[q].rx <= traffic'
  BY <1>1, CeasesDoes, CountStays
<1>3. conn' \in [Conn -> Block] /\ lwip' \in OrNone /\ causes' \in [Conn -> SUBSET Causes]
  BY CeasesDoes DEF BlockCloses, Meets, OrNone
<1>4. mishaps' \in [Conn -> SUBSET {"pcb", "client"}]
  BY CeasesMishaps
<1>5. UNCHANGED <<server, traffic, heap, closedSlots, closedIndex, queue, async, delivered>>
  BY DEF Ceases, Reset, FinUnhooked, library
<1> QED BY <1>2, <1>3, <1>4, <1>5 DEF TypeInv, Registers

\* What is in the queue.
Queued(e) == \E i \in 1..Len(queue) : queue[i] = e

LEMMA PostDoes ==
  ASSUME TypeInv, Post
  PROVE  /\ lwip \in Events /\ lwip' = NoEvent /\ queue' \in Seq(Events) /\ Len(queue') = Len(queue) + 1 /\ Len(queue') <= QueueLength
         /\ \A e : Queued(e)' => Queued(e) \/ e = lwip
         /\ Meets(lwip.pcb, IF async.at \in {"rest", "put"} THEN {"rotation"} ELSE {})
<1>1. lwip \in Events /\ lwip' = NoEvent
  BY DEF Post, TypeInv, OrNone
<1>2. queue \in Seq(Events) /\ Len(queue) < QueueLength
  BY DEF Post, TypeInv
<1>3. /\ queue' \in Seq(Events) /\ Len(queue) \in Nat /\ Len(queue') = Len(queue) + 1
      /\ \A e : Queued(e)' => Queued(e) \/ e = lwip
  <2>1. CASE lwip.type = "ACCEPT"
    <3>1. queue' = <<lwip>> \o queue
      BY <2>1 DEF Post
    <3>2. /\ queue' \in Seq(Events) /\ Len(queue) \in Nat /\ Len(queue') = Len(queue) + 1
          /\ queue'[1] = lwip
          /\ \A i \in 2..Len(queue') : queue'[i] = queue[i - 1]
      BY <1>1, <1>2, <3>1, PrependQueue
    <3>3. \A i \in 1..Len(queue') : i = 1 \/ (i \in 2..Len(queue') /\ i - 1 \in 1..Len(queue))
      BY SMT, <3>2
    <3> QED BY <3>2, <3>3 DEF Queued
  <2>2. CASE lwip.type # "ACCEPT"
    <3>1. queue' = Append(queue, lwip)
      BY <2>2 DEF Post
    <3>2. /\ queue' \in Seq(Events) /\ Len(queue) \in Nat /\ Len(queue') = Len(queue) + 1
          /\ queue'[Len(queue) + 1] = lwip
          /\ \A i \in 1..Len(queue) : queue'[i] = queue[i]
      BY <1>1, <1>2, <3>1, AppendQueue
    <3>3. \A i \in 1..Len(queue') : i = Len(queue) + 1 \/ i \in 1..Len(queue)
      BY SMT, <3>2
    <3> QED BY <3>2, <3>3 DEF Queued
  <2> QED BY <2>1, <2>2
<1>4. Len(queue') <= QueueLength
  BY SMT, <1>2, <1>3, TcpAssumption
<1>5. Meets(lwip.pcb, IF async.at \in {"rest", "put"} THEN {"rotation"} ELSE {})
  <2>1. (IF async.at \in {"rest", "put"} THEN {"rotation"} ELSE {}) \in SUBSET Causes
    BY Zenon DEF Causes
  <2> QED BY <2>1, CauseMeets DEF Post
<1> QED BY <1>1, <1>3, <1>4, <1>5

LEMMA PostTypes == ASSUME TypeInv, Post PROVE TypeInv'
BY PostDoes DEF Post, TypeInv, Registers, OrNone, library, Meets

\* A call is served: refused, done, or, a close, failed.
ServeRefuses ==
  /\ Refused(async.slot) /\ UNCHANGED <<conn, mishaps>>
  /\ Go(IF async.call = "close" THEN "abort" ELSE async.back)
ServeDoes(p) ==
  /\ ~Refused(async.slot) /\ Mishap(p, IF conn[p].state = "closed" THEN {"pcb"} ELSE {})
  /\ \/ conn' = (IF async.call \in {"close", "abort"} THEN [conn EXCEPT ![p].state = "closed", ![p].arg = None] ELSE conn)
        /\ Go(async.back)
     \/ async.call = "close" /\ UNCHANGED conn /\ Go("abort")

LEMMA ServeIs ==
  ASSUME TypeInv, Serve
  PROVE  /\ async.at = "call" /\ lwip = NoEvent
         /\ UNCHANGED <<server, traffic, heap, closedSlots, closedIndex, queue, lwip, delivered, causes>>
         /\ async.pcb \in Conn
         /\ ServeRefuses \/ ServeDoes(async.pcb)
<1>1. async.at = "call" /\ lwip = NoEvent
  BY DEF Serve
<1>2. UNCHANGED <<server, traffic, heap, closedSlots, closedIndex, queue, lwip, delivered, causes>>
  BY DEF Serve, library
<1>3. async.pcb \in Conn
  BY SMT, <1>1, TcpAssumption DEF TypeInv, Registers, AsyncTask, Conn
<1>4. ServeRefuses \/ ServeDoes(async.pcb)
  BY Zenon DEF Serve, ServeRefuses, ServeDoes
<1> QED BY <1>1, <1>2, <1>3, <1>4

LEMMA ServeEffects ==
  ASSUME TypeInv, Serve
  PROVE  /\ conn' \in [Conn -> Block]
         /\ \A q \in Conn : conn'[q].rx = conn[q].rx
         /\ conn' # conn => BlockCloses(async.pcb) /\ async.call \in {"close", "abort"}
         /\ mishaps' \in [Conn -> SUBSET {"pcb", "client"}]
         /\ \A q \in Conn : "client" \in mishaps'[q] => "client" \in mishaps[q]
         /\ \A q \in Conn : "pcb" \in mishaps'[q] =>
              \/ "pcb" \in mishaps[q]
              \/ q = async.pcb /\ conn[q].state = "closed" /\ ~Refused(async.slot)
<1>1. CASE ServeRefuses
  <2>1. conn' = conn /\ mishaps' = mishaps
    BY <1>1 DEF ServeRefuses
  <2> QED BY <2>1 DEF TypeInv
<1>2. CASE ServeDoes(async.pcb)
  <2>1. async.pcb \in Conn
    BY ServeIs
  <2>2. conn' = conn \/ (BlockCloses(async.pcb) /\ async.call \in {"close", "abort"})
    <3>1. CASE async.call \in {"close", "abort"}
      <4>1. conn' = conn \/ conn' = [conn EXCEPT ![async.pcb].state = "closed", ![async.pcb].arg = None]
        BY <1>2, <3>1, Zenon DEF ServeDoes
      <4> QED BY <2>1, <3>1, <4>1, CloseBlock DEF TypeInv
    <3>2. CASE ~(async.call \in {"close", "abort"})
      BY <1>2, <3>2, Zenon DEF ServeDoes
    <3> QED BY <3>1, <3>2
  <2>3. /\ mishaps' \in [Conn -> SUBSET {"pcb", "client"}]
        /\ \A q \in Conn : mishaps'[q] =
             mishaps[q] \union IF q = async.pcb THEN (IF conn[async.pcb].state = "closed" THEN {"pcb"} ELSE {}) ELSE {}
    <3> DEFINE what == IF conn[async.pcb].state = "closed" THEN {"pcb"} ELSE {}
    <3>1. what \in SUBSET {"pcb", "client"} /\ Mishap(async.pcb, what)
      BY <1>2, Zenon DEF ServeDoes
    <3> HIDE DEF what
    <3>2. /\ mishaps' \in [Conn -> SUBSET {"pcb", "client"}]
          /\ \A q \in Conn : mishaps'[q] = mishaps[q] \union IF q = async.pcb THEN what ELSE {}
      BY <3>1, MishapDoes DEF TypeInv
    <3> QED BY <3>2 DEF what
  <2>4. ~Refused(async.slot)
    BY <1>2 DEF ServeDoes
  <2>5. conn' \in [Conn -> Block] /\ \A q \in Conn : conn'[q].rx = conn[q].rx
    BY <2>2 DEF BlockCloses, TypeInv
  <2>6. \A q \in Conn : "client" \in mishaps'[q] => "client" \in mishaps[q]
    BY <2>3
  <2>7. \A q \in Conn : "pcb" \in mishaps'[q] => "pcb" \in mishaps[q] \/ (q = async.pcb /\ conn[q].state = "closed")
    BY <2>3
  <2> QED BY <2>2, <2>3, <2>4, <2>5, <2>6, <2>7
<1> QED BY <1>1, <1>2, ServeIs

LEMMA ServeGoes ==
  ASSUME TypeInv, Serve
  PROVE  /\ \/ Go("abort") /\ async.call = "close"
            \/ Go(async.back)
         /\ async.ev \in Events /\ async.ev.type \in Apps /\ async.back \in {"get", "ack", "check", "discard"}
         /\ async.call \in Calls
         /\ IF async.call \in {"close", "abort"} THEN async.back = "discard" ELSE async.back # "discard"
         /\ async.back = "ack" => async.ev.type = "RECV"
<1>1. \/ Go("abort") /\ async.call = "close"
      \/ Go(async.back)
  BY ServeIs DEF ServeRefuses, ServeDoes
<1>2. async.at = "call"
  BY ServeIs
<1>3. async.ev \in Events /\ Fits(async.ev.type, "call")
  BY <1>2, EventOfTask
<1>4. async.ev.type \in Apps
  BY <1>3 DEF Fits, Closing, Turning
<1> QED BY <1>1, <1>2, <1>3, <1>4 DEF TypeInv, Registers, AsyncTask, Calling, Calls

LEMMA ServeTypes == ASSUME TypeInv, Serve PROVE TypeInv'
<1>1. async' \in AsyncTask /\ Registers'
  <2>1. PICK point \in {"get", "ack", "check", "discard", "abort"} :
          Go(point) /\ (point = "ack" => async.ev.type = "RECV")
    BY ServeGoes
  <2>2. point \in Points \ (Calling \union {"putfirst", "put", "rest"})
    BY DEF Points, Calling, Closing, Turning
  <2>3. point = "get" \/ (async.ev \in Events /\ Fits(async.ev.type, point))
    BY <2>1, ServeGoes DEF Fits, Closing
  <2> QED BY <2>1, <2>2, <2>3, GoTypes
<1>2. UNCHANGED <<server, traffic, heap, closedSlots, closedIndex, queue, lwip, delivered, causes>>
  BY ServeIs
<1>3. conn' \in [Conn -> Block] /\ (\A p \in Conn : conn'[p].rx <= traffic') /\ mishaps' \in [Conn -> SUBSET {"pcb", "client"}]
  BY <1>2, ServeEffects DEF TypeInv
<1> QED BY <1>1, <1>2, <1>3 DEF TypeInv

\* What Take makes of the event at the head of the queue.
TakesFrom(e) == heap[e.arg].conn = e.pcb \/ e.type = "CLEAR"

LEMMA TakeDoes ==
  ASSUME TypeInv, Take
  PROVE  /\ async.at = "get" /\ UNCHANGED <<server, conn, traffic, closedSlots, closedIndex, lwip, causes>>
         /\ queue[1] \in Events /\ Queued(queue[1])
         /\ queue' \in Seq(Events) /\ Len(queue') = Len(queue) - 1 /\ Len(queue) \in Nat \ {0}
         /\ \A i \in 1..Len(queue') : queue'[i] = queue[i + 1]
         /\ \A e : Queued(e)' => Queued(e)
<1>1. queue \in Seq(Events) /\ queue # <<>> /\ queue' = Tail(queue)
  BY DEF Take, TypeInv
<1>2. /\ Head(queue) = queue[1] /\ queue[1] \in Events
      /\ queue' \in Seq(Events) /\ Len(queue') = Len(queue) - 1 /\ Len(queue) \in Nat \ {0}
      /\ \A i \in 1..Len(queue') : queue'[i] = queue[i + 1]
  BY <1>1, TailQueue
<1>3. 1 \in 1..Len(queue) /\ \A i \in 1..Len(queue') : i + 1 \in 1..Len(queue)
  BY SMT, <1>2
<1>4. Queued(queue[1])
  BY <1>3 DEF Queued
<1>5. \A e : Queued(e)' => Queued(e)
  BY <1>2, <1>3 DEF Queued
<1> QED BY <1>2, <1>4, <1>5 DEF Take, taskOnly, library

\* Where the task goes with the event e.
TakesTo(e, point) ==
  \/ point = "app" /\ e.type \in Apps /\ heap[e.arg].hooked
  \/ point = "ack" /\ e.type = "RECV" /\ ~heap[e.arg].hooked
  \/ point = "clear" /\ e.type = "FIN"
  \/ point = "discard" /\ e.type = "ERROR"
  \/ point = "first" /\ e.type = "CLEAR"

LEMMA TakeGoes ==
  ASSUME TypeInv, Take
  PROVE  \/ async' = Idle
         \/ \E point \in {"app", "ack", "clear", "discard", "first"} :
              /\ TakesTo(queue[1], point) /\ TakesFrom(queue[1])
              /\ async' \in AsyncTask /\ async'.at = point /\ async'.ev = queue[1]
              /\ SameBut(async', Idle, {"at", "ev"})
<1> DEFINE e == Head(queue)
           c == heap[e.arg]
           point == CASE e.type = "RECV"   -> IF c.hooked THEN "app" ELSE "ack"
                      [] e.type = "SENT"   -> IF c.hooked THEN "app" ELSE "get"
                      [] e.type = "POLL"   -> IF c.hooked /\ c.pcb = e.pcb THEN "app" ELSE "get"
                      [] e.type = "FIN"    -> "clear"
                      [] e.type = "ERROR"  -> "discard"
                      [] e.type = "CLEAR"  -> "first"
                      [] e.type = "ACCEPT" -> "get"
           stale == c.conn # e.pcb /\ e.type # "CLEAR"
<1>1. async' = IF stale \/ point = "get" THEN Idle ELSE [Idle EXCEPT !.ev = e, !.at = point]
  BY Zenon DEF Take
<1>2. e = queue[1] /\ e \in Events
  BY TailQueue DEF Take, TypeInv
<1>3. e.type \in Apps \union Ends \union {"ACCEPT", "CLEAR"}
  BY <1>2, EventParts
<1>4. point = "get" \/ (point \in {"app", "ack", "clear", "discard", "first"} /\ TakesTo(e, point))
  <2>1. CASE e.type = "RECV"
    <3>1. point = IF c.hooked THEN "app" ELSE "ack"
      BY <2>1
    <3> HIDE DEF point
    <3> QED BY <2>1, <3>1, Zenon DEF TakesTo, Apps
  <2>2. CASE e.type = "SENT"
    <3>1. point = IF c.hooked THEN "app" ELSE "get"
      BY <2>2
    <3> HIDE DEF point
    <3> QED BY <2>2, <3>1, Zenon DEF TakesTo, Apps
  <2>3. CASE e.type = "POLL"
    <3>1. point = IF c.hooked /\ c.pcb = e.pcb THEN "app" ELSE "get"
      BY <2>3
    <3> HIDE DEF point
    <3> QED BY <2>3, <3>1, Zenon DEF TakesTo, Apps
  <2>4. CASE e.type \in {"FIN", "ERROR", "CLEAR", "ACCEPT"}
    BY <2>4 DEF TakesTo
  <2> QED BY <1>3, <2>1, <2>2, <2>3, <2>4 DEF Apps, Ends
<1> HIDE DEF point
<1>5. stale \/ TakesFrom(e)
  BY DEF TakesFrom
<1> HIDE DEF stale
<1>6. CASE stale \/ point = "get"
  BY <1>1, <1>6
<1>7. CASE ~(stale \/ point = "get")
  <2> DEFINE r == [Idle EXCEPT !.ev = e]
  <2>1. async' = [r EXCEPT !.at = point] /\ point \in Points /\ e \in OrNone
    BY <1>1, <1>2, <1>4, <1>7 DEF Points, Closing, Turning, OrNone
  <2>2. r \in AsyncTask /\ r.ev = e /\ SameBut(r, Idle, {"ev"})
    BY <2>1, IdleIs, WithEv
  <2> HIDE DEF r
  <2>3. async' \in AsyncTask /\ async'.at = point /\ SameBut(async', r, {"at"})
    BY <2>1, <2>2, WithAt
  <2>4. async'.ev = e /\ SameBut(async', Idle, {"at", "ev"})
    BY <2>2, <2>3 DEF SameBut
  <2> QED BY <1>2, <1>4, <1>5, <1>7, <2>3, <2>4
<1> QED BY <1>6, <1>7

LEMMA TakeHooks ==
  ASSUME TypeInv, Take
  PROVE  /\ heap' \in [Addresses -> AsyncClient]
         /\ \A a \in Addresses :
              /\ heap'[a].conn = heap[a].conn /\ heap'[a].pcb = heap[a].pcb /\ heap'[a].slot = heap[a].slot
              /\ IF queue[1].type = "ACCEPT" /\ a = queue[1].arg THEN heap'[a].hooked = TRUE
                 ELSE heap'[a].hooked = heap[a].hooked
<1> DEFINE e == queue[1]
<1>1. e \in Events /\ e.arg \in Addresses /\ heap \in [Addresses -> AsyncClient]
  BY TakeDoes, EventParts DEF TypeInv
<1>2. Head(queue) = e
  BY TailQueue DEF Take, TypeInv
<1>3. CASE e.type = "ACCEPT"
  <2>1. heap' = [heap EXCEPT ![e.arg].hooked = TRUE]
    BY <1>2, <1>3, Zenon DEF Take, SetCallbacks
  <2> DEFINE c == [heap[e.arg] EXCEPT !.hooked = TRUE]
  <2>2. heap' = [heap EXCEPT ![e.arg] = c]
    BY <2>1
  <2>3. /\ c \in AsyncClient /\ c.hooked = TRUE /\ c.conn = heap[e.arg].conn /\ c.pcb = heap[e.arg].pcb
        /\ c.slot = heap[e.arg].slot
    BY <1>1, IsHooked
  <2> HIDE DEF c
  <2>4. heap' \in [Addresses -> AsyncClient] /\ heap'[e.arg] = c /\ \A b \in Addresses \ {e.arg} : heap'[b] = heap[b]
    BY <1>1, <2>2, <2>3, HeapWith
  <2> QED BY <1>3, <2>3, <2>4, Zenon
<1>4. CASE e.type # "ACCEPT"
  <2>1. heap' = heap
    BY <1>2, <1>4, Zenon DEF Take
  <2> QED BY <1>1, <1>4, <2>1, Zenon
<1> QED BY <1>3, <1>4

LEMMA TakeDelivers ==
  ASSUME TypeInv, Take
  PROVE  /\ delivered' \in [Conn -> Seq(1..Traffic)]
         /\ \A q \in Conn :
              \/ delivered'[q] = delivered[q]
              \/ /\ q = queue[1].pcb /\ queue[1].type = "RECV"
                 /\ heap[queue[1].arg].conn = q /\ heap[queue[1].arg].hooked
                 /\ delivered'[q] = Append(delivered[q], queue[1].n)
         /\ mishaps' \in [Conn -> SUBSET {"pcb", "client"}]
         /\ \A q \in Conn : "pcb" \in mishaps'[q] => "pcb" \in mishaps[q]
         /\ \A q \in Conn : "client" \in mishaps'[q] =>
              "client" \in mishaps[q] \/ (q = queue[1].pcb /\ ~TakesFrom(queue[1]))
<1> DEFINE e == queue[1]
           stale == heap[e.arg].conn # e.pcb /\ e.type # "CLEAR"
           what == IF stale THEN {"client"} ELSE {}
<1>1. e \in Events /\ e.pcb \in Conn /\ (e.type = "RECV" => e.n \in 1..Traffic)
  BY TakeDoes, EventParts
<1>2. Head(queue) = e
  BY TailQueue DEF Take, TypeInv
<1>3. Mishap(e.pcb, what) /\ what \in SUBSET {"pcb", "client"}
  BY <1>2, Zenon DEF Take
<1>4. stale => ~TakesFrom(e)
  BY DEF TakesFrom
<1>5. "pcb" \notin what /\ ("client" \in what => stale)
  BY Zenon
<1>6. /\ delivered' \in [Conn -> Seq(1..Traffic)]
      /\ \A q \in Conn :
           \/ delivered'[q] = delivered[q]
           \/ /\ q = e.pcb /\ e.type = "RECV"
              /\ heap[e.arg].conn = q /\ heap[e.arg].hooked
              /\ delivered'[q] = Append(delivered[q], e.n)
  <2>1. delivered \in [Conn -> Seq(1..Traffic)]
    BY DEF TypeInv
  <2>2. CASE e.type = "RECV" /\ ~stale /\ heap[e.arg].hooked
    <3>1. delivered' = [delivered EXCEPT ![e.pcb] = Append(@, e.n)]
      BY <1>2, <2>2, Zenon DEF Take
    <3>2. Append(delivered[e.pcb], e.n) \in Seq(1..Traffic)
      BY <1>1, <2>1, <2>2, AppendProperties
    <3> QED BY <1>1, <2>1, <2>2, <3>1, <3>2
  <2>3. CASE ~(e.type = "RECV" /\ ~stale /\ heap[e.arg].hooked)
    <3>1. delivered' = delivered
      BY <1>2, <2>3, Zenon DEF Take
    <3> QED BY <2>1, <3>1
  <2> QED BY <2>2, <2>3
<1> HIDE DEF what
<1>7. /\ mishaps' \in [Conn -> SUBSET {"pcb", "client"}]
      /\ \A q \in Conn : mishaps'[q] = mishaps[q] \union IF q = e.pcb THEN what ELSE {}
  BY <1>3, MishapDoes DEF TypeInv
<1>8. \A q \in Conn : "pcb" \in mishaps'[q] => "pcb" \in mishaps[q]
  BY <1>5, <1>7
<1>9. \A q \in Conn : "client" \in mishaps'[q] => "client" \in mishaps[q] \/ (q = e.pcb /\ ~TakesFrom(e))
  BY <1>4, <1>5, <1>7
<1> QED BY <1>6, <1>7, <1>8, <1>9

LEMMA TakeTypes == ASSUME TypeInv, Take PROVE TypeInv'
<1>1. async' \in AsyncTask /\ Registers'
  <2>1. CASE async' = Idle
    BY <2>1, IdleIs DEF Registers, Calling
  <2>2. CASE async' # Idle
    <3>1. PICK point \in {"app", "ack", "clear", "discard", "first"} :
              /\ TakesTo(queue[1], point)
              /\ async' \in AsyncTask /\ async'.at = point /\ async'.ev = queue[1]
              /\ SameBut(async', Idle, {"at", "ev"})
      BY <2>2, TakeGoes
    <3>2. Fits(queue[1].type, point)
      BY <3>1 DEF TakesTo, Fits, Closing, Turning
    <3>3. async'.held = NoEvent
      BY <3>1, IdleIs DEF SameBut
    <3>4. queue[1] \in Events
      BY TakeDoes
    <3> QED BY <3>1, <3>2, <3>3, <3>4 DEF Registers, Calling
  <2> QED BY <2>1, <2>2
<1>2. Len(queue') <= QueueLength
  BY SMT, TakeDoes, TcpAssumption DEF TypeInv
<1>3. UNCHANGED <<server, conn, traffic, closedSlots, closedIndex, lwip, causes>> /\ queue' \in Seq(Events)
  BY TakeDoes
<1>4. heap' \in [Addresses -> AsyncClient]
  BY TakeHooks
<1>5. delivered' \in [Conn -> Seq(1..Traffic)] /\ mishaps' \in [Conn -> SUBSET {"pcb", "client"}]
  BY TakeDelivers
<1> QED BY <1>1, <1>2, <1>3, <1>4, <1>5 DEF TypeInv

\* The points of the application's callback, and of close().
LEMMA AppTypes ==
  ASSUME TypeInv, AppReturns \/ AppWrites \/ AppCloses
  PROVE  TypeInv'
<1>1. async.at = "app" /\ async.ev \in Events /\ async.ev.type \in Apps
  BY EventOfTask DEF AppReturns, AppWrites, AppCloses, Fits, Closing, Turning, Calling
<1>2. (AfterApp \in {"get", "ack"} /\ Fits(async.ev.type, AfterApp)) \/ AfterApp = "get"
  BY <1>1, AfterAppIs DEF Fits
<1>3. async' \in AsyncTask /\ Registers'
  <2>1. CASE Go(AfterApp)
    <3>1. AfterApp \in Points \ (Calling \union {"putfirst", "put", "rest"})
      BY <1>2 DEF Points, Calling, Turning
    <3> QED BY <1>1, <1>2, <2>1, <3>1, GoTypes
  <2>2. CASE Go("check")
    <3>1. "check" \in Points \ (Calling \union {"putfirst", "put", "rest"}) /\ Fits(async.ev.type, "check")
      BY <1>1 DEF Points, Calling, Turning, Fits
    <3> QED BY <1>1, <2>2, <3>1, GoTypes
  <2>3. CASE StartCall("write", AfterApp)
    <3>1. "write" \in Calls /\ AfterApp \in {"get", "ack", "check", "discard"} /\ AfterApp # "discard"
          /\ (AfterApp = "ack" => async.ev.type = "RECV")
      BY <1>1, <1>2, AfterAppIs DEF Calls
    <3> QED BY <1>1, <2>3, <3>1, CallTypes
  <2>4. CASE StartCall("recved", "check")
    <3>1. "recved" \in Calls
      BY DEF Calls
    <3> QED BY <1>1, <2>4, <3>1, CallTypes
  <2> QED BY <2>1, <2>2, <2>3, <2>4 DEF AppReturns, AppWrites, AppCloses
<1>4. CASE AppReturns \/ AppWrites
  BY <1>3, <1>4 DEF AppReturns, AppWrites, taskOnly, library, history, TypeInv
<1>5. CASE AppCloses
  <2>1. (IF async.ev.type = "RECV" THEN {"closed in onData"} ELSE {}) \in SUBSET Causes
    BY Zenon DEF Causes
  <2>2. Meets(async.ev.pcb, IF async.ev.type = "RECV" THEN {"closed in onData"} ELSE {})
    BY <1>5, <2>1, CauseMeets DEF AppCloses
  <2> QED BY <1>3, <1>5, <2>2 DEF AppCloses, taskOnly, library, TypeInv, Meets
<1> QED BY <1>4, <1>5

LEMMA ReadSlotDoes ==
  ASSUME TypeInv, ReadSlot
  PROVE  /\ async.at = "slot" /\ async.ev \in Events /\ async.ev.type \in Apps /\ async.pcb \in 0..Connections
         /\ \/ async.pcb = 0 /\ Go(async.back)
            \/ /\ async.pcb # 0 /\ async.pcb \in Conn /\ async' \in AsyncTask
               /\ async'.at = "call" /\ async'.slot = Client.slot /\ SameBut(async', async, {"at", "slot"})
         /\ Meets(async.pcb, IF async.pcb # 0 /\ Client.pcb = 0 THEN {"fin in a call"} ELSE {})
<1>1. async.at = "slot" /\ async.ev \in Events /\ Fits(async.ev.type, "slot") /\ Client.slot \in NoSlot..(Slots - 1)
  BY EventOfTask, ClientIs DEF ReadSlot
<1>2. async.ev.type \in Apps
  BY <1>1 DEF Fits, Closing, Turning
<1>3. async.pcb \in 0..Connections /\ (async.pcb # 0 => async.pcb \in Conn)
  BY SMT, TcpAssumption DEF TypeInv, AsyncTask, Conn
<1>4. \/ async.pcb = 0 /\ Go(async.back)
      \/ /\ async.pcb # 0 /\ async.pcb \in Conn /\ async' \in AsyncTask
         /\ async'.at = "call" /\ async'.slot = Client.slot /\ SameBut(async', async, {"at", "slot"})
  <2>1. CASE async.pcb = 0
    BY <2>1, Zenon DEF ReadSlot, Go
  <2>2. CASE async.pcb # 0
    <3> DEFINE r == [async EXCEPT !.at = "call"]
    <3>1. async' = [r EXCEPT !.slot = Client.slot] /\ async \in AsyncTask
      BY <2>2, Zenon DEF ReadSlot, TypeInv
    <3>2. r \in AsyncTask /\ r.at = "call" /\ SameBut(r, async, {"at"})
      BY <3>1, WithAt DEF Points, Calling
    <3> HIDE DEF r
    <3>3. async' \in AsyncTask /\ async'.slot = Client.slot /\ SameBut(async', r, {"slot"})
      BY <1>1, <3>1, <3>2, WithSlot
    <3>4. async'.at = "call" /\ SameBut(async', async, {"at", "slot"})
      BY <3>2, <3>3 DEF SameBut
    <3> QED BY <1>3, <2>2, <3>3, <3>4
  <2> QED BY <2>1, <2>2
<1>5. Meets(async.pcb, IF async.pcb # 0 /\ Client.pcb = 0 THEN {"fin in a call"} ELSE {})
  <2>1. (IF async.pcb # 0 /\ Client.pcb = 0 THEN {"fin in a call"} ELSE {}) \in SUBSET Causes
    BY Zenon DEF Causes
  <2> QED BY <2>1, CauseMeets DEF ReadSlot
<1> QED BY <1>1, <1>2, <1>3, <1>4, <1>5

LEMMA ReadSlotTypes == ASSUME TypeInv, ReadSlot PROVE TypeInv'
<1>1. async.at = "slot" /\ async.ev \in Events /\ async.ev.type \in Apps
  BY ReadSlotDoes
<1>2. /\ async.call # None /\ async.back \in {"get", "ack", "check", "discard"} /\ (async.back = "ack" => async.ev.type = "RECV")
      /\ IF async.call \in {"close", "abort"} THEN async.back = "discard" ELSE async.back # "discard"
      /\ async.held = NoEvent
  BY <1>1 DEF TypeInv, Registers, AsyncTask, Calling
<1>3. async' \in AsyncTask /\ Registers'
  <2>1. CASE Go(async.back)
    <3>1. async.back \in Points \ (Calling \union {"putfirst", "put", "rest"})
          /\ (async.back = "get" \/ Fits(async.ev.type, async.back))
      BY <1>1, <1>2 DEF Points, Calling, Closing, Turning, Fits
    <3> QED BY <1>1, <2>1, <3>1, GoTypes
  <2>2. CASE async.pcb # 0 /\ async' \in AsyncTask /\ async'.at = "call" /\ SameBut(async', async, {"at", "slot"})
    <3>1. async'.ev = async.ev /\ async'.back = async.back /\ async'.call = async.call /\ async'.pcb = async.pcb
          /\ async'.held = async.held
      BY <2>2 DEF SameBut
    <3>2. Fits(async.ev.type, "call")
      BY <1>1 DEF Fits, Calling
    <3>3. async'.at = "call" /\ "call" \in Calling
      BY <2>2 DEF Calling
    <3> QED BY <1>1, <1>2, <2>2, <3>1, <3>2, <3>3 DEF Registers
  <2> QED BY <2>1, <2>2, ReadSlotDoes
<1> QED BY <1>3, ReadSlotDoes DEF ReadSlot, taskOnly, library, TypeInv, Meets

LEMMA AckTypes == ASSUME TypeInv, Ack PROVE TypeInv'
<1>1. async.at = "ack" /\ async.ev \in Events /\ async.ev.type = "RECV"
  BY EventOfTask DEF Ack, Fits, Closing, Turning, Calling
<1>2. async' \in AsyncTask /\ Registers'
  <2>1. CASE Go("get")
    <3>1. "get" \in Points \ (Calling \union {"putfirst", "put", "rest"})
      BY DEF Points, Calling, Turning
    <3> QED BY <2>1, <3>1, GoTypes
  <2>2. CASE StartCall("recved", "get")
    BY <1>1, <2>2, CallTypes DEF Calls, Apps
  <2> QED BY <2>1, <2>2, Zenon DEF Ack
<1>3. mishaps' \in [Conn -> SUBSET {"pcb", "client"}]
  <2>1. (IF Deleted THEN {"client"} ELSE {}) \in SUBSET {"pcb", "client"}
    BY Zenon
  <2>2. Mishap(async.ev.pcb, IF Deleted THEN {"client"} ELSE {})
    BY Zenon DEF Ack
  <2> QED BY <2>1, <2>2, MishapDoes DEF TypeInv
<1> QED BY <1>2, <1>3 DEF Ack, taskOnly, library, TypeInv

LEMMA CheckTypes == ASSUME TypeInv, Check PROVE TypeInv'
<1>1. async.at = "check" /\ async.ev \in Events /\ async.ev.type \in Apps
  BY EventOfTask DEF Check, Fits, Closing, Turning, Calling
<1>2. PICK point \in {"get", "ack", "unhook"} : Go(point) /\ (point = "ack" => async.ev.type = "RECV")
  <2>1. AfterApp \in {"get", "ack"} /\ (AfterApp = "ack" <=> async.ev.type = "RECV")
    BY <1>1, AfterAppIs
  <2>2. Go(AfterApp) \/ Go("unhook")
    BY Zenon DEF Check
  <2> QED BY <2>1, <2>2
<1>3. point \in Points \ (Calling \union {"putfirst", "put", "rest"}) /\ (point = "get" \/ Fits(async.ev.type, point))
  BY <1>1, <1>2 DEF Points, Calling, Turning, Fits
<1>4. async' \in AsyncTask /\ Registers'
  BY <1>1, <1>2, <1>3, GoTypes
<1> QED BY <1>4 DEF Check, taskOnly, library, history, TypeInv

LEMMA UnhookDoes ==
  ASSUME TypeInv, Unhook
  PROVE  /\ (async.at = "unhook" /\ Go("unrecv")) \/ (async.at = "unrecv" /\ Go("clear"))
         /\ async.ev \in Events /\ async.ev.type \in Apps
         /\ UNCHANGED <<server, traffic, heap, closedSlots, closedIndex, queue, lwip, delivered, causes>>
         /\ conn' \in [Conn -> Block]
         /\ \A q \in Conn :
              /\ conn'[q].state = conn[q].state /\ conn'[q].rx = conn[q].rx
              /\ conn'[q].arg = IF q = Client.pcb THEN None ELSE conn[q].arg
         /\ mishaps' \in [Conn -> SUBSET {"pcb", "client"}]
         /\ \A q \in Conn : "client" \in mishaps'[q] => "client" \in mishaps[q]
         /\ \A q \in Conn : "pcb" \in mishaps'[q] => "pcb" \in mishaps[q] \/ (q = Client.pcb /\ conn[q].state = "closed")
<1>1. /\ (async.at = "unhook" /\ Go("unrecv")) \/ (async.at = "unrecv" /\ Go("clear"))
      /\ async.ev \in Events /\ Fits(async.ev.type, async.at) /\ Client \in AsyncClient
  BY EventOfTask DEF Unhook
<1>2. async.ev.type \in Apps
  BY <1>1 DEF Fits, Closing, Turning
<1>3. CASE Client.pcb = 0
  <2>1. conn' = conn /\ mishaps' = mishaps
    BY <1>3, Zenon DEF Unhook
  <2>2. \A q \in Conn : q # 0
    BY SMT DEF Conn
  <2> QED BY <1>1, <1>2, <1>3, <2>1, <2>2 DEF Unhook, TypeInv, library
<1>4. CASE Client.pcb # 0
  <2> DEFINE p == Client.pcb
             what == IF conn[p].state = "closed" THEN {"pcb"} ELSE {}
  <2>1. p \in Conn
    BY <1>1, <1>4, ClientIs
  <2>2. conn' = [conn EXCEPT ![p].arg = None] /\ Mishap(p, what)
    BY <1>4, Zenon DEF Unhook
  <2> HIDE DEF p
  <2>3. /\ conn' \in [Conn -> Block] /\ conn'[p].state = conn[p].state /\ conn'[p].arg = None /\ conn'[p].rx = conn[p].rx
        /\ \A q \in Conn \ {p} : conn'[q] = conn[q]
    BY <2>1, <2>2, ConnWithArg DEF TypeInv
  <2>4. what \in SUBSET {"pcb", "client"} /\ ("pcb" \in what => conn[p].state = "closed") /\ "client" \notin what
    BY Zenon
  <2> HIDE DEF what
  <2>5. /\ mishaps' \in [Conn -> SUBSET {"pcb", "client"}]
        /\ \A q \in Conn : mishaps'[q] = mishaps[q] \union IF q = p THEN what ELSE {}
    BY <2>2, <2>4, MishapDoes DEF TypeInv
  <2>6. /\ \A q \in Conn : "client" \in mishaps'[q] => "client" \in mishaps[q]
        /\ \A q \in Conn : "pcb" \in mishaps'[q] => "pcb" \in mishaps[q] \/ (q = p /\ conn[q].state = "closed")
    BY <2>4, <2>5
  <2>7. \A q \in Conn :
              /\ conn'[q].state = conn[q].state /\ conn'[q].rx = conn[q].rx
              /\ conn'[q].arg = IF q = p THEN None ELSE conn[q].arg
    BY <2>3
  <2>8. UNCHANGED <<server, traffic, heap, closedSlots, closedIndex, queue, lwip, delivered, causes>>
    BY DEF Unhook, library
  <2> QED BY <1>1, <1>2, <2>3, <2>5, <2>6, <2>7, <2>8 DEF p
<1> QED BY <1>3, <1>4

LEMMA UnhookTypes == ASSUME TypeInv, Unhook PROVE TypeInv'
<1>1. \A point \in {"unrecv", "clear"} :
        point \in Points \ (Calling \union {"putfirst", "put", "rest"}) /\ Fits(async.ev.type, point)
  BY UnhookDoes DEF Points, Calling, Closing, Turning, Fits
<1>2. async' \in AsyncTask /\ Registers'
  BY <1>1, UnhookDoes, GoTypes
<1>3. \A p \in Conn : conn'[p].rx <= traffic'
  <2>1. \A p \in Conn : conn'[p].rx = conn[p].rx
    BY UnhookDoes
  <2>2. traffic' = traffic
    BY DEF Unhook
  <2> QED BY <2>1, <2>2 DEF TypeInv
<1> QED BY <1>2, <1>3, UnhookDoes DEF TypeInv

LEMMA ClearDoes ==
  ASSUME TypeInv, Clear
  PROVE  /\ async.at = "clear" /\ async.ev \in Events /\ async.ev.type \in Apps \union {"FIN"}
         /\ UNCHANGED <<server, conn, traffic, heap, closedSlots, closedIndex, lwip, delivered, mishaps, causes>>
         /\ Event("CLEAR", async.ev.arg, async.ev.pcb, 0) \in Events
         /\ queue' \in Seq(Events) /\ Len(queue) \in Nat /\ Len(queue') = Len(queue) + 1 /\ Len(queue') <= QueueLength
         /\ queue'[1] = Event("CLEAR", async.ev.arg, async.ev.pcb, 0)
         /\ \A i \in 2..Len(queue') : queue'[i] = queue[i - 1]
         /\ \A e : Queued(e)' => Queued(e) \/ e = Event("CLEAR", async.ev.arg, async.ev.pcb, 0)
         /\ Go(AfterClear) /\ AfterClear = (IF async.ev.type = "FIN" THEN "discard" ELSE "close")
<1> DEFINE e == Event("CLEAR", async.ev.arg, async.ev.pcb, 0)
<1>1. async.at = "clear" /\ async.ev \in Events /\ Fits(async.ev.type, "clear")
  BY EventOfTask DEF Clear
<1>2. async.ev.type \in Apps \union {"FIN"}
  BY <1>1 DEF Fits, Turning
<1>3. e \in Events
  <2>1. 0 \in 0..Traffic
    BY SMT, TcpAssumption
  <2> QED BY <1>1, <2>1, EventParts, NewEvent
<1> HIDE DEF e
<1>4. queue' = <<e>> \o queue /\ queue \in Seq(Events) /\ Len(queue) < QueueLength
  BY DEF Clear, TypeInv, e
<1>5. /\ queue' \in Seq(Events) /\ Len(queue) \in Nat /\ Len(queue') = Len(queue) + 1
      /\ queue'[1] = e
      /\ \A i \in 2..Len(queue') : queue'[i] = queue[i - 1]
  BY <1>3, <1>4, PrependQueue
<1>6. Len(queue') <= QueueLength /\ \A i \in 1..Len(queue') : i = 1 \/ (i \in 2..Len(queue') /\ i - 1 \in 1..Len(queue))
  BY SMT, <1>4, <1>5, TcpAssumption
<1>7. \A f : Queued(f)' => Queued(f) \/ f = e
  BY <1>5, <1>6 DEF Queued
<1>8. Go(AfterClear) /\ AfterClear = (IF async.ev.type = "FIN" THEN "discard" ELSE "close")
  BY DEF Clear, AfterClear
<1> QED BY <1>1, <1>2, <1>3, <1>5, <1>6, <1>7, <1>8 DEF Clear, taskOnly, library, history, e

LEMMA ClearTypes == ASSUME TypeInv, Clear PROVE TypeInv'
<1>1. AfterClear \in Points \ (Calling \union {"putfirst", "put", "rest"}) /\ Fits(async.ev.type, AfterClear)
  BY ClearDoes DEF Points, Calling, Closing, Turning, Fits, AfterClear
<1>2. async' \in AsyncTask /\ Registers'
  BY <1>1, ClearDoes, GoTypes
<1>3. queue' \in Seq(Events) /\ Len(queue') <= QueueLength
  BY ClearDoes
<1>4. UNCHANGED <<server, conn, traffic, heap, closedSlots, closedIndex, lwip, delivered, mishaps, causes>>
  BY ClearDoes
<1> QED BY <1>2, <1>3, <1>4 DEF TypeInv

\* Between the removal of the client's events and its end.
LEMMA CloseTypes == ASSUME TypeInv, Close \/ Abort PROVE TypeInv'
<1>1. async.at \in {"close", "abort"} /\ async.ev \in Events /\ async.ev.type \in Apps
  BY EventOfTask DEF Close, Abort, Fits, Turning
<1>2. async' \in AsyncTask /\ Registers'
  <2>1. CASE Go("discard")
    <3>1. "discard" \in Points \ (Calling \union {"putfirst", "put", "rest"}) /\ Fits(async.ev.type, "discard")
      BY <1>1 DEF Points, Calling, Closing, Turning, Fits
    <3> QED BY <1>1, <2>1, <3>1, GoTypes
  <2>2. CASE StartCall("close", "discard") \/ StartCall("abort", "discard")
    BY <1>1, <2>2, CallTypes DEF Calls
  <2> QED BY <2>1, <2>2, Zenon DEF Close, Abort
<1> QED BY <1>2 DEF Close, Abort, taskOnly, library, history, TypeInv

\* Where the task goes when the client has been discarded.
LEMMA DiscardGoes ==
  ASSUME TypeInv, Discard
  PROVE  /\ async.at = "discard" /\ async.ev \in Events /\ async.ev.type \in Apps \union Ends
         /\ \E point \in {"get", "ack"} : Go(point) /\ (point = "ack" => async.ev.type = "RECV")
<1>1. async.at = "discard" /\ async.ev \in Events /\ Fits(async.ev.type, "discard")
  BY EventOfTask DEF Discard
<1>2. async.ev.type \in Apps \union Ends
  BY <1>1 DEF Fits, Turning, Apps, Ends
<1>3. Go(IF async.ev.type \in {"FIN", "ERROR"} THEN "get" ELSE AfterApp)
  BY DEF Discard
<1>4. Go("get") \/ (async.ev.type \in Apps /\ Go(AfterApp))
  BY <1>2, <1>3, Zenon DEF Ends
<1> QED BY <1>1, <1>2, <1>4, AfterAppIs

LEMMA DiscardDoes ==
  ASSUME TypeInv, Discard
  PROVE  /\ UNCHANGED <<server, conn, traffic, lwip, queue, delivered, causes>>
         /\ \/ Client.hooked /\ SlotFrees(Client.slot) /\ ClientBecomes(async.ev.arg, NoClient)
            \/ /\ ~Client.hooked /\ UNCHANGED <<closedSlots, closedIndex>>
               /\ ClientBecomes(async.ev.arg, [Client EXCEPT !.pcb = 0])
         /\ mishaps' \in [Conn -> SUBSET {"pcb", "client"}]
         /\ \A q \in Conn : "client" \in mishaps'[q] => "client" \in mishaps[q]
         /\ \A q \in Conn : "pcb" \in mishaps'[q] =>
              "pcb" \in mishaps[q] \/ (q = async.ev.pcb /\ async.ev.type = "ERROR" /\ Client.pcb # 0)
<1>1. /\ async.ev.arg \in Addresses /\ Client \in AsyncClient /\ Client = heap[async.ev.arg]
      /\ Client.slot \in NoSlot..(Slots - 1) /\ heap \in [Addresses -> AsyncClient]
  BY EventOfTask, ClientIs DEF Discard, TypeInv
<1>2. \/ Client.hooked /\ SlotFrees(Client.slot) /\ ClientBecomes(async.ev.arg, NoClient)
      \/ /\ ~Client.hooked /\ UNCHANGED <<closedSlots, closedIndex>>
         /\ ClientBecomes(async.ev.arg, [Client EXCEPT !.pcb = 0])
  <2>1. CASE Client.hooked
    <3>1. FreeClosedSlot(Client.slot) /\ heap' = [heap EXCEPT ![async.ev.arg] = NoClient]
      BY <2>1, Zenon DEF Discard
    <3> QED BY <1>1, <2>1, <3>1, FreeSlot, NoClientIs, HeapWith DEF ClientBecomes
  <2>2. CASE ~Client.hooked
    <3> DEFINE c == [Client EXCEPT !.pcb = 0]
    <3>1. UNCHANGED library /\ heap' = [heap EXCEPT ![async.ev.arg].pcb = 0]
      BY <2>2, Zenon DEF Discard
    <3>2. heap' = [heap EXCEPT ![async.ev.arg] = c] /\ c \in AsyncClient
      BY <1>1, <3>1, LosesBlock
    <3> HIDE DEF c
    <3>3. ClientBecomes(async.ev.arg, c)
      BY <1>1, <3>2, HeapWith DEF ClientBecomes
    <3> QED BY <2>2, <3>1, <3>3 DEF library, c
  <2> QED BY <2>1, <2>2
<1>3. /\ mishaps' \in [Conn -> SUBSET {"pcb", "client"}]
      /\ \A q \in Conn : "client" \in mishaps'[q] => "client" \in mishaps[q]
      /\ \A q \in Conn : "pcb" \in mishaps'[q] =>
           "pcb" \in mishaps[q] \/ (q = async.ev.pcb /\ async.ev.type = "ERROR" /\ Client.pcb # 0)
  <2> DEFINE what == IF async.ev.type = "ERROR" /\ Client.pcb # 0 THEN {"pcb"} ELSE {}
  <2>1. Mishap(async.ev.pcb, what)
    BY DEF Discard
  <2>2. what \in SUBSET {"pcb", "client"} /\ "client" \notin what /\ ("pcb" \in what => async.ev.type = "ERROR" /\ Client.pcb # 0)
    BY Zenon
  <2> HIDE DEF what
  <2>3. /\ mishaps' \in [Conn -> SUBSET {"pcb", "client"}]
        /\ \A q \in Conn : mishaps'[q] = mishaps[q] \union IF q = async.ev.pcb THEN what ELSE {}
    BY <2>1, <2>2, MishapDoes DEF TypeInv
  <2>4. \A q \in Conn : "client" \in mishaps'[q] => "client" \in mishaps[q]
    BY <2>2, <2>3
  <2>5. \A q \in Conn : "pcb" \in mishaps'[q] =>
           "pcb" \in mishaps[q] \/ (q = async.ev.pcb /\ async.ev.type = "ERROR" /\ Client.pcb # 0)
    BY <2>2, <2>3
  <2> QED BY <2>3, <2>4, <2>5
<1>4. UNCHANGED <<server, conn, traffic, lwip, queue, delivered, causes>>
  BY DEF Discard, taskOnly
<1> QED BY <1>2, <1>3, <1>4

LEMMA DiscardTypes == ASSUME TypeInv, Discard PROVE TypeInv'
<1>1. PICK point \in {"get", "ack"} : Go(point) /\ (point = "ack" => async.ev.type = "RECV")
  BY DiscardGoes
<1>2. point \in Points \ (Calling \union {"putfirst", "put", "rest"}) /\ (point = "get" \/ Fits(async.ev.type, point))
  BY <1>1 DEF Points, Calling, Turning, Fits
<1>3. async' \in AsyncTask /\ Registers'
  BY <1>1, <1>2, DiscardGoes, GoTypes
<1>4. UNCHANGED <<server, conn, traffic, lwip, queue, delivered, causes>>
  BY DiscardDoes
<1>5. heap' \in [Addresses -> AsyncClient] /\ mishaps' \in [Conn -> SUBSET {"pcb", "client"}]
  BY DiscardDoes DEF ClientBecomes
<1>6. closedSlots' \in [0..(Slots - 1) -> Nat] /\ closedIndex' \in Nat \ {0}
  BY DiscardDoes DEF SlotFrees, TypeInv
<1> QED BY <1>3, <1>4, <1>5, <1>6 DEF TypeInv

\* An event is taken out of the queue, or none: what the task holds then.
Holds(point, h, f) ==
  /\ async' \in AsyncTask /\ async'.at = point /\ async'.ev = async.ev /\ async'.back = async.back
  /\ async'.call = async.call /\ async'.pcb = async.pcb /\ async'.held = h /\ async'.first = f

LEMMA TurnDoes ==
  ASSUME TypeInv, TurnFirst \/ TurnNext
  PROVE  /\ async.at \in {"first", "rest"} /\ async.ev \in Events /\ async.ev.type = "CLEAR" /\ async.held = NoEvent
         /\ UNCHANGED <<server, conn, traffic, heap, closedSlots, closedIndex, lwip, delivered, mishaps, causes>>
         /\ \/ queue' = queue /\ Go("get")
            \/ /\ queue # <<>> /\ queue[1] \in Events /\ queue' \in Seq(Events) /\ Len(queue') = Len(queue) - 1
               /\ Len(queue) \in Nat \ {0} /\ \A i \in 1..Len(queue') : queue'[i] = queue[i + 1]
               /\ \/ async' = async /\ Matches(queue[1])
                  \/ async.at = "first" /\ ~Matches(queue[1]) /\ Holds("putfirst", queue[1], queue[1])
                  \/ async.at = "rest" /\ ~Matches(queue[1]) /\ Holds("put", queue[1], async.first)
<1>1. async.at \in {"first", "rest"} /\ async.ev \in Events /\ Fits(async.ev.type, async.at)
  BY EventOfTask DEF TurnFirst, TurnNext
<1>2. async.ev.type = "CLEAR" /\ async.held = NoEvent
  BY <1>1 DEF Fits, Closing, Calling, TypeInv, Registers
<1>3. UNCHANGED <<server, conn, traffic, heap, closedSlots, closedIndex, lwip, delivered, mishaps, causes>>
  BY DEF TurnFirst, TurnNext, taskOnly, library, history
<1>4. ASSUME ~(queue' = queue /\ Go("get"))
      PROVE  /\ queue # <<>> /\ queue[1] \in Events /\ queue' \in Seq(Events) /\ Len(queue') = Len(queue) - 1
             /\ Len(queue) \in Nat \ {0} /\ \A i \in 1..Len(queue') : queue'[i] = queue[i + 1]
             /\ \/ async' = async /\ Matches(queue[1])
                \/ async.at = "first" /\ ~Matches(queue[1]) /\ Holds("putfirst", queue[1], queue[1])
                \/ async.at = "rest" /\ ~Matches(queue[1]) /\ Holds("put", queue[1], async.first)
  <2>1. queue \in Seq(Events) /\ queue # <<>> /\ queue' = Tail(queue)
    BY <1>4, Zenon DEF TurnFirst, TurnNext, TypeInv
  <2>2. /\ Head(queue) = queue[1] /\ queue[1] \in Events
        /\ queue' \in Seq(Events) /\ Len(queue') = Len(queue) - 1 /\ Len(queue) \in Nat \ {0}
        /\ \A i \in 1..Len(queue') : queue'[i] = queue[i + 1]
    BY <2>1, TailQueue
  <2>3. queue[1] \in OrNone /\ async \in AsyncTask
    BY <2>2 DEF OrNone, TypeInv
  <2>4. CASE async.at = "first" /\ ~Matches(queue[1])
    <3> DEFINE r == [async EXCEPT !.at = "putfirst"]
               s == [r EXCEPT !.held = queue[1]]
    <3>1. async' = [s EXCEPT !.first = queue[1]]
      BY <1>4, <2>2, <2>4, Zenon DEF TurnFirst, TurnNext
    <3>2. r \in AsyncTask /\ r.at = "putfirst" /\ SameBut(r, async, {"at"})
      BY <2>3, WithAt DEF Points, Turning
    <3> HIDE DEF r
    <3>3. s \in AsyncTask /\ s.held = queue[1] /\ SameBut(s, r, {"held"})
      BY <2>3, <3>2, WithHeld
    <3> HIDE DEF s
    <3>4. async' \in AsyncTask /\ async'.first = queue[1] /\ SameBut(async', s, {"first"})
      BY <2>3, <3>1, <3>3, WithFirst
    <3>5. Holds("putfirst", queue[1], queue[1])
      BY <3>2, <3>3, <3>4 DEF SameBut, Holds
    <3> QED BY <2>1, <2>2, <2>4, <3>5
  <2>5. CASE async.at = "rest" /\ ~Matches(queue[1])
    <3> DEFINE r == [async EXCEPT !.at = "put"]
    <3>1. async' = [r EXCEPT !.held = queue[1]]
      BY <1>4, <2>2, <2>5, Zenon DEF TurnFirst, TurnNext
    <3>2. r \in AsyncTask /\ r.at = "put" /\ SameBut(r, async, {"at"})
      BY <2>3, WithAt DEF Points, Turning
    <3> HIDE DEF r
    <3>3. async' \in AsyncTask /\ async'.held = queue[1] /\ SameBut(async', r, {"held"})
      BY <2>3, <3>1, <3>2, WithHeld
    <3>4. Holds("put", queue[1], async.first)
      BY <3>2, <3>3 DEF SameBut, Holds
    <3> QED BY <2>1, <2>2, <2>5, <3>4
  <2>6. CASE Matches(queue[1])
    <3>1. async' = async
      BY <1>4, <2>2, <2>6, Zenon DEF TurnFirst, TurnNext
    <3> QED BY <2>1, <2>2, <2>6, <3>1
  <2> QED BY <1>1, <2>4, <2>5, <2>6
<1> QED BY <1>1, <1>2, <1>3, <1>4, Zenon

LEMMA TurnTypes == ASSUME TypeInv, TurnFirst \/ TurnNext PROVE TypeInv'
<1>1. async.at \in {"first", "rest"} /\ async.ev \in Events /\ async.ev.type = "CLEAR" /\ async.held = NoEvent
  BY TurnDoes
<1>2. UNCHANGED <<server, conn, traffic, heap, closedSlots, closedIndex, lwip, delivered, mishaps, causes>>
  BY TurnDoes
<1>3. CASE queue' = queue /\ Go("get")
  <2>1. "get" \in Points \ (Calling \union {"putfirst", "put", "rest"})
    BY DEF Points, Calling, Turning
  <2>2. async' \in AsyncTask /\ Registers'
    BY <1>3, <2>1, GoTypes
  <2> QED BY <1>2, <1>3, <2>2 DEF TypeInv
<1>4. CASE ~(queue' = queue /\ Go("get"))
  <2>1. queue[1] \in Events /\ queue' \in Seq(Events) /\ Len(queue') = Len(queue) - 1 /\ Len(queue) \in Nat
    BY <1>4, TurnDoes
  <2>2. Len(queue') <= QueueLength
    BY SMT, <2>1, TcpAssumption DEF TypeInv
  <2>3. \/ async' = async
        \/ async.at = "first" /\ Holds("putfirst", queue[1], queue[1])
        \/ async.at = "rest" /\ Holds("put", queue[1], async.first)
    BY <1>4, TurnDoes
  <2>4. async' \in AsyncTask /\ Registers'
    <3>1. CASE async' = async
      BY <3>1 DEF TypeInv, Registers
    <3>2. CASE async.at = "first" /\ Holds("putfirst", queue[1], queue[1])
      BY <1>1, <2>1, <3>2 DEF Holds, Registers, Fits, Turning, Calling
    <3>3. CASE async.at = "rest" /\ Holds("put", queue[1], async.first)
      <4>1. async.first \in Events
        BY <3>3 DEF TypeInv, Registers
      <4> QED BY <1>1, <2>1, <3>3, <4>1 DEF Holds, Registers, Fits, Turning, Calling
    <3> QED BY <2>3, <3>1, <3>2, <3>3
  <2> QED BY <1>2, <2>1, <2>2, <2>4 DEF TypeInv
<1> QED BY <1>3, <1>4

LEMMA PutBackDoes ==
  ASSUME TypeInv, PutBack
  PROVE  /\ async.at \in {"putfirst", "put"} /\ async.held \in Events /\ async.ev \in Events /\ async.ev.type = "CLEAR"
         /\ async.first \in Events /\ (async.at = "putfirst" => async.held = async.first)
         /\ UNCHANGED <<server, conn, traffic, heap, closedSlots, closedIndex, lwip, delivered, mishaps, causes>>
         /\ Holds("rest", NoEvent, async.first)
         /\ queue' \in Seq(Events) /\ Len(queue) \in Nat /\ Len(queue') = Len(queue) + 1 /\ Len(queue') <= QueueLength
         /\ queue'[Len(queue) + 1] = async.held
         /\ \A i \in 1..Len(queue) : queue'[i] = queue[i]
<1>1. async.at \in {"putfirst", "put"} /\ async.ev \in Events /\ Fits(async.ev.type, async.at)
  BY EventOfTask DEF PutBack
<1>2. /\ async.ev.type = "CLEAR" /\ async.held \in Events /\ async.first \in Events
      /\ async.at = "putfirst" => async.held = async.first
  BY <1>1 DEF Fits, Closing, Calling, TypeInv, Registers
<1>3. UNCHANGED <<server, conn, traffic, heap, closedSlots, closedIndex, lwip, delivered, mishaps, causes>>
  BY DEF PutBack, taskOnly, library, history
<1>4. Holds("rest", NoEvent, async.first)
  <2> DEFINE r == [async EXCEPT !.at = "rest"]
  <2>1. async' = [r EXCEPT !.held = NoEvent] /\ async \in AsyncTask
    BY DEF PutBack, TypeInv
  <2>2. r \in AsyncTask /\ r.at = "rest" /\ SameBut(r, async, {"at"})
    BY <2>1, WithAt DEF Points, Turning
  <2> HIDE DEF r
  <2>3. async' \in AsyncTask /\ async'.held = NoEvent /\ SameBut(async', r, {"held"})
    BY <2>1, <2>2, WithHeld, NoEventParts
  <2> QED BY <2>2, <2>3 DEF SameBut, Holds
<1>5. queue \in Seq(Events) /\ Len(queue) < QueueLength /\ queue' = Append(queue, async.held)
  BY DEF PutBack, TypeInv
<1>6. /\ queue' \in Seq(Events) /\ Len(queue) \in Nat /\ Len(queue') = Len(queue) + 1
      /\ queue'[Len(queue) + 1] = async.held
      /\ \A i \in 1..Len(queue) : queue'[i] = queue[i]
  BY <1>2, <1>5, AppendQueue
<1>7. Len(queue') <= QueueLength
  BY SMT, <1>5, <1>6, TcpAssumption
<1> QED BY <1>1, <1>2, <1>3, <1>4, <1>6, <1>7

LEMMA PutBackTypes == ASSUME TypeInv, PutBack PROVE TypeInv'
<1>1. async' \in AsyncTask /\ Registers'
  BY PutBackDoes DEF Holds, Registers, Fits, Turning, Calling
<1>2. queue' \in Seq(Events) /\ Len(queue') <= QueueLength
  BY PutBackDoes
<1>3. UNCHANGED <<server, conn, traffic, heap, closedSlots, closedIndex, lwip, delivered, mishaps, causes>>
  BY PutBackDoes
<1> QED BY <1>1, <1>2, <1>3 DEF TypeInv

LEMMA TypeStep == TypeInv /\ [Next]_vars => TypeInv'
<1> SUFFICES ASSUME TypeInv, [Next]_vars PROVE TypeInv'
  OBVIOUS
<1>1. CASE UNCHANGED vars
  BY <1>1 DEF vars, library, history, TypeInv, Registers
<1>2. CASE Begin \/ End
  BY <1>2, ServerTypes
<1>3. CASE Peer
  BY <1>3, AcceptTypes, ReceiveTypes, TickTypes, FinTypes, CeasesTypes DEF Peer, Ceases
<1>4. CASE Post \/ Serve
  BY <1>4, PostTypes, ServeTypes
<1>5. CASE Task
  BY <1>5, TakeTypes, AppTypes, ReadSlotTypes, AckTypes, CheckTypes, UnhookTypes, ClearTypes, CloseTypes, DiscardTypes,
     TurnTypes, PutBackTypes DEF Task
<1> QED BY <1>1, <1>2, <1>3, <1>4, <1>5 DEF Next

-----------------------------------------------------------------------------
(* The invariant of types implies the types of the model.                  *)

LEMMA TypesOK == TypeInv => TypeOK
<1> SUFFICES ASSUME TypeInv PROVE TypeOK
  OBVIOUS
<1> DEFINE E == [type : {None, "ACCEPT", "RECV", "SENT", "POLL", "FIN", "ERROR", "CLEAR"},
                 arg : Addresses \union {None}, pcb : 0..Connections, n : 0..Traffic]
           P == {"get", "app", "ack", "check", "unhook", "unrecv", "clear", "close",
                 "abort", "discard", "slot", "call", "first", "putfirst", "rest", "put"}
<1>1. Events \subseteq E /\ OrNone \subseteq E
  <2>1. Conn \subseteq 0..Connections /\ 0 \in 0..Connections /\ 0 \in 0..Traffic
    BY SMT, TcpAssumption DEF Conn
  <2>2. Events \subseteq E
    BY <2>1 DEF Events, Apps, Ends
  <2>3. NoEvent \in E
    BY <2>1 DEF NoEvent, Event
  <2> QED BY <2>2, <2>3 DEF OrNone
<1>2. queue \in Seq(E)
  <2>1. queue \in Seq(Events)
    BY DEF TypeInv
  <2> HIDE DEF E
  <2> QED BY SMT, <1>1, <2>1, SeqDef
<1>3. async \in [at : P, ev : E, back : P, pcb : 0..Connections, slot : NoSlot..(Slots - 1),
                 call : {None, "write", "recved", "close", "abort"}, held : E, first : E]
  <2>1. async \in AsyncTask
    BY DEF TypeInv
  <2>2. Points \subseteq P /\ {"get", "ack", "check", "discard"} \subseteq P
    BY DEF Points, Closing, Calling, Turning
  <2>3. Calls \union {None} \subseteq {None, "write", "recved", "close", "abort"}
    BY DEF Calls
  <2> HIDE DEF E, P
  <2> QED BY <1>1, <2>1, <2>2, <2>3 DEF AsyncTask
<1>4. conn \in [Conn -> [state : {"new", "open", "closed"}, arg : Addresses \union {None}, rx : 0..Traffic]]
  BY DEF TypeInv, Block
<1>5. lwip \in E
  BY <1>1 DEF TypeInv
<1>6. causes \in [Conn -> SUBSET {"reset", "fin in a call", "slot given away", "fin in _close",
                                     "fin unhooked", "closed in onData", "rotation",
                                     "address reused", "no slot"}]
  BY DEF TypeInv, Causes
<1>7. closedIndex \in Nat
  BY DEF TypeInv
<1> QED BY <1>2, <1>3, <1>4, <1>5, <1>6, <1>7, Zenon DEF TypeInv, TypeOK

-----------------------------------------------------------------------------
(* Clients and control blocks: what the steps keep.                        *)

\* Control blocks only close and lose their client.
BlocksFade ==
  \A q \in Conn :
    /\ conn[q].state # "new" => conn'[q].state # "new"
    /\ conn'[q].arg = None \/ (conn'[q].arg = conn[q].arg /\ conn'[q].state = conn[q].state)
ClientsStay ==
  \A a \in Addresses :
    heap'[a].conn = heap[a].conn /\ heap'[a].pcb = heap[a].pcb /\ heap'[a].slot = heap[a].slot

LEMMA BlocksStay == ASSUME conn' = conn PROVE BlocksFade
BY DEF BlocksFade

LEMMA ClosingFades == ASSUME NEW p \in Conn, BlockCloses(p) PROVE BlocksFade
BY DEF BlockCloses, BlocksFade

LEMMA ClientLinksKept ==
  ASSUME TypeInv, ClientLinks, BlocksFade, ClientsStay
  PROVE  ClientLinks'
<1>1. \A p \in Conn : conn'[p].arg # None =>
        conn'[p].state = "open" /\ heap'[conn'[p].arg].conn = p /\ heap'[conn'[p].arg].pcb = p
  BY ClientOfBlock DEF ClientLinks, BlocksFade, ClientsStay
<1>2. \A a \in Addresses :
        /\ heap'[a].pcb \in {0, heap'[a].conn}
        /\ heap'[a].conn = 0 => heap'[a].slot = NoSlot
        /\ heap'[a].conn # 0 => conn'[heap'[a].conn].state # "new"
  <2> TAKE a \in Addresses
  <2>1. heap[a] \in AsyncClient
    BY DEF TypeInv
  <2>2. heap[a].conn # 0 => heap[a].conn \in Conn
    BY <2>1, ClientIs
  <2> QED BY <2>2 DEF ClientLinks, BlocksFade, ClientsStay
<1>3. \A a, b \in Addresses : heap'[a].conn = heap'[b].conn /\ heap'[a].conn # 0 => a = b
  BY DEF ClientLinks, ClientsStay
<1> QED BY <1>1, <1>2, <1>3 DEF ClientLinks

LEMMA AcceptLinks == ASSUME TypeInv, Links, Accept PROVE ClientLinks'
<1>1. PICK p \in Conn, a \in Addresses, s \in NoSlot..(Slots - 1) : Accepted(p, a, s)
  BY AcceptDoes
<1>2. /\ conn[p].state = "new" /\ heap[a] = NoClient
      /\ conn'[p].state = "open" /\ conn'[p].arg = a
      /\ \A q \in Conn \ {p} : conn'[q] = conn[q]
      /\ heap'[a] = NewClient(p, s)
      /\ \A b \in Addresses \ {a} : heap'[b] = heap[b]
  BY <1>1 DEF Accepted
<1>3. /\ heap'[a].conn = p /\ heap'[a].pcb = p /\ heap'[a].slot = s /\ heap[a].conn = 0 /\ p # 0
  <2>1. p # 0
    BY SMT DEF Conn
  <2>2. heap'[a] = NewClient(p, s) /\ heap[a] = NoClient
    BY <1>2
  <2>3. NewClient(p, s).conn = p /\ NewClient(p, s).pcb = p /\ NewClient(p, s).slot = s
    BY NewClientIs
  <2> QED BY <2>1, <2>2, <2>3, NoClientIs
<1>4. \A b \in Addresses \ {a} : heap[b].conn # p /\ (heap[b].conn # 0 => heap[b].conn \in Conn)
  BY <1>2, <1>3, ClientIs DEF Links, ClientLinks, TypeInv
<1>5. \A q \in Conn : conn'[q].arg # None =>
        conn'[q].state = "open" /\ heap'[conn'[q].arg].conn = q /\ heap'[conn'[q].arg].pcb = q
  <2> SUFFICES ASSUME NEW q \in Conn, conn'[q].arg # None
               PROVE  conn'[q].state = "open" /\ heap'[conn'[q].arg].conn = q /\ heap'[conn'[q].arg].pcb = q
    OBVIOUS
  <2>1. CASE q = p
    BY <1>2, <1>3, <2>1
  <2>2. CASE q # p
    <3>1. conn'[q] = conn[q] /\ conn[q].arg \in Addresses /\ heap[conn[q].arg].conn = q /\ heap[conn[q].arg].pcb = q
          /\ conn[q].state = "open"
      BY <1>2, <2>2, ClientOfBlock DEF Links, ClientLinks
    <3>2. q # 0
      BY SMT DEF Conn
    <3> QED BY <1>2, <1>3, <3>1, <3>2
  <2> QED BY <2>1, <2>2
<1>6. \A b \in Addresses :
        /\ heap'[b].pcb \in {0, heap'[b].conn}
        /\ heap'[b].conn = 0 => heap'[b].slot = NoSlot
        /\ heap'[b].conn # 0 => conn'[heap'[b].conn].state # "new"
  BY <1>2, <1>3, <1>4 DEF Links, ClientLinks
<1>7. \A b, c \in Addresses : heap'[b].conn = heap'[c].conn /\ heap'[b].conn # 0 => b = c
  BY <1>2, <1>3, <1>4 DEF Links, ClientLinks
<1> QED BY <1>5, <1>6, <1>7 DEF ClientLinks

LEMMA FinLinks == ASSUME TypeInv, Links, NEW p \in Conn, Fin(p) PROVE ClientLinks'
<1> DEFINE a == conn[p].arg
<1>1. /\ conn[p].state = "open" /\ a \in Addresses /\ a # None
      /\ conn'[p].state = "closed" /\ conn'[p].arg = None
      /\ \A q \in Conn \ {p} : conn'[q] = conn[q]
      /\ heap'[a].pcb = 0 /\ heap'[a].slot = NoSlot /\ heap'[a].conn = heap[a].conn
      /\ \A b \in Addresses \ {a} : heap'[b] = heap[b]
  BY FinDoes DEF BlockCloses
<1>2. heap[a].conn = p
  BY <1>1 DEF Links, ClientLinks
<1> HIDE DEF a
<1>3. \A q \in Conn : conn'[q].arg # None =>
        conn'[q].state = "open" /\ heap'[conn'[q].arg].conn = q /\ heap'[conn'[q].arg].pcb = q
  BY <1>1, <1>2, ClientOfBlock DEF Links, ClientLinks
<1>4. \A b \in Addresses :
        /\ heap'[b].pcb \in {0, heap'[b].conn}
        /\ heap'[b].conn = 0 => heap'[b].slot = NoSlot
        /\ heap'[b].conn # 0 => conn'[heap'[b].conn].state # "new"
  <2> TAKE b \in Addresses
  <2>1. heap[b].conn # 0 => heap[b].conn \in Conn
    BY ClientIs DEF TypeInv
  <2> QED BY <1>1, <1>2, <2>1 DEF Links, ClientLinks
<1>5. \A b, c \in Addresses : heap'[b].conn = heap'[c].conn /\ heap'[b].conn # 0 => b = c
  BY <1>1, <1>2 DEF Links, ClientLinks
<1> QED BY <1>3, <1>4, <1>5 DEF ClientLinks

\* The task's client at the points where it has one.
LEMMA ClientOfTask ==
  ASSUME TypeInv, Links, HasClient
  PROVE  /\ async.at # "get" /\ async.ev \in Events /\ async.ev.arg \in Addresses /\ async.ev.pcb \in Conn /\ async.ev.pcb # 0
         /\ Client = heap[async.ev.arg] /\ Client \in AsyncClient
         /\ Client.conn = async.ev.pcb /\ Client.pcb \in {0, async.ev.pcb}
<1>1. async.at # "get"
  BY DEF HasClient
<1>2. async.ev \in Events /\ async.ev.arg \in Addresses /\ async.ev.pcb \in Conn /\ Client = heap[async.ev.arg] /\ Client \in AsyncClient
  BY <1>1, EventOfTask
<1>3. async.ev.pcb # 0
  BY <1>2, SMT DEF Conn
<1> QED BY <1>1, <1>2, <1>3 DEF Links, ClientLinks, TaskLinks

LEMMA DiscardClientLinks == ASSUME TypeInv, Links, Discard PROVE ClientLinks'
<1> DEFINE a == async.ev.arg
           p == async.ev.pcb
<1>1. HasClient /\ IsClosing
  BY DiscardGoes DEF HasClient, IsClosing, Closing, Turning
<1>2. a \in Addresses /\ p \in Conn /\ p # 0 /\ heap[a].conn = p /\ heap[a] \in AsyncClient /\ conn[p].arg = None
  BY <1>1, ClientOfTask DEF Links, TaskLinks
<1>3. conn' = conn
  BY DiscardDoes
<1>4. \A b \in Addresses \ {a} : heap'[b] = heap[b]
  BY DiscardDoes DEF ClientBecomes
<1>5. \/ heap'[a].conn = 0 /\ heap'[a].pcb = 0 /\ heap'[a].slot = NoSlot
      \/ heap'[a].conn = p /\ heap'[a].pcb = 0
  <2>1. \/ heap'[a] = NoClient
        \/ heap'[a] = [Client EXCEPT !.pcb = 0]
    BY DiscardDoes DEF ClientBecomes
  <2> QED BY <1>2, <2>1, NoClientIs, LosesBlock DEF Client
<1> HIDE DEF a, p
<1>6. \A q \in Conn : conn'[q].arg # None =>
        conn'[q].state = "open" /\ heap'[conn'[q].arg].conn = q /\ heap'[conn'[q].arg].pcb = q
  BY <1>2, <1>3, <1>4, ClientOfBlock DEF Links, ClientLinks
<1>7. \A b \in Addresses :
        /\ heap'[b].pcb \in {0, heap'[b].conn}
        /\ heap'[b].conn = 0 => heap'[b].slot = NoSlot
        /\ heap'[b].conn # 0 => conn'[heap'[b].conn].state # "new"
  BY <1>2, <1>3, <1>4, <1>5 DEF Links, ClientLinks
<1>8. \A b, c \in Addresses : heap'[b].conn = heap'[c].conn /\ heap'[b].conn # 0 => b = c
  BY <1>2, <1>4, <1>5 DEF Links, ClientLinks
<1> QED BY <1>6, <1>7, <1>8 DEF ClientLinks

\* The task stays where it is, in its client's hands.
LEMMA TaskLinksStay ==
  ASSUME TypeInv, Links, BlocksFade, ClientsStay, async' = async
  PROVE  TaskLinks'
<1>1. HasClient => async.ev.arg \in Addresses /\ async.ev.pcb \in Conn
  BY ClientOfTask
<1>2. IsClosing => HasClient
  BY DEF IsClosing, HasClient, Closing, Calling, Turning
<1> QED BY <1>1, <1>2 DEF Links, TaskLinks, HasClient, IsClosing, BlocksFade, ClientsStay

\* The task goes on with its client.
LEMMA TaskLinksGo ==
  ASSUME TypeInv, Links, HasClient, BlocksFade, ClientsStay, NEW point \in Points \ Calling, Go(point),
         point \in Closing => conn'[async.ev.pcb].arg = None
  PROVE  TaskLinks'
<1>1. async'.at = point /\ (point # "get" => async'.ev = async.ev)
  BY GoDoes DEF TypeInv
<1>2. async.ev.arg \in Addresses /\ heap[async.ev.arg].conn = async.ev.pcb
  BY ClientOfTask
<1>3. async'.at \notin Calling /\ (HasClient' => point # "get")
  BY <1>1 DEF HasClient
<1>4. HasClient' => heap'[async'.ev.arg].conn = async'.ev.pcb
  BY <1>1, <1>2, <1>3 DEF ClientsStay
<1>5. IsClosing' => conn'[async'.ev.pcb].arg = None
  BY <1>1, <1>3 DEF IsClosing, Closing
<1> QED BY <1>3, <1>4, <1>5 DEF TaskLinks

\* The task starts a call for its client.
LEMMA TaskLinksCall ==
  ASSUME TypeInv, Links, Client.conn = async.ev.pcb, async.ev \in Events, BlocksFade, ClientsStay,
         NEW call \in Calls, NEW back \in {"get", "ack", "check", "discard"},
         StartCall(call, back), call \in {"close", "abort"} => conn'[async.ev.pcb].arg = None
  PROVE  TaskLinks'
<1>1. async.ev.arg \in Addresses /\ Client = heap[async.ev.arg] /\ Client \in AsyncClient
  BY EventParts DEF TypeInv, Client
<1>2. /\ async'.at = "slot" /\ async'.ev = async.ev /\ async'.pcb = Client.pcb /\ async'.call = call
  BY <1>1, ClientIs, StartCallDoes DEF TypeInv
<1>3. Client.pcb \in {0, async.ev.pcb}
  BY <1>1 DEF Links, ClientLinks
<1>4. HasClient' => heap'[async'.ev.arg].conn = async'.ev.pcb
  BY <1>1, <1>2 DEF ClientsStay
<1>5. IsClosing' => conn'[async'.ev.pcb].arg = None
  BY <1>2 DEF IsClosing, Closing
<1> QED BY <1>2, <1>3, <1>4, <1>5 DEF TaskLinks

\* Without a client there is nothing to link.
LEMMA TaskLinksNone == ASSUME async'.at \in {"get", "ack"} \union Turning PROVE TaskLinks'
BY DEF TaskLinks, HasClient, IsClosing, Closing, Calling, Turning

LEMMA ServerLinks == ASSUME TypeInv, Links, Begin \/ End \/ Post PROVE Links'
<1>1. conn' = conn /\ heap' = heap /\ async' = async
  BY DEF Begin, End, Post
<1>2. BlocksFade /\ ClientsStay
  BY <1>1 DEF BlocksFade, ClientsStay
<1> QED BY <1>1, <1>2, ClientLinksKept, TaskLinksStay DEF Links

LEMMA TrafficLinks == ASSUME TypeInv, Links, NEW p \in Conn, Receive(p) \/ Poll(p) \/ Sent(p) \/ Ceases(p) PROVE Links'
<1>1. heap' = heap /\ async' = async
  BY DEF Receive, Poll, Sent, Tick, Ceases, Reset, FinUnhooked
<1>2. BlocksFade
  <2>1. CASE Receive(p)
    BY <2>1, ReceiveDoes DEF BlocksFade
  <2>2. CASE Poll(p) \/ Sent(p)
    BY <2>2 DEF Poll, Sent, Tick, BlocksFade
  <2>3. CASE Ceases(p)
    BY <2>3, CeasesDoes, ClosingFades
  <2> QED BY <2>1, <2>2, <2>3
<1> QED BY <1>1, <1>2, ClientLinksKept, TaskLinksStay DEF Links, ClientsStay

LEMMA PeerLinks == ASSUME TypeInv, Links, NEW p \in Conn, Accept \/ Fin(p) PROVE Links'
<1>1. async' = async
  BY DEF Accept, Fin
<1>2. IsClosing => HasClient
  BY DEF IsClosing, HasClient, Closing, Calling, Turning
<1>3. ASSUME HasClient
      PROVE  heap'[async.ev.arg].conn = async.ev.pcb /\ (conn[async.ev.pcb].arg = None => conn'[async.ev.pcb].arg = None)
  <2>1. /\ async.ev.arg \in Addresses /\ async.ev.pcb \in Conn /\ async.ev.pcb # 0
        /\ heap[async.ev.arg].conn = async.ev.pcb
    BY <1>3, ClientOfTask
  <2>2. conn[async.ev.pcb].state # "new"
    BY <2>1 DEF Links, ClientLinks
  <2>3. CASE Accept
    <3>1. PICK q \in Conn, a \in Addresses, s \in NoSlot..(Slots - 1) : Accepted(q, a, s)
      BY <2>3, AcceptDoes
    <3>2. /\ conn[q].state = "new" /\ heap[a] = NoClient
          /\ \A r \in Conn \ {q} : conn'[r] = conn[r]
          /\ \A b \in Addresses \ {a} : heap'[b] = heap[b]
      BY <3>1 DEF Accepted
    <3> QED BY <2>1, <2>2, <3>2, NoClientIs
  <2>4. CASE Fin(p)
    <3>1. \A b \in Addresses : heap'[b].conn = heap[b].conn
      BY <2>4, FinDoes
    <3>2. BlocksFade
      BY <2>4, FinDoes, ClosingFades
    <3> QED BY <2>1, <3>1, <3>2 DEF BlocksFade
  <2> QED BY <2>3, <2>4
<1>4. TaskLinks'
  BY <1>1, <1>2, <1>3 DEF Links, TaskLinks, HasClient, IsClosing
<1> QED BY <1>4, AcceptLinks, FinLinks DEF Links

LEMMA ServeLinks == ASSUME TypeInv, Links, Serve PROVE Links'
<1>1. async.at = "call" /\ heap' = heap /\ async.pcb \in Conn
  BY ServeIs
<1>2. BlocksFade /\ ClientsStay
  <2>1. conn' = conn \/ BlockCloses(async.pcb)
    BY ServeEffects
  <2> QED BY <1>1, <2>1, ClosingFades, BlocksStay DEF ClientsStay
<1>3. HasClient /\ (async.call \in {"close", "abort"} => IsClosing)
  BY <1>1 DEF HasClient, IsClosing, Calling, Turning
<1>4. async.ev.pcb \in Conn
  BY <1>3, ClientOfTask
<1>5. async.call \in {"close", "abort"} => conn'[async.ev.pcb].arg = None
  BY <1>2, <1>3, <1>4 DEF Links, TaskLinks, BlocksFade
<1>6. PICK point \in {"get", "ack", "check", "discard", "abort"} :
        Go(point) /\ (point \in {"discard", "abort"} => async.call \in {"close", "abort"})
  BY ServeGoes
<1>7. point \in Points \ Calling /\ (point \in Closing => conn'[async.ev.pcb].arg = None)
  BY <1>5, <1>6 DEF Points, Closing, Calling
<1>8. TaskLinks'
  BY <1>2, <1>3, <1>6, <1>7, TaskLinksGo
<1> QED BY <1>2, <1>8, ClientLinksKept DEF Links

LEMMA TakeLinks == ASSUME TypeInv, Links, EventsFit, Take PROVE Links'
<1>1. conn' = conn /\ queue[1] \in Events /\ Queued(queue[1])
  BY TakeDoes
<1>2. ClientsStay /\ BlocksFade
  BY <1>1, TakeHooks, BlocksStay DEF ClientsStay
<1>3. TaskLinks'
  <2>1. CASE async' = Idle
    BY <2>1, IdleIs, TaskLinksNone
  <2>2. CASE async' # Idle
    <3>1. PICK point \in {"app", "ack", "clear", "discard", "first"} :
              /\ TakesTo(queue[1], point) /\ TakesFrom(queue[1])
              /\ async'.at = point /\ async'.ev = queue[1]
      BY <2>2, TakeGoes
    <3>2. CASE point \in {"ack", "first"}
      BY <3>1, <3>2, TaskLinksNone DEF Turning
    <3>3. CASE point \in {"app", "clear", "discard"}
      <4>1. heap[queue[1].arg].conn = queue[1].pcb /\ (point \in {"clear", "discard"} => queue[1].type \in Ends)
        BY <3>1, <3>3 DEF TakesTo, TakesFrom, Apps, Ends
      <4>2. queue[1].arg \in Addresses /\ queue[1].pcb \in Conn
        BY <1>1, EventParts
      <4>3. queue[1].type \in Ends => conn[queue[1].pcb].arg = None
        <5>1. EventFits(queue[1])
          BY <1>1 DEF EventsFit, Waits, Queued
        <5> QED BY <4>2, <5>1 DEF EventFits, Links, ClientLinks
      <4>4. heap'[async'.ev.arg].conn = async'.ev.pcb
        BY <1>2, <3>1, <4>1, <4>2 DEF ClientsStay
      <4>5. IsClosing' => conn'[async'.ev.pcb].arg = None
        BY <1>1, <3>1, <3>3, <4>1, <4>3 DEF IsClosing, Closing, Calling
      <4> QED BY <3>1, <3>3, <4>4, <4>5 DEF TaskLinks, Calling
    <3> QED BY <3>2, <3>3
  <2> QED BY <2>1, <2>2
<1> QED BY <1>2, <1>3, ClientLinksKept DEF Links

LEMMA AppLinks == ASSUME TypeInv, Links, AppReturns \/ AppWrites \/ AppCloses \/ Check PROVE Links'
<1>1. /\ async.at \in {"app", "check"} /\ async.ev \in Events /\ async.ev.type \in Apps
      /\ AfterApp \in {"get", "ack"} /\ (AfterApp = "ack" <=> async.ev.type = "RECV")
  <2>1. async.at \in {"app", "check"} /\ async.ev \in Events /\ Fits(async.ev.type, async.at)
    BY EventOfTask DEF AppReturns, AppWrites, AppCloses, Check
  <2>2. async.ev.type \in Apps
    BY <2>1 DEF Fits, Closing, Calling, Turning
  <2> QED BY <2>1, <2>2, AfterAppIs
<1>2. HasClient
  BY <1>1 DEF HasClient, Turning
<1>3. conn' = conn /\ heap' = heap
  BY DEF AppReturns, AppWrites, AppCloses, Check, taskOnly
<1>4. BlocksFade /\ ClientsStay
  BY <1>3, BlocksStay DEF ClientsStay
<1>5. TaskLinks'
  <2>1. CASE Go("get") \/ Go("ack") \/ Go("check") \/ Go("unhook")
    <3>1. PICK point \in {"get", "ack", "check", "unhook"} : Go(point)
      BY <2>1
    <3>2. point \in Points \ Calling /\ point \notin Closing
      BY <3>1 DEF Points, Closing, Calling
    <3> QED BY <1>2, <1>4, <3>1, <3>2, TaskLinksGo
  <2>2. CASE StartCall("write", AfterApp) \/ StartCall("recved", "check")
    <3>1. PICK call \in {"write", "recved"}, back \in {"get", "ack", "check"} : StartCall(call, back)
      BY <1>1, <2>2
    <3>2. call \in Calls /\ call \notin {"close", "abort"} /\ back \in {"get", "ack", "check", "discard"}
      BY <3>1 DEF Calls
    <3> QED BY <1>1, <1>2, <1>4, <3>1, <3>2, TaskLinksCall, ClientOfTask
  <2> QED BY <1>1, <2>1, <2>2, Zenon DEF AppReturns, AppWrites, AppCloses, Check
<1> QED BY <1>4, <1>5, ClientLinksKept DEF Links

LEMMA ReadSlotLinks == ASSUME TypeInv, Links, ReadSlot PROVE Links'
<1>1. async.at = "slot" /\ HasClient /\ async.ev \in Events
  BY ReadSlotDoes DEF HasClient, Turning
<1>2. conn' = conn /\ heap' = heap
  BY DEF ReadSlot, taskOnly
<1>3. BlocksFade /\ ClientsStay
  BY <1>2, BlocksStay DEF ClientsStay
<1>4. IF async.call \in {"close", "abort"} THEN async.back = "discard" ELSE async.back \in {"get", "ack", "check"}
  BY <1>1 DEF TypeInv, Registers, AsyncTask, Calling
<1>5. TaskLinks'
  <2>1. CASE Go(async.back)
    <3>1. async.back \in Points \ Calling /\ (async.back \in Closing => async.call \in {"close", "abort"})
      BY <1>4 DEF Points, Closing, Calling
    <3>2. async.call \in {"close", "abort"} => conn[async.ev.pcb].arg = None
      BY <1>1 DEF Links, TaskLinks, IsClosing, Calling
    <3> QED BY <1>1, <1>2, <1>3, <2>1, <3>1, <3>2, TaskLinksGo
  <2>2. CASE async'.at = "call" /\ SameBut(async', async, {"at", "slot"})
    <3>1. async'.ev = async.ev /\ async'.pcb = async.pcb /\ async'.call = async.call
      BY <2>2 DEF SameBut
    <3> QED BY <1>1, <1>2, <2>2, <3>1 DEF Links, TaskLinks, HasClient, IsClosing, Calling, Closing, Turning
  <2> QED BY <2>1, <2>2, ReadSlotDoes
<1> QED BY <1>3, <1>5, ClientLinksKept DEF Links

LEMMA AckLinks == ASSUME TypeInv, Links, Ack PROVE Links'
<1>1. async.at = "ack" /\ async.ev \in Events
  BY EventOfTask DEF Ack
<1>2. conn' = conn /\ heap' = heap
  BY DEF Ack, taskOnly
<1>3. BlocksFade /\ ClientsStay
  BY <1>2, BlocksStay DEF ClientsStay
<1>4. Go("get") \/ (~Deleted /\ StartCall("recved", "get"))
  BY Zenon DEF Ack
<1>5. CASE Go("get")
  <2>1. async'.at = "get"
    BY <1>5, GoDoes DEF TypeInv, Points
  <2> QED BY <1>3, <2>1, TaskLinksNone, ClientLinksKept DEF Links
<1>6. CASE ~Deleted /\ StartCall("recved", "get")
  <2>1. Client.conn = async.ev.pcb /\ "recved" \in Calls
    BY <1>6 DEF Deleted, Calls
  <2>2. TaskLinks'
    BY <1>1, <1>3, <1>6, <2>1, TaskLinksCall
  <2> QED BY <1>3, <2>2, ClientLinksKept DEF Links
<1> QED BY <1>4, <1>5, <1>6

\* Once tcp_arg has been taken away, by lwIP or by the task, it stays away.
LEMMA UnhookLinks == ASSUME TypeInv, Links, Unhook PROVE Links'
<1>1. (Go("unrecv") \/ Go("clear")) /\ HasClient /\ async.at # "get"
  BY UnhookDoes DEF HasClient, Turning
<1>2. heap' = heap
  BY UnhookDoes
<1>3. BlocksFade /\ ClientsStay
  BY <1>2, UnhookDoes DEF BlocksFade, ClientsStay
<1>4. conn'[async.ev.pcb].arg = None
  <2>1. /\ async.ev.arg \in Addresses /\ async.ev.pcb \in Conn /\ async.ev.pcb # 0 /\ Client = heap[async.ev.arg]
        /\ Client.conn = async.ev.pcb /\ Client.pcb \in {0, async.ev.pcb}
    BY <1>1, ClientOfTask
  <2>2. CASE Client.pcb = 0
    <3>1. conn[async.ev.pcb].arg = None
      <4>1. SUFFICES ASSUME conn[async.ev.pcb].arg # None PROVE FALSE
        OBVIOUS
      <4>2. /\ conn[async.ev.pcb].arg \in Addresses
            /\ heap[conn[async.ev.pcb].arg].conn = async.ev.pcb /\ heap[conn[async.ev.pcb].arg].pcb = async.ev.pcb
        BY <2>1, <4>1, ClientOfBlock DEF Links, ClientLinks
      <4>3. conn[async.ev.pcb].arg = async.ev.arg
        BY <2>1, <4>2 DEF Links, ClientLinks
      <4> QED BY <2>1, <2>2, <4>2, <4>3
    <3> QED BY <1>3, <2>1, <3>1 DEF BlocksFade
  <2>3. CASE Client.pcb = async.ev.pcb
    BY <2>1, <2>3, UnhookDoes
  <2> QED BY <2>1, <2>2, <2>3
<1>5. TaskLinks'
  <2>1. "unrecv" \in Points \ Calling /\ "clear" \in Points \ Calling
    BY DEF Points, Closing, Calling
  <2> QED BY <1>1, <1>3, <1>4, <2>1, TaskLinksGo
<1> QED BY <1>3, <1>5, ClientLinksKept DEF Links

LEMMA CloseLinks == ASSUME TypeInv, Links, Clear \/ Close \/ Abort PROVE Links'
<1>1. async.at \in {"clear", "close", "abort"}
  BY DEF Clear, Close, Abort
<1>2. HasClient /\ IsClosing
  BY <1>1 DEF HasClient, IsClosing, Closing, Turning
<1>3. conn' = conn /\ heap' = heap
  BY DEF Clear, Close, Abort, taskOnly
<1>4. BlocksFade /\ ClientsStay /\ conn'[async.ev.pcb].arg = None
  BY <1>2, <1>3, BlocksStay DEF ClientsStay, Links, TaskLinks
<1>5. TaskLinks'
  <2>1. CASE Go("discard") \/ Go("close")
    <3>1. "discard" \in Points \ Calling /\ "close" \in Points \ Calling
      BY DEF Points, Closing, Calling
    <3> QED BY <1>2, <1>4, <2>1, <3>1, TaskLinksGo
  <2>2. CASE StartCall("close", "discard") \/ StartCall("abort", "discard")
    BY <1>2, <1>4, <2>2, TaskLinksCall, ClientOfTask DEF Calls
  <2> QED BY <2>1, <2>2, Zenon DEF Clear, Close, Abort, AfterClear
<1> QED BY <1>4, <1>5, ClientLinksKept DEF Links

LEMMA DiscardLinks == ASSUME TypeInv, Links, Discard PROVE Links'
<1>1. PICK point \in {"get", "ack"} : Go(point)
  BY DiscardGoes
<1>2. async'.at = point
  BY <1>1, GoDoes DEF TypeInv, Points
<1> QED BY <1>1, <1>2, DiscardClientLinks, TaskLinksNone DEF Links

LEMMA TurnLinks == ASSUME TypeInv, Links, TurnFirst \/ TurnNext \/ PutBack PROVE Links'
<1>1. conn' = conn /\ heap' = heap
  BY TurnDoes, PutBackDoes
<1>2. async'.at \in {"get"} \union Turning
  <2>1. CASE Go("get")
    BY <2>1, GoDoes DEF TypeInv, Points
  <2>2. CASE async' = async /\ (TurnFirst \/ TurnNext)
    BY <2>2, TurnDoes DEF Turning
  <2>3. CASE Holds("putfirst", queue[1], queue[1]) \/ Holds("put", queue[1], async.first) \/ Holds("rest", NoEvent, async.first)
    BY <2>3 DEF Holds, Turning
  <2> QED BY <2>1, <2>2, <2>3, TurnDoes, PutBackDoes
<1> QED BY <1>1, <1>2, TaskLinksNone, ClientLinksKept, BlocksStay DEF Links, ClientsStay

LEMMA LinksStep == ASSUME TypeInv, Links, EventsFit, [Next]_vars PROVE Links'
<1>1. CASE UNCHANGED vars
  <2>1. conn' = conn /\ heap' = heap /\ async' = async
    BY <1>1 DEF vars
  <2> QED BY <2>1, ClientLinksKept, TaskLinksStay, BlocksStay DEF Links, ClientsStay
<1>2. CASE Begin \/ End \/ Post
  BY <1>2, ServerLinks
<1>3. CASE Peer
  <2>1. CASE \E p \in Conn : Receive(p) \/ Poll(p) \/ Sent(p) \/ Ceases(p)
    BY <2>1, TrafficLinks
  <2>2. CASE \E p \in Conn : Fin(p)
    BY <2>2, PeerLinks
  <2>3. CASE Accept
    <3>1. PICK p \in Conn, a \in Addresses, s \in NoSlot..(Slots - 1) : Accepted(p, a, s)
      BY <2>3, AcceptDoes
    <3> QED BY <2>3, PeerLinks
  <2> QED BY <1>3, <2>1, <2>2, <2>3 DEF Peer, Ceases
<1>4. CASE Serve
  BY <1>4, ServeLinks
<1>5. CASE Task
  BY <1>5, TakeLinks, AppLinks, ReadSlotLinks, AckLinks, UnhookLinks, CloseLinks, DiscardLinks, TurnLinks DEF Task
<1> QED BY <1>1, <1>2, <1>3, <1>4, <1>5 DEF Next

-----------------------------------------------------------------------------
(* Events fit what has happened to their connections.                      *)

\* What a step never takes back: a connection begun or ended, segments and
\* ticks counted, what a connection met.
Grows ==
  /\ \A q \in Conn :
       /\ conn[q].state # "new" => conn'[q].state # "new"
       /\ conn[q].state = "closed" => conn'[q].state = "closed"
       /\ conn[q].rx <= conn'[q].rx
       /\ causes[q] \subseteq causes'[q]
  /\ traffic <= traffic'

LEMMA StaysGrown ==
  ASSUME TypeInv, traffic' = traffic, \A q \in Conn : causes[q] \subseteq causes'[q],
         conn' = conn \/ \E p \in Conn : BlockCloses(p)
  PROVE  Grows
<1>1. \A q \in Conn : conn[q].rx \in Nat
  BY SMT, BlockIs DEF TypeInv
<1>2. \A q \in Conn : conn[q].rx <= conn[q].rx
  BY SMT, <1>1
<1>3. traffic <= traffic
  BY SMT DEF TypeInv
<1>4. \A q \in Conn :
        /\ conn[q].state # "new" => conn'[q].state # "new"
        /\ conn[q].state = "closed" => conn'[q].state = "closed"
        /\ conn'[q].rx = conn[q].rx
  BY DEF BlockCloses
<1> QED BY <1>2, <1>3, <1>4 DEF Grows

LEMMA GrowsStep == ASSUME TypeInv, [Next]_vars PROVE Grows
<1> DEFINE Kept == \A q \in Conn : causes[q] \subseteq causes'[q]
<1>1. CASE UNCHANGED vars
  <2>1. traffic' = traffic /\ conn' = conn /\ causes' = causes
    BY <1>1 DEF vars, history
  <2> QED BY <2>1, StaysGrown
<1>2. CASE Begin \/ End
  <2>1. traffic' = traffic /\ conn' = conn /\ causes' = causes
    BY <1>2 DEF Begin, End, history
  <2> QED BY <2>1, StaysGrown
<1>3. CASE Accept
  <2>1. PICK p \in Conn, a \in Addresses, s \in NoSlot..(Slots - 1) : Accepted(p, a, s)
    BY <1>3, AcceptDoes
  <2>2. /\ conn[p].state = "new" /\ conn'[p].state = "open" /\ conn'[p].rx = conn[p].rx
        /\ \A q \in Conn \ {p} : conn'[q] = conn[q]
        /\ \A q \in Conn : causes[q] \subseteq causes'[q]
    BY <2>1 DEF Accepted
  <2>3. \A q \in Conn : conn'[q].rx = conn[q].rx /\ conn[q].rx \in Nat
    <3>1. \A q \in Conn : conn'[q].rx = conn[q].rx
      BY <2>2
    <3>2. \A q \in Conn : conn[q].rx \in Nat
      BY SMT, BlockIs DEF TypeInv
    <3> QED BY <3>1, <3>2
  <2>4. \A q \in Conn : conn[q].rx <= conn'[q].rx
    BY SMT, <2>3
  <2>5. traffic <= traffic'
    BY SMT, <1>3 DEF TypeInv, Accept
  <2>6. \A q \in Conn :
          /\ conn[q].state # "new" => conn'[q].state # "new"
          /\ conn[q].state = "closed" => conn'[q].state = "closed"
    BY <2>2
  <2> QED BY <2>2, <2>4, <2>5, <2>6 DEF Grows
<1>4. ASSUME NEW p \in Conn, Receive(p) PROVE Grows
  <2>1. /\ traffic' = traffic + 1 /\ conn'[p].rx = conn[p].rx + 1 /\ conn'[p].state = conn[p].state
        /\ \A q \in Conn \ {p} : conn'[q] = conn[q]
    BY <1>4, ReceiveDoes
  <2>2. causes' = causes
    BY <1>4 DEF Receive, history
  <2>3. \A q \in Conn : conn[q].rx <= conn'[q].rx
    <3> TAKE q \in Conn
    <3>1. conn[q].rx \in Nat /\ (conn'[q].rx = conn[q].rx \/ conn'[q].rx = conn[q].rx + 1)
      <4>1. conn[q].rx \in Nat
        BY SMT, BlockIs DEF TypeInv
      <4> QED BY <2>1, <4>1
    <3> QED BY SMT, <3>1
  <2>4. traffic <= traffic'
    BY SMT, <2>1 DEF TypeInv
  <2>5. \A q \in Conn : conn'[q].state = conn[q].state
    BY <2>1
  <2> QED BY <2>2, <2>3, <2>4, <2>5 DEF Grows
<1>5. ASSUME NEW p \in Conn, Poll(p) \/ Sent(p) PROVE Grows
  <2>1. PICK type \in {"POLL", "SENT"} : Tick(p, type)
    BY <1>5 DEF Poll, Sent
  <2>2. conn' = conn /\ causes' = causes
    BY <2>1 DEF Tick, history
  <2>3. traffic <= traffic'
    BY SMT, <2>1 DEF TypeInv, Tick
  <2>4. \A q \in Conn : conn[q].rx <= conn'[q].rx
    <3>1. \A q \in Conn : conn[q].rx \in Nat
      BY SMT, BlockIs DEF TypeInv
    <3>2. \A q \in Conn : conn[q].rx <= conn[q].rx
      BY SMT, <3>1
    <3> QED BY <2>2, <3>2
  <2> QED BY <2>2, <2>3, <2>4 DEF Grows
<1>6. ASSUME NEW p \in Conn, Fin(p) \/ Ceases(p) PROVE Grows
  <2>1. traffic' = traffic
    BY <1>6 DEF Fin, Ceases, Reset, FinUnhooked
  <2>2. BlockCloses(p)
    BY <1>6, FinDoes, CeasesDoes
  <2>3. Kept
    BY <1>6, FinDoes, CeasesDoes DEF Meets
  <2> QED BY <2>1, <2>2, <2>3, StaysGrown
<1>7. CASE Post
  <2>1. traffic' = traffic /\ conn' = conn
    BY <1>7 DEF Post
  <2>2. Kept
    BY <1>7, PostDoes DEF Meets
  <2> QED BY <2>1, <2>2, StaysGrown
<1>8. CASE Serve
  <2>1. traffic' = traffic /\ causes' = causes /\ async.pcb \in Conn
    BY <1>8, ServeIs
  <2>2. conn' = conn \/ BlockCloses(async.pcb)
    BY <1>8, ServeEffects
  <2> QED BY <2>1, <2>2, StaysGrown
<1>9. CASE AppCloses
  <2>1. traffic' = traffic /\ conn' = conn
    BY <1>9 DEF AppCloses, taskOnly
  <2>2. Kept
    <3>1. (IF async.ev.type = "RECV" THEN {"closed in onData"} ELSE {}) \in SUBSET Causes
      BY Zenon DEF Causes
    <3> QED BY <1>9, <3>1, CauseMeets DEF AppCloses, Meets
  <2> QED BY <2>1, <2>2, StaysGrown
<1>10. CASE ReadSlot
  <2>1. traffic' = traffic /\ conn' = conn
    BY <1>10 DEF ReadSlot, taskOnly
  <2>2. Kept
    BY <1>10, ReadSlotDoes DEF Meets
  <2> QED BY <2>1, <2>2, StaysGrown
<1>11. CASE Unhook
  <2>1. traffic' = traffic /\ causes' = causes
    BY <1>11, UnhookDoes
  <2>2. \A q \in Conn : conn'[q].state = conn[q].state /\ conn'[q].rx = conn[q].rx
    BY <1>11, UnhookDoes
  <2>3. \A q \in Conn : conn[q].rx <= conn[q].rx
    <3>1. \A q \in Conn : conn[q].rx \in Nat
      BY SMT, BlockIs DEF TypeInv
    <3> QED BY SMT, <3>1
  <2>4. traffic <= traffic
    BY SMT DEF TypeInv
  <2> QED BY <2>1, <2>2, <2>3, <2>4 DEF Grows
<1>12. CASE Take \/ AppReturns \/ AppWrites \/ Ack \/ Check \/ Clear \/ Close \/ Abort \/ Discard \/ TurnFirst \/ TurnNext \/ PutBack
  <2>1. traffic' = traffic /\ conn' = conn /\ causes' = causes
    BY <1>12 DEF Take, AppReturns, AppWrites, Ack, Check, Clear, Close, Abort, Discard, TurnFirst, TurnNext, PutBack,
       taskOnly, history
  <2> QED BY <2>1, StaysGrown
<1> QED BY <1>1, <1>2, <1>3, <1>4, <1>5, <1>6, <1>7, <1>8, <1>9, <1>10, <1>11, <1>12 DEF Next, Peer, Ceases, Task

LEMMA StillFits ==
  ASSUME TypeInv, Grows, traffic' \in 0..Traffic, \A q \in Conn : conn'[q].rx \in 0..Traffic, NEW e \in Events, EventFits(e)
  PROVE  EventFits(e)'
<1>1. e.pcb \in Conn /\ e.n \in 0..Traffic
  BY EventParts
<1>2. e.type = "RECV" => e.n <= conn'[e.pcb].rx
  <2>1. conn[e.pcb].rx \in 0..Traffic /\ conn'[e.pcb].rx \in 0..Traffic /\ conn[e.pcb].rx <= conn'[e.pcb].rx
    BY <1>1, BlockIs DEF Grows, TypeInv
  <2>2. e.type = "RECV" => e.n <= conn[e.pcb].rx
    BY DEF EventFits
  <2> QED BY SMT, <1>1, <2>1, <2>2
<1>3. e.type \in {"SENT", "POLL"} => e.n <= traffic'
  <2>1. e.type \in {"SENT", "POLL"} => e.n <= traffic
    BY DEF EventFits
  <2>2. traffic \in 0..Traffic /\ traffic <= traffic'
    BY DEF TypeInv, Grows
  <2> QED BY SMT, <1>1, <2>1, <2>2
<1> QED BY <1>1, <1>2, <1>3 DEF EventFits, Grows

\* The events of a step: those there were, the one lwIP brings, the CLEAR.
LEMMA EventsOfStep ==
  ASSUME TypeInv, [Next]_vars, NEW e \in Events, (Waits(e) \/ e = async.ev)'
  PROVE  \/ Waits(e) \/ e = async.ev
         \/ lwip = NoEvent /\ e = lwip' /\ Peer
         \/ Clear /\ e = Event("CLEAR", async.ev.arg, async.ev.pcb, 0)
<1>1. e # NoEvent
  BY EventParts
<1>2. CASE UNCHANGED vars \/ Begin \/ End \/ Serve \/ AppReturns \/ AppWrites \/ AppCloses \/ ReadSlot \/ Ack \/ Check
           \/ Unhook \/ Close \/ Abort \/ Discard
  <2>1. queue' = queue /\ lwip' = lwip
    BY <1>2 DEF vars, Begin, End, Serve, AppReturns, AppWrites, AppCloses, ReadSlot, Ack, Check, Unhook, Close, Abort, Discard,
       taskOnly
  <2>2. async' = async \/ (\E point : Go(point)) \/ (\E call, back : StartCall(call, back))
        \/ SameBut(async', async, {"at", "slot"})
    <3>1. CASE UNCHANGED vars \/ Begin \/ End
      BY <3>1 DEF vars, Begin, End
    <3>2. CASE Serve
      BY <3>2, ServeGoes
    <3>3. CASE AppReturns \/ AppWrites \/ Check \/ Unhook \/ Close \/ Abort \/ Discard
      BY <3>3, Zenon DEF AppReturns, AppWrites, Check, Unhook, Close, Abort, Discard
    <3>4. CASE AppCloses
      BY <3>4, Zenon DEF AppCloses
    <3>5. CASE ReadSlot
      BY <3>5, ReadSlotDoes
    <3>6. CASE Ack
      BY <3>6, Zenon DEF Ack
    <3> QED BY <1>2, <3>1, <3>2, <3>3, <3>4, <3>5, <3>6
  <2>3. (async'.ev \in {async.ev, NoEvent}) /\ (async'.held \in {async.held, NoEvent})
    <3>1. ASSUME NEW point, Go(point) PROVE (async'.ev \in {async.ev, NoEvent}) /\ (async'.held \in {async.held, NoEvent})
      <4>1. CASE point = "get"
        BY <3>1, <4>1, IdleIs DEF Go, At
      <4>2. CASE point # "get"
        BY <3>1, <4>2 DEF Go, At, Idle
      <4> QED BY <4>1, <4>2
    <3>2. ASSUME NEW call, NEW back, StartCall(call, back) PROVE async'.ev = async.ev /\ async'.held = async.held
      BY <3>2 DEF StartCall, TypeInv, AsyncTask
    <3>3. SameBut(async', async, {"at", "slot"}) => async'.ev = async.ev /\ async'.held = async.held
      BY DEF SameBut
    <3> QED BY <2>2, <3>1, <3>2, <3>3
  <2> QED BY <1>1, <2>1, <2>3 DEF Waits
<1>3. CASE Peer
  <2>1. lwip = NoEvent /\ queue' = queue /\ async' = async
    BY <1>3, Zenon DEF Peer, Accept, Receive, Poll, Sent, Tick, Fin, FinUnhooked, Reset, Callback
  <2> QED BY <1>3, <2>1 DEF Waits
<1>4. CASE Post
  <2>1. async' = async
    BY <1>4 DEF Post
  <2> QED BY <1>1, <1>4, <2>1, PostDoes DEF Waits, Queued
<1>5. CASE Take
  <2>1. lwip' = lwip /\ Queued(queue[1]) /\ (Queued(e)' => Queued(e))
    BY <1>5, TakeDoes
  <2>2. async'.ev \in {queue[1], NoEvent} /\ async'.held = NoEvent
    <3>1. CASE async' = Idle
      BY <3>1, IdleIs
    <3>2. CASE async' # Idle
      BY <1>5, <3>2, TakeGoes, IdleIs DEF SameBut
    <3> QED BY <3>1, <3>2
  <2> QED BY <1>1, <2>1, <2>2 DEF Waits, Queued
<1>6. CASE Clear
  <2>1. lwip' = lwip /\ (Queued(e)' => Queued(e) \/ e = Event("CLEAR", async.ev.arg, async.ev.pcb, 0))
    BY <1>6, ClearDoes
  <2>2. async'.ev = async.ev /\ async'.held = NoEvent
    <3>1. AfterClear \in Points /\ AfterClear # "get" /\ Go(AfterClear)
      BY <1>6, ClearDoes DEF Points, Closing, AfterClear
    <3> QED BY <3>1, GoDoes DEF TypeInv
  <2> QED BY <1>1, <1>6, <2>1, <2>2 DEF Waits, Queued
<1>7. CASE TurnFirst \/ TurnNext
  <2>1. lwip' = lwip
    BY <1>7, TurnDoes
  <2>2. CASE queue' = queue /\ Go("get")
    BY <1>1, <2>1, <2>2, GoDoes DEF Waits, TypeInv, Points
  <2>3. CASE ~(queue' = queue /\ Go("get"))
    <3>1. /\ Len(queue') = Len(queue) - 1 /\ Len(queue) \in Nat \ {0} /\ \A i \in 1..Len(queue') : queue'[i] = queue[i + 1]
          /\ async'.ev = async.ev /\ async'.held \in {async.held, queue[1]}
      BY <1>7, <2>3, TurnDoes DEF Holds
    <3>2. 1 \in 1..Len(queue) /\ \A i \in 1..Len(queue') : i + 1 \in 1..Len(queue)
      BY SMT, <3>1
    <3> QED BY <2>1, <3>1, <3>2 DEF Waits
  <2> QED BY <2>2, <2>3
<1>8. CASE PutBack
  <2>1. /\ lwip' = lwip /\ async'.ev = async.ev /\ async'.held = NoEvent
        /\ Len(queue) \in Nat /\ Len(queue') = Len(queue) + 1 /\ queue'[Len(queue) + 1] = async.held
        /\ \A i \in 1..Len(queue) : queue'[i] = queue[i]
    BY <1>8, PutBackDoes DEF Holds
  <2>2. \A i \in 1..Len(queue') : i = Len(queue) + 1 \/ i \in 1..Len(queue)
    BY SMT, <2>1
  <2> QED BY <1>1, <2>1, <2>2 DEF Waits
<1> QED BY <1>2, <1>3, <1>4, <1>5, <1>6, <1>7, <1>8 DEF Next, Task

\* The event lwIP brings fits, from the step that makes it on.
LEMMA BroughtFits ==
  ASSUME TypeInv, Links, Peer, NEW e \in Events, e = lwip'
  PROVE  EventFits(e)'
<1>1. CASE Accept
  <2>1. PICK p \in Conn, a \in Addresses, s \in NoSlot..(Slots - 1) : Accepted(p, a, s)
    BY <1>1, AcceptDoes
  <2>2. conn'[p].state = "open" /\ lwip' = Event("ACCEPT", a, p, 0)
    BY <2>1 DEF Accepted
  <2>3. e.type = "ACCEPT" /\ e.pcb = p
    BY <2>2 DEF Event
  <2> QED BY <2>2, <2>3 DEF EventFits, Ends
<1>2. ASSUME NEW p \in Conn, Receive(p) PROVE EventFits(e)'
  <2>1. conn'[p].state = "open" /\ conn'[p].rx = conn[p].rx + 1 /\ lwip' = Event("RECV", conn[p].arg, p, conn[p].rx + 1)
    BY <1>2, ReceiveDoes
  <2>2. conn[p].rx + 1 <= conn[p].rx + 1
    BY SMT, BlockIs DEF TypeInv
  <2>3. e.type = "RECV" /\ e.pcb = p /\ e.n = conn[p].rx + 1
    BY <2>1 DEF Event
  <2> QED BY <2>1, <2>2, <2>3 DEF EventFits, Ends
<1>3. ASSUME NEW p \in Conn, Poll(p) \/ Sent(p) PROVE EventFits(e)'
  <2>1. PICK type \in {"POLL", "SENT"} : Tick(p, type)
    BY <1>3 DEF Poll, Sent
  <2>2. conn[p].state = "open" /\ traffic \in Nat /\ traffic' = traffic + 1 /\ lwip' = Event(type, conn[p].arg, p, traffic + 1)
    BY <2>1, TickDoes
  <2>3. conn' = conn
    BY <2>1 DEF Tick
  <2>4. traffic + 1 <= traffic + 1
    BY SMT, <2>2
  <2>5. e.type = type /\ e.pcb = p /\ e.n = traffic + 1
    BY <2>2 DEF Event
  <2> QED BY <2>2, <2>3, <2>4, <2>5 DEF EventFits, Ends
<1>4. ASSUME NEW p \in Conn, Fin(p) PROVE EventFits(e)'
  <2>1. conn'[p].state = "closed" /\ lwip' = Event("FIN", conn[p].arg, p, 0)
    BY <1>4, FinDoes DEF BlockCloses
  <2>2. e.type = "FIN" /\ e.pcb = p
    BY <2>1 DEF Event
  <2> QED BY <2>1, <2>2 DEF EventFits
<1>5. ASSUME NEW p \in Conn, Ceases(p) PROVE EventFits(e)'
  <2>1. conn'[p].state = "closed" /\ "reset" \in causes'[p] /\ lwip' = Event("ERROR", conn[p].arg, p, 0)
    BY <1>5, CeasesDoes, NoEventParts DEF BlockCloses, Meets
  <2>2. e.type = "ERROR" /\ e.pcb = p
    BY <2>1 DEF Event
  <2> QED BY <2>1, <2>2 DEF EventFits
<1> QED BY <1>1, <1>2, <1>3, <1>4, <1>5 DEF Peer, Ceases

LEMMA EventsFitStep == ASSUME TypeInv, TypeInv', Links, EventsFit, [Next]_vars PROVE EventsFit'
<1> SUFFICES ASSUME NEW e \in Events, (Waits(e) \/ e = async.ev)' PROVE EventFits(e)'
  BY DEF EventsFit
<1>1. Grows
  BY GrowsStep
<1>2. traffic' \in 0..Traffic /\ \A q \in Conn : conn'[q].rx \in 0..Traffic
  BY BlockIs DEF TypeInv
<1>3. CASE Waits(e) \/ e = async.ev
  BY <1>1, <1>2, <1>3, StillFits DEF EventsFit
<1>4. CASE lwip = NoEvent /\ e = lwip' /\ Peer
  BY <1>4, BroughtFits
<1>5. CASE Clear /\ e = Event("CLEAR", async.ev.arg, async.ev.pcb, 0)
  <2>1. e.type = "CLEAR" /\ e.pcb = async.ev.pcb
    BY <1>5 DEF Event
  <2>2. async.ev \in Events /\ conn' = conn
    BY <1>5, ClearDoes
  <2>3. EventFits(async.ev)
    BY <2>2 DEF EventsFit
  <2> QED BY <2>1, <2>2, <2>3 DEF EventFits, Ends
<1> QED BY <1>3, <1>4, <1>5, EventsOfStep

-----------------------------------------------------------------------------
(* Slots.                                                                  *)

LEMMA SlotsAreCounted == ASSUME TypeInv, SlotsOwned PROVE SlotsAccounted
<1> SUFFICES ASSUME NEW s \in 0..(Slots - 1)
             PROVE  Cardinality({a \in Addresses : heap[a].slot = s}) = IF closedSlots[s] = 0 THEN 1 ELSE 0
  BY DEF SlotsAccounted, TypeInv
<1>1. CASE closedSlots[s] = 0
  <2>1. PICK a \in Addresses : heap[a].slot = s /\ \A b \in Addresses \ {a} : heap[b].slot # s
    BY <1>1 DEF SlotsOwned
  <2>2. {c \in Addresses : heap[c].slot = s} = {a}
    BY <2>1
  <2> QED BY <1>1, <2>2, FS_Singleton
<1>2. CASE closedSlots[s] # 0
  <2>1. {c \in Addresses : heap[c].slot = s} = {}
    BY <1>2 DEF SlotsOwned
  <2> QED BY <1>2, <2>1, FS_EmptySet
<1> QED BY <1>1, <1>2

LEMMA SlotsKept ==
  ASSUME SlotsOwned, closedSlots' = closedSlots, \A a \in Addresses : heap'[a].slot = heap[a].slot
  PROVE  SlotsOwned'
BY DEF SlotsOwned

\* The client at an address loses its slot, which is marked.
LEMMA SlotsFreed ==
  ASSUME TypeInv, SlotsOwned, NEW a \in Addresses, heap'[a].slot = NoSlot, SlotFrees(heap[a].slot),
         \A b \in Addresses \ {a} : heap'[b].slot = heap[b].slot
  PROVE  SlotsOwned'
<1> SUFFICES ASSUME NEW s \in 0..(Slots - 1)
             PROVE  IF closedSlots'[s] = 0
                    THEN \E c \in Addresses : heap'[c].slot = s /\ \A b \in Addresses \ {c} : heap'[b].slot # s
                    ELSE \A c \in Addresses : heap'[c].slot # s
  BY DEF SlotsOwned
<1>1. s # NoSlot
  BY SMT, TcpAssumption DEF NoSlot
<1>2. CASE s = heap[a].slot
  <2>1. closedSlots'[s] # 0
    BY <1>1, <1>2 DEF SlotFrees
  <2>2. \A b \in Addresses \ {a} : heap[b].slot # s
    BY <1>2 DEF SlotsOwned
  <2> QED BY <1>1, <2>1, <2>2
<1>3. CASE s # heap[a].slot
  <2>1. closedSlots'[s] = closedSlots[s]
    BY <1>3 DEF SlotFrees
  <2>2. \A b \in Addresses : heap'[b].slot = s <=> heap[b].slot = s
    BY <1>1, <1>3
  <2> QED BY <2>1, <2>2 DEF SlotsOwned
<1> QED BY <1>2, <1>3

LEMMA AcceptSlots == ASSUME TypeInv, SlotsOwned, Accept PROVE SlotsOwned'
<1>1. PICK p \in Conn, a \in Addresses, s \in NoSlot..(Slots - 1) : Accepted(p, a, s)
  BY AcceptDoes
<1>2. /\ s # NoSlot => s \in 0..(Slots - 1) /\ closedSlots[s] # 0 /\ closedSlots'[s] = 0
      /\ \A t \in 0..(Slots - 1) : t # s => closedSlots'[t] = closedSlots[t]
      /\ heap[a] = NoClient /\ heap'[a] = NewClient(p, s)
      /\ \A b \in Addresses \ {a} : heap'[b] = heap[b]
  BY <1>1 DEF Accepted
<1>3. heap[a].slot = NoSlot
  BY <1>2, NoClientIs
<1>4. heap'[a].slot = s
  <2>1. NewClient(p, s).slot = s
    BY NewClientIs
  <2> QED BY <1>2, <2>1
<1> SUFFICES ASSUME NEW t \in 0..(Slots - 1)
             PROVE  IF closedSlots'[t] = 0
                    THEN \E c \in Addresses : heap'[c].slot = t /\ \A b \in Addresses \ {c} : heap'[b].slot # t
                    ELSE \A c \in Addresses : heap'[c].slot # t
  BY DEF SlotsOwned
<1>5. t # NoSlot
  BY SMT, TcpAssumption DEF NoSlot
<1>6. CASE t = s
  <2>1. \A b \in Addresses : heap[b].slot # t
    BY <1>2, <1>5, <1>6 DEF SlotsOwned
  <2>2. closedSlots'[t] = 0
    BY <1>2, <1>5, <1>6
  <2> QED BY <1>2, <1>4, <1>6, <2>1, <2>2
<1>7. CASE t # s
  <2>1. closedSlots'[t] = closedSlots[t]
    BY <1>2, <1>7
  <2>2. \A b \in Addresses : heap'[b].slot = t <=> heap[b].slot = t
    BY <1>2, <1>3, <1>4, <1>5, <1>7
  <2> QED BY <2>1, <2>2 DEF SlotsOwned
<1> QED BY <1>6, <1>7

LEMMA SlotsStep == ASSUME TypeInv, SlotsOwned, [Next]_vars PROVE SlotsOwned'
<1>1. CASE UNCHANGED vars \/ Begin \/ End \/ Post \/ Serve \/ AppReturns \/ AppWrites \/ AppCloses \/ ReadSlot \/ Ack \/ Check
           \/ Unhook \/ Clear \/ Close \/ Abort \/ TurnFirst \/ TurnNext \/ PutBack
  <2>1. closedSlots' = closedSlots /\ heap' = heap
    BY <1>1 DEF vars, library, Begin, End, Post, Serve, AppReturns, AppWrites, AppCloses, ReadSlot, Ack, Check, Unhook, Clear,
       Close, Abort, TurnFirst, TurnNext, PutBack
  <2> QED BY <2>1, SlotsKept
<1>2. CASE Accept
  BY <1>2, AcceptSlots
<1>3. ASSUME NEW p \in Conn, Receive(p) \/ Poll(p) \/ Sent(p) \/ Ceases(p) PROVE SlotsOwned'
  <2>1. closedSlots' = closedSlots /\ heap' = heap
    BY <1>3 DEF library, Receive, Poll, Sent, Tick, Ceases, Reset, FinUnhooked
  <2> QED BY <2>1, SlotsKept
<1>4. ASSUME NEW p \in Conn, Fin(p) PROVE SlotsOwned'
  <2>1. /\ conn[p].arg \in Addresses /\ heap'[conn[p].arg].slot = NoSlot /\ SlotFrees(heap[conn[p].arg].slot)
        /\ \A b \in Addresses \ {conn[p].arg} : heap'[b] = heap[b]
    BY <1>4, FinDoes
  <2> QED BY <2>1, SlotsFreed
<1>5. CASE Take
  <2>1. closedSlots' = closedSlots
    BY <1>5, TakeDoes
  <2>2. \A a \in Addresses : heap'[a].slot = heap[a].slot
    BY <1>5, TakeHooks
  <2> QED BY <2>1, <2>2, SlotsKept
<1>6. CASE Discard
  <2>1. async.ev.arg \in Addresses /\ Client = heap[async.ev.arg] /\ Client \in AsyncClient
    BY <1>6, EventOfTask DEF Discard
  <2>2. CASE SlotFrees(Client.slot) /\ ClientBecomes(async.ev.arg, NoClient)
    <3>1. /\ heap'[async.ev.arg].slot = NoSlot /\ SlotFrees(heap[async.ev.arg].slot)
          /\ \A b \in Addresses \ {async.ev.arg} : heap'[b] = heap[b]
      BY <2>1, <2>2, NoClientIs DEF ClientBecomes
    <3> QED BY <2>1, <3>1, SlotsFreed
  <2>3. CASE UNCHANGED <<closedSlots, closedIndex>> /\ ClientBecomes(async.ev.arg, [Client EXCEPT !.pcb = 0])
    <3>1. heap'[async.ev.arg].slot = heap[async.ev.arg].slot
      BY <2>1, <2>3, LosesBlock DEF ClientBecomes
    <3>2. \A a \in Addresses : heap'[a].slot = heap[a].slot
      BY <2>3, <3>1 DEF ClientBecomes
    <3> QED BY <2>3, <3>2, SlotsKept
  <2> QED BY <1>6, <2>2, <2>3, DiscardDoes
<1> QED BY <1>1, <1>2, <1>3, <1>4, <1>5, <1>6 DEF Next, Peer, Ceases, Task

-----------------------------------------------------------------------------
(* Freed control blocks.                                                   *)

\* No block is closed, no client loses what it has, and the task does not
\* discard one: nothing of this changes.
LEMMA FreedKept ==
  ASSUME TypeInv, TypeInv', Links, FreedFollows, ClientsStay, Grows,
         \A q \in Conn : conn'[q].state = "closed" => conn[q].state = "closed",
         async.at # "discard",
         \A q \in Conn : "pcb" \in mishaps'[q] => "pcb" \in mishaps[q] \/ Excused(q, FreedExcuse),
         async'.at = "call" => CallChecked'
  PROVE  FreedFollows'
<1>1. \A a \in Addresses : heap[a].pcb # 0 => heap[a].pcb \in Conn
  BY ClientIs DEF TypeInv
<1>2. BlocksClosed'
  BY <1>1 DEF FreedFollows, BlocksClosed, ClientsStay, Grows
<1>3. SlotsGiven'
  BY <1>1 DEF FreedFollows, SlotsGiven, ClientsStay, Grows
<1>4. BlocksLeftAlone'
  BY DEF FreedFollows, BlocksLeftAlone, Excused, FreedExcuse, Grows
<1> QED BY <1>2, <1>3, <1>4 DEF FreedFollows

LEMMA CallOfTask ==
  ASSUME TypeInv, async.at = "call"
  PROVE  async.pcb \in Conn /\ async.slot \in NoSlot..(Slots - 1) /\ (async.slot # NoSlot => async.slot \in 0..(Slots - 1))
<1>1. async.pcb \in 0..Connections /\ async.pcb # 0 /\ async.slot \in NoSlot..(Slots - 1)
  BY DEF TypeInv, Registers, AsyncTask
<1> QED BY SMT, <1>1, TcpAssumption DEF Conn, NoSlot

\* The call under way stays checked when its slot does.
LEMMA CallStaysChecked ==
  ASSUME TypeInv, Links, CallChecked, Grows, async.at = "call", async' = async,
         LET c == heap[async.ev.arg] d == heap'[async.ev.arg] IN
         \/ d.pcb = c.pcb /\ d.slot = c.slot
            /\ (async.slot # NoSlot /\ closedSlots[async.slot] # 0 =>
                  closedSlots'[async.slot] # 0 \/ "slot given away" \in causes'[async.pcb])
         \/ d.pcb = 0 /\ (async.slot = c.slot /\ c.slot # NoSlot => closedSlots'[async.slot] # 0) /\ c.pcb # 0
  PROVE  CallChecked'
<1>1. async.pcb \in Conn
  BY CallOfTask
<1>2. Excused(async.pcb, FreedExcuse) => Excused(async.pcb, FreedExcuse)'
  BY <1>1 DEF Excused, Grows
<1>3. "slot given away" \in causes'[async.pcb] => Excused(async.pcb, FreedExcuse)'
  BY DEF Excused, FreedExcuse
<1> QED BY <1>2, <1>3 DEF CallChecked

LEMMA AcceptFreed == ASSUME TypeInv, TypeInv', Links, FreedFollows, Grows, Accept PROVE FreedFollows'
<1>1. PICK p \in Conn, a \in Addresses, s \in NoSlot..(Slots - 1) : Accepted(p, a, s)
  BY AcceptDoes
<1>2. /\ conn[p].state = "new" /\ heap[a] = NoClient
      /\ conn'[p].state = "open" /\ conn'[p].arg = a
      /\ \A q \in Conn \ {p} : conn'[q] = conn[q]
      /\ \A b \in Addresses \ {a} : heap'[b] = heap[b]
  BY <1>1 DEF Accepted
<1>3. heap'[a].pcb = p /\ heap'[a].slot = s
  <2>1. NewClient(p, s).pcb = p /\ NewClient(p, s).slot = s
    BY NewClientIs
  <2>2. heap'[a] = NewClient(p, s)
    BY <1>1 DEF Accepted
  <2> QED BY <2>1, <2>2
<1>4. \A b \in Addresses \ {a} : heap[b].pcb # p /\ (heap[b].pcb # 0 => heap[b].pcb \in Conn)
  <2> TAKE b \in Addresses \ {a}
  <2>1. heap[b].pcb # 0 => heap[b].pcb \in Conn /\ heap[b].conn = heap[b].pcb
    BY ClientIs DEF TypeInv, Links, ClientLinks
  <2>2. p # 0
    BY SMT DEF Conn
  <2> QED BY <1>2, <2>1, <2>2 DEF Links, ClientLinks
<1>5. async' = async /\ mishaps' = mishaps
  BY DEF Accept
<1>6. BlocksClosed'
  <2> SUFFICES ASSUME NEW b \in Addresses, heap'[b].pcb # 0, conn'[heap'[b].pcb].state = "closed"
               PROVE  \/ "reset" \in causes'[heap'[b].pcb] \/ "fin unhooked" \in causes'[heap'[b].pcb]
                      \/ (async'.at = "discard" /\ async'.ev.arg = b)
    BY DEF BlocksClosed
  <2>1. b # a
    BY <1>2, <1>3
  <2>2. /\ heap'[b] = heap[b] /\ heap[b].pcb # 0 /\ heap[b].pcb \in Conn
        /\ conn[heap[b].pcb].state = "closed"
    BY <1>2, <1>4, <2>1
  <2>3. \/ "reset" \in causes[heap[b].pcb] \/ "fin unhooked" \in causes[heap[b].pcb]
        \/ (async.at = "discard" /\ async.ev.arg = b)
    BY <2>2 DEF FreedFollows, BlocksClosed
  <2>4. causes[heap[b].pcb] \subseteq causes'[heap[b].pcb]
    BY <2>2 DEF Grows
  <2> QED BY <1>5, <2>2, <2>3, <2>4
<1>7. SlotsGiven'
  <2> SUFFICES ASSUME NEW b \in Addresses, heap'[b].pcb # 0, heap'[b].slot = NoSlot PROVE "no slot" \in causes'[heap'[b].pcb]
    BY DEF SlotsGiven
  <2>1. CASE b = a
    <3>1. s = NoSlot => "no slot" \in causes'[p]
      BY <1>1 DEF Accepted
    <3> QED BY <1>3, <2>1, <3>1
  <2>2. CASE b # a
    BY <1>2, <1>4, <2>2 DEF FreedFollows, SlotsGiven, Grows
  <2> QED BY <2>1, <2>2
<1>8. BlocksLeftAlone'
  BY <1>5 DEF FreedFollows, BlocksLeftAlone, Excused, FreedExcuse, Grows
<1>9. ASSUME async.at = "call" PROVE CallChecked'
  <2>1. HasClient
    BY <1>9 DEF HasClient, Turning
  <2>2. async.ev.arg \in Addresses /\ async.ev.pcb \in Conn /\ heap[async.ev.arg].conn = async.ev.pcb /\ async.ev.pcb # 0
    BY <2>1, ClientOfTask
  <2>3. async.ev.arg # a
    BY <1>2, <2>2, NoClientIs
  <2>4. async.pcb \in Conn /\ (async.slot # NoSlot => async.slot \in 0..(Slots - 1))
    BY <1>9, CallOfTask
  <2>5. /\ async.pcb \in Conn /\ async.at = "call" /\ s # NoSlot /\ s = async.slot => "slot given away" \in causes'[async.pcb]
        /\ \A t \in 0..(Slots - 1) : t # s => closedSlots'[t] = closedSlots[t]
    BY <1>1 DEF Accepted
  <2>6. async.slot # NoSlot /\ closedSlots[async.slot] # 0 =>
          closedSlots'[async.slot] # 0 \/ "slot given away" \in causes'[async.pcb]
    BY <1>9, <2>4, <2>5
  <2>7. heap'[async.ev.arg] = heap[async.ev.arg]
    BY <1>2, <2>2, <2>3
  <2> QED BY <1>5, <1>9, <2>6, <2>7, CallStaysChecked DEF FreedFollows
<1> QED BY <1>5, <1>6, <1>7, <1>8, <1>9 DEF FreedFollows

LEMMA FinFreed == ASSUME TypeInv, TypeInv', Links, FreedFollows, Grows, NEW p \in Conn, Fin(p) PROVE FreedFollows'
<1> DEFINE a == conn[p].arg
<1>1. /\ a \in Addresses /\ a # None
      /\ \A q \in Conn \ {p} : conn'[q] = conn[q]
      /\ heap'[a].pcb = 0 /\ heap'[a].slot = NoSlot
      /\ \A b \in Addresses \ {a} : heap'[b] = heap[b]
      /\ SlotFrees(heap[a].slot)
  BY FinDoes DEF BlockCloses
<1>2. heap[a].conn = p /\ heap[a].pcb = p /\ p # 0
  <2>1. p # 0
    BY SMT DEF Conn
  <2> QED BY <1>1, <2>1 DEF Links, ClientLinks
<1> HIDE DEF a
<1>3. \A b \in Addresses \ {a} : heap[b].pcb # p /\ (heap[b].pcb # 0 => heap[b].pcb \in Conn)
  BY <1>1, <1>2, ClientIs DEF TypeInv, Links, ClientLinks
<1>4. async' = async /\ mishaps' = mishaps
  BY DEF Fin
<1>5. BlocksClosed'
  <2> SUFFICES ASSUME NEW b \in Addresses, heap'[b].pcb # 0, conn'[heap'[b].pcb].state = "closed"
               PROVE  \/ "reset" \in causes'[heap'[b].pcb] \/ "fin unhooked" \in causes'[heap'[b].pcb]
                      \/ (async'.at = "discard" /\ async'.ev.arg = b)
    BY DEF BlocksClosed
  <2>1. b # a
    BY <1>1
  <2>2. /\ heap'[b] = heap[b] /\ heap[b].pcb # 0 /\ heap[b].pcb \in Conn
        /\ conn[heap[b].pcb].state = "closed"
    BY <1>1, <1>3, <2>1
  <2>3. \/ "reset" \in causes[heap[b].pcb] \/ "fin unhooked" \in causes[heap[b].pcb]
        \/ (async.at = "discard" /\ async.ev.arg = b)
    BY <2>2 DEF FreedFollows, BlocksClosed
  <2>4. causes[heap[b].pcb] \subseteq causes'[heap[b].pcb]
    BY <2>2 DEF Grows
  <2> QED BY <1>4, <2>2, <2>3, <2>4
<1>6. SlotsGiven'
  <2> SUFFICES ASSUME NEW b \in Addresses, heap'[b].pcb # 0, heap'[b].slot = NoSlot PROVE "no slot" \in causes'[heap'[b].pcb]
    BY DEF SlotsGiven
  <2>1. b # a
    BY <1>1
  <2> QED BY <1>1, <1>3, <2>1 DEF FreedFollows, SlotsGiven, Grows
<1>7. BlocksLeftAlone'
  BY <1>4 DEF FreedFollows, BlocksLeftAlone, Excused, FreedExcuse, Grows
<1>8. ASSUME async.at = "call" PROVE CallChecked'
  <2>1. HasClient
    BY <1>8 DEF HasClient, Turning
  <2>2. async.ev.arg \in Addresses
    BY <2>1, ClientOfTask
  <2>3. async.slot # NoSlot => async.slot \in 0..(Slots - 1)
    BY <1>8, CallOfTask
  <2>4. CASE async.ev.arg = a
    <3>1. async.slot = heap[a].slot /\ heap[a].slot # NoSlot => closedSlots'[async.slot] # 0
      BY <1>1 DEF SlotFrees
    <3> QED BY <1>1, <1>2, <1>4, <1>8, <2>4, <3>1, CallStaysChecked DEF FreedFollows
  <2>5. CASE async.ev.arg # a
    <3>1. async.slot # NoSlot /\ closedSlots[async.slot] # 0 => closedSlots'[async.slot] # 0
      BY <1>1, <2>3 DEF SlotFrees
    <3>2. heap'[async.ev.arg] = heap[async.ev.arg]
      BY <1>1, <2>2, <2>5
    <3> QED BY <1>4, <1>8, <3>1, <3>2, CallStaysChecked DEF FreedFollows
  <2> QED BY <2>4, <2>5
<1> QED BY <1>4, <1>5, <1>6, <1>7, <1>8 DEF FreedFollows

LEMMA CeasesFreed == ASSUME TypeInv, TypeInv', Links, FreedFollows, Grows, NEW p \in Conn, Ceases(p) PROVE FreedFollows'
<1>1. /\ async' = async /\ heap' = heap /\ closedSlots' = closedSlots
      /\ "reset" \in causes'[p] \/ "fin unhooked" \in causes'[p]
      /\ \A q \in Conn \ {p} : conn'[q] = conn[q]
      /\ \A q \in Conn : "pcb" \in mishaps'[q] => "pcb" \in mishaps[q]
  <2>1. \A q \in Conn : "pcb" \in mishaps'[q] => "pcb" \in mishaps[q]
    BY CeasesMishaps
  <2>2. async' = async /\ heap' = heap /\ closedSlots' = closedSlots
    BY DEF Ceases, Reset, FinUnhooked, library
  <2> QED BY <2>1, <2>2, CeasesDoes DEF BlockCloses, Meets
<1>2. \A a \in Addresses : heap[a].pcb # 0 => heap[a].pcb \in Conn
  BY ClientIs DEF TypeInv
<1>3. BlocksClosed'
  BY <1>1, <1>2 DEF FreedFollows, BlocksClosed, Grows
<1>4. SlotsGiven'
  BY <1>1, <1>2 DEF FreedFollows, SlotsGiven, Grows
<1>5. BlocksLeftAlone'
  BY <1>1 DEF FreedFollows, BlocksLeftAlone, Excused, FreedExcuse, Grows
<1>6. ASSUME async.at = "call" PROVE CallChecked'
  BY <1>1, <1>6, CallStaysChecked DEF FreedFollows
<1> QED BY <1>1, <1>3, <1>4, <1>5, <1>6 DEF FreedFollows

\* A call that is not refused finds its block open, or an excuse.
LEMMA ServeFreed == ASSUME TypeInv, TypeInv', Links, FreedFollows, Grows, Serve PROVE FreedFollows'
<1>1. /\ async.at = "call" /\ async.pcb \in Conn
      /\ heap' = heap /\ causes' = causes
  BY ServeIs
<1>2. HasClient
  BY <1>1 DEF HasClient, Turning
<1>3. /\ async.ev.arg \in Addresses /\ heap[async.ev.arg].conn = async.ev.pcb /\ async.ev.pcb # 0
      /\ heap[async.ev.arg].pcb \in {0, async.ev.pcb} /\ async.pcb = async.ev.pcb
  <2>1. async.pcb # 0
    BY <1>1, SMT DEF Conn
  <2>2. async.pcb \in {0, async.ev.pcb}
    BY <1>1 DEF Links, TaskLinks, Calling
  <2> QED BY <1>2, <2>1, <2>2, ClientOfTask
<1>4. \A q \in Conn : "pcb" \in mishaps'[q] => "pcb" \in mishaps[q] \/ Excused(q, FreedExcuse)
  <2> SUFFICES ASSUME NEW q \in Conn, "pcb" \in mishaps'[q], "pcb" \notin mishaps[q] PROVE Excused(q, FreedExcuse)
    OBVIOUS
  <2>1. q = async.pcb /\ conn[q].state = "closed" /\ ~Refused(async.slot)
    BY ServeEffects
  <2>2. CallChecked
    BY <1>1 DEF FreedFollows
  <2>3. CASE Excused(async.pcb, FreedExcuse)
    BY <2>1, <2>3
  <2>4. CASE heap[async.ev.arg].pcb = async.pcb
    <3>1. "reset" \in causes[q] \/ "fin unhooked" \in causes[q]
      BY <1>1, <1>3, <2>1, <2>4 DEF FreedFollows, BlocksClosed
    <3> QED BY <3>1 DEF Excused, FreedExcuse
  <2>5. CASE async.slot # NoSlot /\ closedSlots[async.slot] # 0
    BY <2>1, <2>5 DEF Refused
  <2> QED BY <2>2, <2>3, <2>4, <2>5 DEF CallChecked
<1>5. \A a \in Addresses : heap[a].pcb # 0 => heap[a].pcb \in Conn /\ heap[a].pcb = heap[a].conn
  BY ClientIs DEF TypeInv, Links, ClientLinks
<1>6. BlocksClosed'
  <2> SUFFICES ASSUME NEW a \in Addresses, heap[a].pcb # 0, conn'[heap[a].pcb].state = "closed"
               PROVE  \/ "reset" \in causes[heap[a].pcb] \/ "fin unhooked" \in causes[heap[a].pcb]
                      \/ (async'.at = "discard" /\ async'.ev.arg = a)
    BY <1>1 DEF BlocksClosed
  <2>1. CASE conn[heap[a].pcb].state = "closed"
    BY <1>1, <2>1 DEF FreedFollows, BlocksClosed
  <2>2. CASE conn[heap[a].pcb].state # "closed"
    <3>1. BlockCloses(async.pcb) /\ async.call \in {"close", "abort"}
      BY <2>2, ServeEffects
    <3>2. heap[a].pcb = async.pcb
      BY <1>5, <2>2, <3>1 DEF BlockCloses
    <3>3. a = async.ev.arg
      BY <1>3, <1>5, <3>2 DEF Links, ClientLinks
    <3>4. async.back = "discard"
      BY <3>1, ServeGoes
    <3>5. Go(async.back)
      BY <2>2, Zenon DEF Serve
    <3>6. async'.at = "discard" /\ async'.ev = async.ev
      BY <3>4, <3>5, GoDoes DEF TypeInv, Points, Closing
    <3> QED BY <3>3, <3>6
  <2> QED BY <2>1, <2>2
<1>7. SlotsGiven'
  BY <1>1 DEF FreedFollows, SlotsGiven
<1>8. BlocksLeftAlone'
  BY <1>1, <1>4 DEF FreedFollows, BlocksLeftAlone, Excused, FreedExcuse
<1>9. async'.at # "call"
  <2>1. PICK point \in {"get", "ack", "check", "discard", "abort"} : Go(point)
    BY ServeGoes
  <2> QED BY <2>1, GoDoes DEF TypeInv, Points, Closing
<1> QED BY <1>6, <1>7, <1>8, <1>9 DEF FreedFollows

LEMMA ReadSlotFreed == ASSUME TypeInv, TypeInv', Links, FreedFollows, Grows, ReadSlot PROVE FreedFollows'
<1>1. async.at = "slot" /\ conn' = conn /\ heap' = heap /\ mishaps' = mishaps
  BY DEF ReadSlot, taskOnly
<1>2. HasClient
  BY <1>1 DEF HasClient, Turning
<1>3. ASSUME async'.at = "call" PROVE CallChecked'
  <2>1. /\ async.pcb # 0 /\ async.pcb \in Conn
        /\ async'.slot = Client.slot /\ async'.pcb = async.pcb /\ async'.ev = async.ev
    <3>1. ~Go(async.back)
      <4>1. async.back \in Points /\ async.back # "call"
        BY DEF TypeInv, AsyncTask, Points, Closing
      <4> QED BY <1>3, <4>1, GoDoes DEF TypeInv
    <3> QED BY <3>1, ReadSlotDoes DEF SameBut
  <2>2. async.ev.arg \in Addresses /\ Client = heap[async.ev.arg] /\ Client.pcb \in {0, async.ev.pcb}
    BY <1>2, ClientOfTask
  <2>3. async.pcb = async.ev.pcb
    BY <1>1, <2>1 DEF Links, TaskLinks, Calling
  <2>4. CASE Client.pcb = 0
    <3>1. Meets(async.pcb, {"fin in a call"})
      BY <2>1, <2>4, ReadSlotDoes
    <3>2. Excused(async.pcb, FreedExcuse)'
      BY <2>1, <3>1 DEF Meets, Excused, FreedExcuse
    <3> QED BY <3>2 DEF CallChecked
  <2>5. CASE Client.pcb = async.pcb /\ Client.slot = NoSlot
    <3>1. "no slot" \in causes[async.pcb]
      BY <2>1, <2>2, <2>5 DEF FreedFollows, SlotsGiven
    <3>2. Excused(async.pcb, FreedExcuse)'
      BY <2>1, <3>1 DEF Grows, Excused, FreedExcuse
    <3> QED BY <3>2 DEF CallChecked
  <2>6. CASE Client.pcb = async.pcb /\ Client.slot # NoSlot
    BY <1>1, <2>1, <2>2, <2>6 DEF CallChecked
  <2> QED BY <2>2, <2>3, <2>4, <2>5, <2>6
<1>4. ClientsStay
  BY <1>1 DEF ClientsStay
<1> QED BY <1>1, <1>3, <1>4, FreedKept

LEMMA UnhookFreed == ASSUME TypeInv, TypeInv', Links, FreedFollows, Grows, Unhook PROVE FreedFollows'
<1>1. async.at \in {"unhook", "unrecv"} /\ heap' = heap /\ (Go("unrecv") \/ Go("clear"))
  BY UnhookDoes
<1>2. async'.at # "call"
  BY <1>1, GoDoes DEF TypeInv, Points, Closing
<1>3. async.ev.arg \in Addresses /\ Client = heap[async.ev.arg] /\ Client \in AsyncClient
  BY <1>1, EventOfTask
<1>4. \A q \in Conn : "pcb" \in mishaps'[q] => "pcb" \in mishaps[q] \/ Excused(q, FreedExcuse)
  <2> SUFFICES ASSUME NEW q \in Conn, "pcb" \in mishaps'[q], "pcb" \notin mishaps[q] PROVE Excused(q, FreedExcuse)
    OBVIOUS
  <2>1. q = Client.pcb /\ conn[q].state = "closed" /\ q # 0
    <3>1. q # 0
      BY SMT DEF Conn
    <3> QED BY <3>1, UnhookDoes
  <2>2. "reset" \in causes[q] \/ "fin unhooked" \in causes[q]
    BY <1>1, <1>3, <2>1 DEF FreedFollows, BlocksClosed
  <2> QED BY <2>2 DEF Excused, FreedExcuse
<1>5. \A q \in Conn : conn'[q].state = conn[q].state
  BY UnhookDoes
<1>6. ClientsStay
  BY <1>1 DEF ClientsStay
<1> QED BY <1>1, <1>2, <1>4, <1>5, <1>6, FreedKept

\* _error touches the block of its client, which a reset has freed.
LEMMA DiscardFreed == ASSUME TypeInv, TypeInv', Links, EventsFit, FreedFollows, Grows, Discard PROVE FreedFollows'
<1>1. async.at = "discard" /\ async.ev \in Events /\ async.ev.arg \in Addresses /\ Client = heap[async.ev.arg] /\ Client \in AsyncClient
  BY EventOfTask DEF Discard
<1>2. conn' = conn /\ causes' = causes
  BY DiscardDoes
<1>3. \A b \in Addresses \ {async.ev.arg} : heap'[b] = heap[b]
  BY DiscardDoes DEF ClientBecomes
<1>4. heap'[async.ev.arg].pcb = 0
  <2>1. heap'[async.ev.arg] = NoClient \/ heap'[async.ev.arg] = [Client EXCEPT !.pcb = 0]
    BY DiscardDoes DEF ClientBecomes
  <2> QED BY <1>1, <2>1, NoClientIs, LosesBlock
<1>5. BlocksClosed'
  <2> SUFFICES ASSUME NEW b \in Addresses, heap'[b].pcb # 0, conn'[heap'[b].pcb].state = "closed"
               PROVE  "reset" \in causes'[heap'[b].pcb] \/ "fin unhooked" \in causes'[heap'[b].pcb]
    BY DEF BlocksClosed
  <2>1. b # async.ev.arg
    BY <1>4
  <2> QED BY <1>2, <1>3, <2>1 DEF FreedFollows, BlocksClosed
<1>6. SlotsGiven'
  BY <1>2, <1>3, <1>4 DEF FreedFollows, SlotsGiven
<1>7. BlocksLeftAlone'
  <2> SUFFICES ASSUME NEW q \in Conn, "pcb" \in mishaps'[q] PROVE Excused(q, FreedExcuse)'
    BY DEF BlocksLeftAlone, FreedExcuse
  <2>1. CASE "pcb" \in mishaps[q]
    BY <1>2, <2>1 DEF FreedFollows, BlocksLeftAlone, Excused, FreedExcuse
  <2>2. CASE q = async.ev.pcb /\ async.ev.type = "ERROR"
    <3>1. "reset" \in causes[q]
      BY <1>1, <2>2 DEF EventsFit, EventFits
    <3> QED BY <1>2, <3>1 DEF Excused, FreedExcuse
  <2> QED BY <2>1, <2>2, DiscardDoes
<1>8. async'.at # "call"
  <2>1. PICK point \in {"get", "ack"} : Go(point)
    BY DiscardGoes
  <2> QED BY <2>1, GoDoes DEF TypeInv, Points
<1> QED BY <1>5, <1>6, <1>7, <1>8 DEF FreedFollows

LEMMA OtherFreed ==
  ASSUME TypeInv, TypeInv', Links, FreedFollows, Grows,
         \/ Take \/ AppReturns \/ AppWrites \/ AppCloses \/ Ack \/ Check \/ Clear \/ Close \/ Abort
         \/ TurnFirst \/ TurnNext \/ PutBack
  PROVE  FreedFollows'
<1>1. conn' = conn
  BY DEF Take, AppReturns, AppWrites, AppCloses, Ack, Check, Clear, Close, Abort, TurnFirst, TurnNext, PutBack, taskOnly
<1>2. ClientsStay
  <2>1. CASE Take
    BY <2>1, TakeHooks DEF ClientsStay
  <2>2. CASE ~Take
    <3>1. heap' = heap
      BY <2>2 DEF AppReturns, AppWrites, AppCloses, Ack, Check, Clear, Close, Abort, TurnFirst, TurnNext, PutBack
    <3> QED BY <3>1 DEF ClientsStay
  <2> QED BY <2>1, <2>2
<1>3. async.at # "discard" /\ async.at \notin Calling
  BY DEF Take, AppReturns, AppWrites, AppCloses, Ack, Check, Clear, Close, Abort, TurnFirst, TurnNext, PutBack, Calling
<1>4. \A q \in Conn : "pcb" \in mishaps'[q] => "pcb" \in mishaps[q]
  <2>1. CASE Take
    BY <2>1, TakeDelivers
  <2>2. CASE Ack
    <3>1. (IF Deleted THEN {"client"} ELSE {}) \in SUBSET {"pcb", "client"} /\ "pcb" \notin IF Deleted THEN {"client"} ELSE {}
      BY Zenon
    <3>2. Mishap(async.ev.pcb, IF Deleted THEN {"client"} ELSE {})
      BY <2>2, Zenon DEF Ack
    <3> DEFINE what == IF Deleted THEN {"client"} ELSE {}
    <3>3. what \in SUBSET {"pcb", "client"} /\ "pcb" \notin what /\ Mishap(async.ev.pcb, what)
      BY <3>1, <3>2
    <3> HIDE DEF what
    <3>4. \A q \in Conn : mishaps'[q] = mishaps[q] \union IF q = async.ev.pcb THEN what ELSE {}
      BY <3>3, MishapDoes DEF TypeInv
    <3> QED BY <3>3, <3>4
  <2>3. CASE ~Take /\ ~Ack
    <3>1. mishaps' = mishaps
      BY <2>3 DEF AppReturns, AppWrites, AppCloses, Check, Clear, Close, Abort, TurnFirst, TurnNext, PutBack, history
    <3> QED BY <3>1
  <2> QED BY <2>1, <2>2, <2>3
<1>5. async'.at # "call"
  <2>1. ASSUME NEW point \in Points \ Calling, Go(point) PROVE async'.at # "call"
    BY <2>1, GoDoes DEF TypeInv, Calling
  <2>2. ASSUME NEW call, NEW back, StartCall(call, back) PROVE async'.at # "call"
    BY <2>2 DEF StartCall, TypeInv, AsyncTask
  <2>3. AfterApp \in Points \ Calling /\ AfterClear \in Points \ Calling
    BY DEF AfterApp, AfterClear, Points, Closing, Calling
  <2>4. {"get", "check", "unhook", "discard", "close"} \subseteq Points \ Calling
    BY DEF Points, Closing, Calling
  <2>5. CASE AppReturns \/ AppWrites \/ AppCloses \/ Ack \/ Check \/ Clear \/ Close \/ Abort
    <3>1. (\E point \in Points \ Calling : Go(point)) \/ (\E call, back : StartCall(call, back))
      BY <2>3, <2>4, <2>5, Zenon DEF AppReturns, AppWrites, AppCloses, Ack, Check, Clear, Close, Abort
    <3> QED BY <2>1, <2>2, <3>1
  <2>6. CASE Take
    BY <2>6, TakeGoes, IdleIs
  <2>7. CASE TurnFirst \/ TurnNext
    BY <1>3, <2>1, <2>4, <2>7, TurnDoes DEF Holds, Calling
  <2>8. CASE PutBack
    BY <2>8, PutBackDoes DEF Holds
  <2> QED BY <2>5, <2>6, <2>7, <2>8
<1> QED BY <1>1, <1>2, <1>3, <1>4, <1>5, FreedKept

LEMMA FreedStep ==
  ASSUME TypeInv, TypeInv', Links, EventsFit, FreedFollows, [Next]_vars
  PROVE  FreedFollows'
<1>1. Grows
  BY GrowsStep
<1>2. ASSUME conn' = conn \/ (\E p \in Conn : Receive(p)),
             heap' = heap, async' = async, mishaps' = mishaps, closedSlots' = closedSlots
      PROVE  FreedFollows'
  <2>1. \A q \in Conn : conn'[q].state = conn[q].state
    BY <1>2, ReceiveDoes
  <2>2. \A a \in Addresses : heap[a].pcb # 0 => heap[a].pcb \in Conn
    BY ClientIs DEF TypeInv
  <2>3. BlocksClosed'
    BY <1>1, <1>2, <2>1, <2>2 DEF FreedFollows, BlocksClosed, Grows
  <2>4. SlotsGiven'
    BY <1>1, <1>2, <2>2 DEF FreedFollows, SlotsGiven, Grows
  <2>5. BlocksLeftAlone'
    BY <1>1, <1>2 DEF FreedFollows, BlocksLeftAlone, Excused, FreedExcuse, Grows
  <2>6. ASSUME async.at = "call" PROVE CallChecked'
    BY <1>1, <1>2, <2>6, CallStaysChecked DEF FreedFollows
  <2> QED BY <1>2, <2>3, <2>4, <2>5, <2>6 DEF FreedFollows
<1>3. CASE UNCHANGED vars \/ Begin \/ End \/ Post
  <2>1. conn' = conn /\ heap' = heap /\ async' = async /\ mishaps' = mishaps /\ closedSlots' = closedSlots
    BY <1>3 DEF vars, history, library, Begin, End, Post
  <2> QED BY <1>2, <2>1
<1>4. ASSUME NEW p \in Conn, Receive(p) \/ Poll(p) \/ Sent(p) PROVE FreedFollows'
  <2>1. conn' = conn \/ Receive(p)
    BY <1>4 DEF Poll, Sent, Tick
  <2>2. heap' = heap /\ async' = async /\ mishaps' = mishaps /\ closedSlots' = closedSlots
    BY <1>4 DEF Receive, Poll, Sent, Tick, history, library
  <2> QED BY <1>2, <2>1, <2>2
<1>5. CASE Accept
  BY <1>1, <1>5, AcceptFreed
<1>6. ASSUME NEW p \in Conn, Fin(p) \/ Ceases(p) PROVE FreedFollows'
  BY <1>1, <1>6, FinFreed, CeasesFreed
<1>7. CASE Serve
  BY <1>1, <1>7, ServeFreed
<1>8. CASE ReadSlot \/ Unhook \/ Discard
  BY <1>1, <1>8, ReadSlotFreed, UnhookFreed, DiscardFreed
<1>9. CASE Take \/ AppReturns \/ AppWrites \/ AppCloses \/ Ack \/ Check \/ Clear \/ Close \/ Abort
           \/ TurnFirst \/ TurnNext \/ PutBack
  BY <1>1, <1>9, OtherFreed
<1> QED BY <1>3, <1>4, <1>5, <1>6, <1>7, <1>8, <1>9 DEF Next, Peer, Ceases, Task

-----------------------------------------------------------------------------
(* The theorems.                                                           *)

LEMMA StartsSafe == Init => Links /\ EventsFit /\ SlotsOwned /\ FreedFollows
<1> SUFFICES ASSUME Init PROVE Links /\ EventsFit /\ SlotsOwned /\ FreedFollows
  OBVIOUS
<1>1. /\ \A p \in Conn : conn[p].state = "new" /\ conn[p].arg = None
      /\ \A a \in Addresses : heap[a] = NoClient
      /\ async = Idle /\ lwip = NoEvent /\ Len(queue) = 0
      /\ \A p \in Conn : mishaps[p] = {}
      /\ \A s \in 0..(Slots - 1) : closedSlots[s] = 1
  BY EmptySeq DEF Init
<1>2. \A a \in Addresses : heap[a].conn = 0 /\ heap[a].pcb = 0 /\ heap[a].slot = NoSlot
  BY <1>1, NoClientIs
<1>3. async.at = "get" /\ async.ev = NoEvent /\ async.held = NoEvent
  BY <1>1, IdleIs
<1>4. Links
  BY <1>1, <1>2, <1>3 DEF Links, ClientLinks, TaskLinks, HasClient, IsClosing, Closing, Calling
<1>5. EventsFit
  <2> SUFFICES ASSUME NEW e \in Events, Waits(e) \/ e = async.ev PROVE FALSE
    BY DEF EventsFit
  <2>1. e # NoEvent
    BY EventParts
  <2>2. 1..Len(queue) = {}
    BY SMT, <1>1
  <2> QED BY <1>1, <1>3, <2>1, <2>2 DEF Waits
<1>6. SlotsOwned
  <2>1. \A s \in 0..(Slots - 1) : s # NoSlot /\ closedSlots[s] # 0
    <3>1. \A s \in 0..(Slots - 1) : s # NoSlot
      BY SMT, TcpAssumption DEF NoSlot
    <3> QED BY <1>1, <3>1
  <2> QED BY <1>2, <2>1 DEF SlotsOwned
<1>7. FreedFollows
  BY <1>1, <1>2, <1>3 DEF FreedFollows, BlocksClosed, SlotsGiven, BlocksLeftAlone
<1> QED BY <1>4, <1>5, <1>6, <1>7

SafetyInv == TypeInv /\ Links /\ EventsFit /\ SlotsOwned /\ FreedFollows

LEMMA SafetyKept == SafetyInv /\ [Next]_vars => SafetyInv'
<1> SUFFICES ASSUME SafetyInv, [Next]_vars PROVE SafetyInv'
  OBVIOUS
<1>1. TypeInv'
  BY TypeStep DEF SafetyInv
<1> QED BY <1>1, LinksStep, EventsFitStep, SlotsStep, FreedStep DEF SafetyInv

LEMMA SafetyInductive == Spec => []SafetyInv
<1>1. Init => SafetyInv
  BY TypeInit, StartsSafe DEF SafetyInv
<1> QED BY <1>1, SafetyKept, PTL DEF Spec

\* SlotsInv, of the server side of AsyncTCP: every variable has its type, the
\* queue never exceeds the room it was made with, and a closed slot is marked
\* in use exactly while one client has it: _allocate_closed_slot never gives
\* out one that a client still has, and none leaks, whatever the order in which
\* lwIP's FIN, the application's close() and the destructor free it.
THEOREM SlotsStayAccounted == Spec => []SlotsInv
<1>1. SafetyInv => SlotsInv
  BY TypesOK, SlotsAreCounted DEF SafetyInv, SlotsInv
<1> QED BY <1>1, SafetyInductive, PTL

\* A bind is refused where a connection of before is left.
ServerFollows == server \in {"freed", "touched"} => \E p \in Conn : conn[p].state # "new"

LEMMA ServerStep == ASSUME TypeInv, ServerFollows, [Next]_vars PROVE ServerFollows'
<1>1. ASSUME \E p \in Conn : conn[p].state # "new" PROVE ServerFollows'
  BY <1>1, GrowsStep DEF ServerFollows, Grows
<1>2. CASE UNCHANGED server
  BY <1>1, <1>2 DEF ServerFollows
<1>3. CASE Begin
  <2>1. CASE server' = "open"
    BY <2>1 DEF ServerFollows
  <2>2. CASE server' = "freed" /\ \E p \in Conn : conn[p].state # "new"
    BY <1>1, <2>2
  <2> QED BY <1>3, <2>1, <2>2 DEF Begin
<1>4. CASE End
  <2>1. CASE server = "freed"
    BY <1>1, <2>1 DEF ServerFollows
  <2>2. CASE server # "freed"
    <3>1. server' = "null"
      BY <1>4, <2>2 DEF End
    <3> QED BY <3>1 DEF ServerFollows
  <2> QED BY <2>1, <2>2
<1>5. ~Begin /\ ~End => UNCHANGED server
  BY Zenon DEF Next, Peer, Task, vars, taskOnly, Post, Accept, Receive, Poll, Sent, Tick, Fin, FinUnhooked, Reset, Serve,
     Take, AppReturns, AppWrites, AppCloses, ReadSlot, Ack, Check, Unhook, Clear, Close, Abort, Discard, TurnFirst, TurnNext,
     PutBack
<1> QED BY <1>2, <1>3, <1>4, <1>5

\* FreedBlocksAreLeftAlone: no call of the async_tcp task and none of the
\* settings of _close touches a control block that lwIP has freed, but for a
\* connection that was reset, or met a FIN once _close had taken tcp_arg away,
\* got no closed slot, met a FIN between the reading of the two arguments of a
\* call, or whose slot was given away under a call.  The check of the closed
\* slot in the _tcp_..._api functions covers the rest.  The server's own freed
\* block end() touches only where a connection of before held the port.
THEOREM FreedStaysLeftAlone == Spec => []FreedBlocksAreLeftAlone
<1> DEFINE Inv == SafetyInv /\ ServerFollows
<1>1. Init => Inv
  BY TypeInit, StartsSafe DEF SafetyInv, ServerFollows, Init
<1>2. Inv /\ [Next]_vars => Inv'
  BY SafetyKept, ServerStep DEF SafetyInv
<1>3. Inv => FreedBlocksAreLeftAlone
  BY DEF SafetyInv, FreedFollows, ServerFollows, FreedBlocksAreLeftAlone, ServerLeftAlone
<1> QED BY <1>1, <1>2, <1>3, PTL DEF Spec

-----------------------------------------------------------------------------
(* The order of the events.                                                *)

\* While the queue is turned over, the first event to stay and what is behind
\* it come before the rest, and what the task holds is between the two.
Rotating == async.at \in {"rest", "put"}
InFront(i) == \A j \in 1..i : queue[j] # async.first
Turned(i) == Rotating /\ ~InFront(i)
Sooner(i, j) == IF Turned(i) <=> Turned(j) THEN i < j ELSE Turned(i)
Ahead(e, f) ==
  \/ \E i, j \in 1..Len(queue) : queue[i] = e /\ queue[j] = f /\ Sooner(i, j)
  \/ e = async.held /\ \E j \in 1..Len(queue) : queue[j] = f /\ ~Turned(j)
  \/ f = async.held /\ \E i \in 1..Len(queue) : queue[i] = e /\ Turned(i)
  \/ f = lwip /\ (Queued(e) \/ e = async.held)

\* No event waits twice, and the end of the round is in the queue.
Unique ==
  /\ \A i, j \in 1..Len(queue) : queue[i] = queue[j] => i = j
  /\ \A i \in 1..Len(queue) : queue[i] # lwip /\ queue[i] # async.held
  /\ lwip # NoEvent => lwip # async.held
  /\ Rotating => Queued(async.first)

\* A CLEAR is behind ACCEPTs only, and the task is not back at another event.
ClearsFirst ==
  /\ \A i \in 1..Len(queue) : queue[i].type = "CLEAR" =>
       /\ async.at \in {"get", "ack"} \/ IsClosing \/ (async.at \in Calling /\ async.back # "check")
       /\ async.at \notin {"unrecv", "clear"}
       /\ \A j \in 1..(i - 1) : queue[j].type = "ACCEPT"
  /\ lwip.type # "CLEAR" /\ async.held.type # "CLEAR"

\* The end of a connection is its last event.
EndIsLast ==
  /\ \A e, f \in Events :
       Ahead(e, f) /\ e.type \in Ends /\ f.pcb = e.pcb /\ f.type # "CLEAR" => "rotation" \in causes[e.pcb]
  /\ async.ev.type \in Ends =>
       \/ "rotation" \in causes[async.ev.pcb]
       \/ \A f \in Events : Waits(f) /\ f.pcb = async.ev.pcb => f.type = "CLEAR"

EventsOrdered == Unique /\ ClearsFirst /\ EndIsLast

LEMMA NotRotating == ASSUME ~Rotating PROVE \A i : ~Turned(i)
BY DEF Turned

\* Outside the turning the task holds nothing.
LEMMA HoldsNothing ==
  ASSUME TypeInv, async.at \notin {"putfirst", "put"}
  PROVE  async.held = NoEvent
BY DEF TypeInv, Registers

\* What a step does to the events: it leaves them alone, or is one of six.
Still ==
  /\ queue' = queue /\ lwip' = lwip
  /\ async' = async \/ (async.at \notin Turning /\ async'.at \notin Turning)

LEMMA StillSteps ==
  ASSUME TypeInv, [Next]_vars
  PROVE  Still \/ Peer \/ Post \/ Take \/ Clear \/ TurnFirst \/ TurnNext \/ PutBack
<1>1. CASE UNCHANGED vars \/ Begin \/ End
  BY <1>1 DEF vars, Begin, End, Still
<1>2. CASE Serve
  <2>1. async.at = "call" /\ queue' = queue /\ lwip' = lwip
    BY <1>2, ServeIs
  <2>2. PICK point \in {"get", "ack", "check", "discard", "abort"} : Go(point)
    BY <1>2, ServeGoes
  <2>3. async'.at = point
    BY <2>2, GoDoes DEF TypeInv, Points, Closing
  <2> QED BY <2>1, <2>3 DEF Still, Turning
<1>3. CASE AppReturns \/ AppWrites \/ AppCloses \/ ReadSlot \/ Ack \/ Check \/ Unhook \/ Close \/ Abort \/ Discard
  <2>1. queue' = queue /\ lwip' = lwip
    BY <1>3 DEF AppReturns, AppWrites, AppCloses, ReadSlot, Ack, Check, Unhook, Close, Abort, Discard, taskOnly
  <2>2. async.at \notin Turning
    BY <1>3 DEF AppReturns, AppWrites, AppCloses, ReadSlot, Ack, Check, Unhook, Close, Abort, Discard, Turning
  <2>3. TypeInv /\ async \in AsyncTask
    BY DEF TypeInv
  <2>4. AfterApp \in {"get", "ack"}
    BY DEF AfterApp
  <2>5. (\E point \in Points \ Turning : Go(point)) \/ (\E call, back : StartCall(call, back)) \/ async'.at = "call"
    <3>1. {"get", "ack", "check", "unhook", "unrecv", "clear", "discard"} \subseteq Points \ Turning
      BY DEF Points, Turning, Closing
    <3>2. CASE ReadSlot
      <4>1. async.back \in {"get", "ack", "check", "discard"}
        BY <2>3 DEF AsyncTask
      <4> QED BY <1>3, <3>1, <3>2, <4>1, ReadSlotDoes
    <3>3. CASE Discard
      BY <3>1, <3>3, DiscardGoes
    <3>4. CASE Unhook
      BY <3>1, <3>4, UnhookDoes
    <3>5. CASE AppReturns \/ AppWrites \/ AppCloses \/ Ack \/ Check \/ Close \/ Abort
      BY <2>4, <3>1, <3>5, Zenon DEF AppReturns, AppWrites, AppCloses, Ack, Check, Close, Abort
    <3> QED BY <1>3, <3>2, <3>3, <3>4, <3>5
  <2>6. async'.at \notin Turning
    <3>1. ASSUME NEW point \in Points \ Turning, Go(point) PROVE async'.at \notin Turning
      BY <2>3, <3>1, GoDoes
    <3>2. ASSUME NEW call, NEW back, StartCall(call, back) PROVE async'.at = "slot"
      BY <2>3, <3>2 DEF StartCall, AsyncTask
    <3> QED BY <2>5, <3>1, <3>2 DEF Turning
  <2> QED BY <2>1, <2>2, <2>6 DEF Still
<1> QED BY <1>1, <1>2, <1>3 DEF Next, Task

LEMMA PeerStill == ASSUME Peer PROVE lwip = NoEvent /\ queue' = queue /\ async' = async
BY Zenon DEF Peer, Accept, Receive, Poll, Sent, Tick, Fin, FinUnhooked, Reset, Callback

\* Where an event is posted.
LEMMA PostPlaces ==
  ASSUME TypeInv, Post
  PROVE  /\ Len(queue) \in Nat /\ Len(queue') = Len(queue) + 1 /\ async' = async
         /\ \/ /\ lwip.type = "ACCEPT" /\ queue'[1] = lwip
               /\ \A i \in 2..Len(queue') : queue'[i] = queue[i - 1]
            \/ /\ lwip.type # "ACCEPT" /\ queue'[Len(queue) + 1] = lwip
               /\ \A i \in 1..Len(queue) : queue'[i] = queue[i]
<1>1. lwip \in Events /\ queue \in Seq(Events) /\ async' = async
  BY PostDoes DEF Post, TypeInv
<1>2. CASE lwip.type = "ACCEPT"
  <2>1. queue' = <<lwip>> \o queue
    BY <1>2 DEF Post
  <2> QED BY <1>1, <1>2, <2>1, PrependQueue
<1>3. CASE lwip.type # "ACCEPT"
  <2>1. queue' = Append(queue, lwip)
    BY <1>3 DEF Post
  <2> QED BY <1>1, <1>3, <2>1, AppendQueue
<1> QED BY <1>2, <1>3

\* The first event is taken out of the queue.
Taken ==
  /\ Len(queue) \in Nat \ {0} /\ Len(queue') = Len(queue) - 1
  /\ \A i \in 1..Len(queue') : queue'[i] = queue[i + 1]

LEMMA TakenPlaces ==
  ASSUME Taken
  PROVE  /\ 1 \in 1..Len(queue) /\ Len(queue) \in Nat
         /\ \A i \in 1..Len(queue') : i + 1 \in 1..Len(queue) /\ i + 1 # 1 /\ queue'[i] = queue[i + 1]
         /\ \A i \in 1..Len(queue) : i # 1 => i - 1 \in 1..Len(queue') /\ queue'[i - 1] = queue[i]
<1>1. /\ 1 \in 1..Len(queue) /\ Len(queue) \in Nat
      /\ \A i \in 1..Len(queue') : i + 1 \in 1..Len(queue) /\ i + 1 # 1
      /\ \A i \in 1..Len(queue) : i # 1 => i - 1 \in 1..Len(queue') /\ (i - 1) + 1 = i
  BY SMT DEF Taken
<1> QED BY <1>1 DEF Taken

\* What was in front of another is in front of it again.
LEMMA TakenTurns ==
  ASSUME Taken, Rotating, Rotating', async'.first = async.first, queue[1] # async.first
  PROVE  \A i \in 1..Len(queue') : Turned(i)' <=> Turned(i + 1)
<1> SUFFICES ASSUME NEW i \in 1..Len(queue') PROVE InFront(i)' <=> InFront(i + 1)
  BY DEF Turned
<1>1. i \in Nat /\ \A j \in 1..(i + 1) : j = 1 \/ (j - 1 \in 1..i /\ j - 1 \in 1..Len(queue') /\ (j - 1) + 1 = j)
  BY SMT DEF Taken
<1>2. \A j \in 1..i : j + 1 \in 1..(i + 1) /\ j \in 1..Len(queue')
  BY SMT DEF Taken
<1>3. ASSUME InFront(i)' PROVE InFront(i + 1)
  BY <1>1, <1>3, ZenonT(60) DEF InFront, Taken
<1>4. ASSUME InFront(i + 1) PROVE InFront(i)'
  BY <1>2, <1>4 DEF InFront, Taken
<1> QED BY <1>3, <1>4

LEMMA AppendedTurns ==
  ASSUME Len(queue) \in Nat, \A i \in 1..Len(queue) : queue'[i] = queue[i], async'.first = async.first
  PROVE  \A i \in 1..Len(queue) : InFront(i)' <=> InFront(i)
<1> SUFFICES ASSUME NEW i \in 1..Len(queue) PROVE InFront(i)' <=> InFront(i)
  OBVIOUS
<1>1. \A j \in 1..i : j \in 1..Len(queue)
  BY SMT
<1> QED BY <1>1 DEF InFront

LEMMA PrependedTurns ==
  ASSUME Len(queue) \in Nat, Len(queue') = Len(queue) + 1, \A i \in 2..Len(queue') : queue'[i] = queue[i - 1],
         async'.first = async.first, queue'[1] # async.first
  PROVE  \A i \in 2..Len(queue') : InFront(i)' <=> InFront(i - 1)
<1> SUFFICES ASSUME NEW i \in 2..Len(queue') PROVE InFront(i)' <=> InFront(i - 1)
  OBVIOUS
<1>1. \A j \in 1..(i - 1) : j + 1 \in 1..i /\ j + 1 \in 2..Len(queue') /\ (j + 1) - 1 = j
  BY SMT
<1>2. \A j \in 1..i : j = 1 \/ (j - 1 \in 1..(i - 1) /\ j \in 2..Len(queue'))
  BY SMT
<1>3. ASSUME InFront(i)' PROVE InFront(i - 1)
  <2> SUFFICES ASSUME NEW j \in 1..(i - 1) PROVE queue[j] # async.first
    BY DEF InFront
  <2>1. queue'[j + 1] = queue[j]
    BY <1>1
  <2> QED BY <1>1, <1>3, <2>1 DEF InFront
<1>4. ASSUME InFront(i - 1) PROVE InFront(i)'
  BY <1>2, <1>4 DEF InFront
<1> QED BY <1>3, <1>4

\* Unique makes the order one.
LEMMA NeverAheadOfItself == ASSUME Unique, NEW e \in Events PROVE ~Ahead(e, e)
<1>1. \A i \in 1..Len(queue) : ~(i < i)
  BY SMT
<1>2. \A i, j \in 1..Len(queue) : queue[i] = e /\ queue[j] = e => ~Sooner(i, j)
  BY <1>1 DEF Unique, Sooner
<1>3. e # NoEvent
  BY EventParts
<1> QED BY <1>2, <1>3 DEF Ahead, Unique, Queued

\* The head of the queue is ahead of all that wait, outside the turning.
LEMMA HeadIsAhead ==
  ASSUME TypeInv, async.at = "get", Taken, NEW f \in Events, Waits(f), f # queue[1]
  PROVE  Ahead(queue[1], f)
<1>1. 1 \in 1..Len(queue) /\ ~Rotating /\ async.held = NoEvent /\ f # NoEvent
  BY TakenPlaces, HoldsNothing, EventParts DEF Rotating
<1>2. CASE f = lwip
  BY <1>1, <1>2 DEF Ahead, Queued
<1>3. CASE \E i \in 1..Len(queue) : queue[i] = f
  <2>1. PICK i \in 1..Len(queue) : queue[i] = f
    BY <1>3
  <2>2. i # 1
    BY <2>1
  <2>3. 1 < i
    BY SMT, <2>2, <1>1
  <2>4. Sooner(1, i)
    BY <1>1, <2>3, NotRotating DEF Sooner
  <2> QED BY <1>1, <2>1, <2>4 DEF Ahead
<1> QED BY <1>1, <1>2, <1>3 DEF Waits

LEMMA AheadWaits == ASSUME NEW e \in Events, NEW f \in Events, Ahead(e, f) PROVE Waits(e) /\ Waits(f)
BY DEF Ahead, Waits, Queued

\* The event lwIP brings is new.
LEMMA BroughtIsNew ==
  ASSUME TypeInv, EventsFit, Peer, NEW e \in Events, e = lwip'
  PROVE  ~Waits(e) /\ e # async.ev
<1> SUFFICES ~EventFits(e)
  BY DEF EventsFit
<1>1. CASE Accept
  <2>1. PICK p \in Conn, a \in Addresses, s \in NoSlot..(Slots - 1) : Accepted(p, a, s)
    BY <1>1, AcceptDoes
  <2>2. conn[p].state = "new" /\ lwip' = Event("ACCEPT", a, p, 0)
    BY <2>1 DEF Accepted
  <2>3. e.pcb = p
    BY <2>2 DEF Event
  <2> QED BY <2>2, <2>3 DEF EventFits
<1>2. ASSUME NEW p \in Conn, Receive(p) PROVE ~EventFits(e)
  <2>1. lwip' = Event("RECV", conn[p].arg, p, conn[p].rx + 1)
    BY <1>2, ReceiveDoes
  <2>2. e.type = "RECV" /\ e.pcb = p /\ e.n = conn[p].rx + 1
    BY <2>1 DEF Event
  <2>3. ~(conn[p].rx + 1 <= conn[p].rx)
    BY SMT, BlockIs DEF TypeInv
  <2> QED BY <2>2, <2>3 DEF EventFits
<1>3. ASSUME NEW p \in Conn, Poll(p) \/ Sent(p) PROVE ~EventFits(e)
  <2>1. PICK type \in {"POLL", "SENT"} : Tick(p, type)
    BY <1>3 DEF Poll, Sent
  <2>2. traffic \in Nat /\ lwip' = Event(type, conn[p].arg, p, traffic + 1)
    BY <2>1, TickDoes
  <2>3. e.type = type /\ e.n = traffic + 1
    BY <2>2 DEF Event
  <2>4. ~(traffic + 1 <= traffic)
    BY SMT, <2>2
  <2> QED BY <2>3, <2>4 DEF EventFits
<1>4. ASSUME NEW p \in Conn, Fin(p) \/ Ceases(p) PROVE ~EventFits(e)
  <2>1. conn[p].state = "open"
    BY <1>4, FinDoes, CeasesDoes
  <2>2. lwip' = Event("FIN", conn[p].arg, p, 0) \/ lwip' = Event("ERROR", conn[p].arg, p, 0)
    <3>1. e # NoEvent
      BY EventParts
    <3> QED BY <1>4, <3>1, FinDoes, CeasesDoes
  <2>3. e.type \in Ends /\ e.pcb = p
    BY <2>2 DEF Event, Ends
  <2> QED BY <2>1, <2>3 DEF EventFits
<1> QED BY <1>1, <1>2, <1>3, <1>4 DEF Peer, Ceases

\* The events that wait after a step: those there were, the one lwIP brings,
\* the CLEAR.
LEMMA WaitsOfStep ==
  ASSUME TypeInv, [Next]_vars, NEW e \in Events, Waits(e)'
  PROVE  \/ Waits(e)
         \/ lwip = NoEvent /\ e = lwip' /\ Peer
         \/ Clear /\ e = Event("CLEAR", async.ev.arg, async.ev.pcb, 0)
<1>1. e # NoEvent /\ NoEvent \notin Events
  BY EventParts
<1>2. CASE Still
  <2>1. async'.held \in {async.held, NoEvent}
    <3>1. CASE async'.at \notin Turning
      BY <3>1, TypeStep, HoldsNothing DEF Turning, TypeInv, Registers
    <3> QED BY <1>2, <3>1 DEF Still
  <2> QED BY <1>1, <1>2, <2>1 DEF Still, Waits
<1>3. CASE Peer
  BY <1>3, PeerStill DEF Waits
<1>4. CASE Post
  <2>1. async' = async
    BY <1>4 DEF Post
  <2> QED BY <1>1, <1>4, <2>1, PostDoes DEF Waits, Queued
<1>5. CASE Take
  <2>1. lwip' = lwip /\ (Queued(e)' => Queued(e))
    BY <1>5, TakeDoes
  <2>2. async'.held = NoEvent
    <3>1. CASE async' = Idle
      BY <3>1, IdleIs
    <3>2. CASE async' # Idle
      BY <1>5, <3>2, TakeGoes, IdleIs DEF SameBut
    <3> QED BY <3>1, <3>2
  <2> QED BY <1>1, <2>1, <2>2 DEF Waits, Queued
<1>6. CASE Clear
  <2>1. lwip' = lwip /\ (Queued(e)' => Queued(e) \/ e = Event("CLEAR", async.ev.arg, async.ev.pcb, 0))
    BY <1>6, ClearDoes
  <2>2. async'.held = NoEvent
    <3>1. AfterClear \in Points /\ Go(AfterClear)
      BY <1>6, ClearDoes DEF Points, Closing, AfterClear
    <3> QED BY <3>1, GoDoes DEF TypeInv
  <2> QED BY <1>1, <1>6, <2>1, <2>2 DEF Waits, Queued
<1>7. CASE TurnFirst \/ TurnNext
  <2>1. lwip' = lwip
    BY <1>7, TurnDoes
  <2>2. CASE queue' = queue /\ Go("get")
    BY <1>1, <2>1, <2>2, GoDoes DEF Waits, TypeInv, Points
  <2>3. CASE ~(queue' = queue /\ Go("get"))
    <3>1. Taken /\ async'.held \in {async.held, queue[1]}
      BY <1>7, <2>3, TurnDoes DEF Holds, Taken
    <3> QED BY <2>1, <3>1, TakenPlaces DEF Waits
  <2> QED BY <2>2, <2>3
<1>8. CASE PutBack
  <2>1. /\ lwip' = lwip /\ async'.held = NoEvent
        /\ Len(queue) \in Nat /\ Len(queue') = Len(queue) + 1 /\ queue'[Len(queue) + 1] = async.held
        /\ \A i \in 1..Len(queue) : queue'[i] = queue[i]
    BY <1>8, PutBackDoes DEF Holds
  <2>2. \A i \in 1..Len(queue') : i = Len(queue) + 1 \/ i \in 1..Len(queue)
    BY SMT, <2>1
  <2> QED BY <1>1, <2>1, <2>2 DEF Waits
<1> QED BY <1>2, <1>3, <1>4, <1>5, <1>6, <1>7, <1>8, StillSteps

\* The event the task handles after a step: the one it had, or the head.
LEMMA EventOfStep ==
  ASSUME TypeInv, [Next]_vars, async'.ev \in Events
  PROVE  async'.ev = async.ev \/ (Take /\ async'.ev = queue[1])
<1>1. NoEvent \notin Events /\ async \in AsyncTask
  BY NoEventParts DEF TypeInv
<1>2. ASSUME NEW point, Go(point) PROVE async'.ev = async.ev
  <2>1. CASE point = "get"
    BY <1>1, <1>2, <2>1, IdleIs DEF Go, At
  <2>2. CASE point # "get"
    BY <1>2, <2>2 DEF Go, At, Idle
  <2> QED BY <2>1, <2>2
<1>3. ASSUME NEW call, NEW back, StartCall(call, back) PROVE async'.ev = async.ev
  BY <1>1, <1>3 DEF StartCall, AsyncTask
<1>4. CASE UNCHANGED vars \/ Begin \/ End \/ Peer \/ Post
  BY <1>4, PeerStill DEF vars, Begin, End, Post
<1>5. CASE Serve
  BY <1>2, <1>5, ServeGoes
<1>6. CASE Take
  <2>1. CASE async' = Idle
    BY <1>1, <2>1, IdleIs
  <2>2. CASE async' # Idle
    BY <1>6, <2>2, TakeGoes
  <2> QED BY <2>1, <2>2
<1>7. CASE AppReturns \/ AppWrites \/ AppCloses \/ Ack \/ Check \/ Unhook \/ Clear \/ Close \/ Abort \/ Discard
  <2>1. (\E point : Go(point)) \/ (\E call, back : StartCall(call, back))
    BY <1>7, Zenon DEF AppReturns, AppWrites, AppCloses, Ack, Check, Unhook, Clear, Close, Abort, Discard
  <2> QED BY <1>2, <1>3, <2>1
<1>8. CASE ReadSlot
  <2>1. Go(async.back) \/ SameBut(async', async, {"at", "slot"})
    BY <1>8, ReadSlotDoes
  <2> QED BY <1>2, <2>1 DEF SameBut
<1>9. CASE TurnFirst \/ TurnNext
  <2>1. Go("get") \/ async'.ev = async.ev
    BY <1>9, TurnDoes DEF Holds
  <2> QED BY <1>2, <2>1
<1>10. CASE PutBack
  BY <1>10, PutBackDoes DEF Holds
<1> QED BY <1>4, <1>5, <1>6, <1>7, <1>8, <1>9, <1>10 DEF Next, Task

\* What is ahead of what after a step was so before it, with three exceptions:
\* what lwIP brings is behind all that wait; what it posts overtakes others as
\* an ACCEPT or during the turning; and the CLEAR goes in front.
Overtakes(e, f) ==
  \/ Peer /\ f = lwip' /\ (Queued(e) \/ e = async.held)
  \/ Post /\ e = lwip /\ (e.type = "ACCEPT" \/ "rotation" \in causes'[e.pcb])
  \/ Clear /\ e = Event("CLEAR", async.ev.arg, async.ev.pcb, 0)

\* Where nothing turns, the order is that of the queue.
LEMMA AheadInQueue ==
  ASSUME NEW e \in Events, NEW f \in Events, ~Rotating, async.held = NoEvent
  PROVE  Ahead(e, f) <=>
           \/ \E i, j \in 1..Len(queue) : queue[i] = e /\ queue[j] = f /\ i < j
           \/ f = lwip /\ Queued(e)
<1>1. e # NoEvent /\ f # NoEvent
  BY EventParts
<1> QED BY <1>1, NotRotating DEF Ahead, Sooner

LEMMA AheadInQueueThen ==
  ASSUME NEW e \in Events, NEW f \in Events, ~Rotating', async'.held = NoEvent
  PROVE  Ahead(e, f)' <=>
           \/ \E i, j \in 1..Len(queue') : queue'[i] = e /\ queue'[j] = f /\ i < j
           \/ f = lwip' /\ Queued(e)'
<1>1. e # NoEvent /\ f # NoEvent
  BY EventParts
<1>2. \A i : ~Turned(i)'
  BY DEF Turned
<1> QED BY <1>1, <1>2 DEF Ahead, Sooner

LEMMA StillOrder ==
  ASSUME TypeInv, TypeInv', Still, NEW e \in Events, NEW f \in Events, Ahead(e, f)'
  PROVE  Ahead(e, f)
<1>1. queue' = queue /\ lwip' = lwip
  BY DEF Still
<1>2. CASE async' = async
  BY <1>1, <1>2 DEF Ahead, Sooner, Turned, InFront, Rotating, Queued
<1>3. CASE async' # async
  <2>1. ~Rotating /\ ~Rotating' /\ async.held = NoEvent /\ async'.held = NoEvent
    BY <1>3 DEF Still, Turning, Rotating, TypeInv, Registers
  <2>2. \/ \E i, j \in 1..Len(queue') : queue'[i] = e /\ queue'[j] = f /\ i < j
        \/ f = lwip' /\ Queued(e)'
    BY <2>1, AheadInQueueThen
  <2> QED BY <1>1, <2>1, <2>2, AheadInQueue DEF Queued
<1> QED BY <1>2, <1>3

LEMMA PeerOrder ==
  ASSUME TypeInv, Peer, NEW e \in Events, NEW f \in Events, Ahead(e, f)'
  PROVE  Ahead(e, f) \/ Overtakes(e, f)
<1>1. queue' = queue /\ async' = async
  BY PeerStill
<1> QED BY <1>1 DEF Ahead, Sooner, Turned, InFront, Rotating, Queued, Overtakes

LEMMA PostOrder ==
  ASSUME TypeInv, Unique, Post, NEW e \in Events, NEW f \in Events, Ahead(e, f)'
  PROVE  Ahead(e, f) \/ Overtakes(e, f)
<1>1. /\ Len(queue) \in Nat /\ Len(queue') = Len(queue) + 1 /\ async' = async
      /\ lwip' = NoEvent /\ lwip \in Events /\ f # NoEvent /\ (Rotating' <=> Rotating)
  BY PostPlaces, PostDoes, EventParts DEF Rotating
<1>2. Rotating => "rotation" \in causes'[lwip.pcb]
  <2>1. lwip.pcb \in Conn
    BY <1>1, EventParts
  <2> QED BY <2>1, PostDoes DEF Rotating, Meets
<1>3. Rotating => async.first # lwip
  BY DEF Unique, Queued
<1>4. ASSUME f = lwip, Queued(e) \/ e = async.held PROVE Ahead(e, f)
  BY <1>4 DEF Ahead
\* An ACCEPT is put in front.
<1>5. CASE lwip.type = "ACCEPT"
  <2>1. queue'[1] = lwip /\ \A i \in 2..Len(queue') : queue'[i] = queue[i - 1]
    BY <1>5, PostPlaces
  <2>2. \A i \in 1..Len(queue') : i = 1 \/ (i \in 2..Len(queue') /\ i - 1 \in 1..Len(queue))
    BY SMT, <1>1
  <2>3. \A i \in 2..Len(queue') : Turned(i)' <=> Turned(i - 1)
    <3>1. CASE Rotating
      BY <1>1, <1>3, <2>1, <3>1, PrependedTurns DEF Turned
    <3> QED BY <1>1, <3>1 DEF Turned
  <2>4. e = lwip => Overtakes(e, f)
    BY <1>5 DEF Overtakes
  <2>5. CASE \E i, j \in 1..Len(queue') : queue'[i] = e /\ queue'[j] = f /\ Sooner(i, j)'
    <3>1. PICK i \in 1..Len(queue'), j \in 1..Len(queue') : queue'[i] = e /\ queue'[j] = f /\ Sooner(i, j)'
      BY <2>5
    <3>2. CASE i = 1
      BY <2>1, <2>4, <3>1, <3>2
    <3>3. CASE i # 1 /\ j = 1
      BY <1>4, <2>1, <2>2, <3>1, <3>3 DEF Queued
    <3>4. CASE i # 1 /\ j # 1
      <4>1. i - 1 \in 1..Len(queue) /\ j - 1 \in 1..Len(queue) /\ queue[i - 1] = e /\ queue[j - 1] = f
        BY <2>1, <2>2, <3>1, <3>4
      <4>2. i < j <=> i - 1 < j - 1
        BY SMT
      <4>3. (Turned(i)' <=> Turned(i - 1)) /\ (Turned(j)' <=> Turned(j - 1))
        BY <2>2, <2>3, <3>4
      <4>4. Sooner(i - 1, j - 1)
        BY <3>1, <4>2, <4>3 DEF Sooner
      <4> QED BY <4>1, <4>4 DEF Ahead
    <3> QED BY <3>2, <3>3, <3>4
  <2>6. CASE e = async'.held /\ \E j \in 1..Len(queue') : queue'[j] = f /\ ~Turned(j)'
    <3>1. PICK j \in 1..Len(queue') : queue'[j] = f /\ ~Turned(j)'
      BY <2>6
    <3> QED BY <1>1, <1>4, <2>1, <2>2, <2>3, <2>6, <3>1 DEF Ahead
  <2>7. CASE f = async'.held /\ \E i \in 1..Len(queue') : queue'[i] = e /\ Turned(i)'
    <3>1. PICK i \in 1..Len(queue') : queue'[i] = e /\ Turned(i)'
      BY <2>7
    <3> QED BY <1>1, <2>1, <2>2, <2>3, <2>4, <2>7, <3>1 DEF Ahead
  <2> QED BY <1>1, <2>5, <2>6, <2>7 DEF Ahead
\* Any other goes to the end.
<1>6. CASE lwip.type # "ACCEPT"
  <2>1. queue'[Len(queue) + 1] = lwip /\ \A i \in 1..Len(queue) : queue'[i] = queue[i]
    BY <1>6, PostPlaces
  <2>2. \A i \in 1..Len(queue') : i = Len(queue) + 1 \/ i \in 1..Len(queue)
    BY SMT, <1>1
  <2>3. \A i \in 1..Len(queue) : Turned(i)' <=> Turned(i)
    BY <1>1, <2>1, AppendedTurns DEF Turned
  <2>4. Rotating /\ e = lwip => Overtakes(e, f)
    BY <1>2 DEF Overtakes
  <2>5. CASE \E i, j \in 1..Len(queue') : queue'[i] = e /\ queue'[j] = f /\ Sooner(i, j)'
    <3>1. PICK i \in 1..Len(queue'), j \in 1..Len(queue') : queue'[i] = e /\ queue'[j] = f /\ Sooner(i, j)'
      BY <2>5
    <3>2. CASE i \notin 1..Len(queue)
      <4>1. e = lwip /\ ~(i < j)
        <5>1. i = Len(queue) + 1 /\ (j = Len(queue) + 1 \/ j \in 1..Len(queue))
          BY <2>2, <3>2
        <5>2. ~(i < j)
          BY SMT, <1>1, <5>1
        <5> QED BY <2>1, <3>1, <5>1, <5>2
      <4>2. Rotating
        BY <1>1, <3>1, <4>1 DEF Sooner, Turned
      <4> QED BY <2>4, <4>1, <4>2
    <3>3. CASE i \in 1..Len(queue) /\ j \notin 1..Len(queue)
      BY <1>4, <2>1, <2>2, <3>1, <3>3 DEF Queued
    <3>4. CASE i \in 1..Len(queue) /\ j \in 1..Len(queue)
      <4>1. (Turned(i)' <=> Turned(i)) /\ (Turned(j)' <=> Turned(j))
        BY <2>3, <3>4
      <4>2. Sooner(i, j)
        BY <3>1, <4>1 DEF Sooner
      <4>3. queue[i] = e /\ queue[j] = f
        BY <2>1, <3>1, <3>4
      <4> QED BY <3>4, <4>2, <4>3 DEF Ahead
    <3> QED BY <3>2, <3>3, <3>4
  <2>6. CASE e = async'.held /\ \E j \in 1..Len(queue') : queue'[j] = f /\ ~Turned(j)'
    <3>1. PICK j \in 1..Len(queue') : queue'[j] = f /\ ~Turned(j)'
      BY <2>6
    <3> QED BY <1>1, <1>4, <2>1, <2>2, <2>3, <2>6, <3>1 DEF Ahead
  <2>7. CASE f = async'.held /\ \E i \in 1..Len(queue') : queue'[i] = e /\ Turned(i)'
    <3>1. PICK i \in 1..Len(queue') : queue'[i] = e /\ Turned(i)'
      BY <2>7
    <3>2. Rotating
      BY <1>1, <3>1 DEF Turned
    <3> QED BY <1>1, <2>1, <2>2, <2>3, <2>4, <2>7, <3>1, <3>2 DEF Ahead
  <2> QED BY <1>1, <2>5, <2>6, <2>7 DEF Ahead
<1> QED BY <1>5, <1>6

LEMMA ClearOrder ==
  ASSUME TypeInv, TypeInv', Clear, NEW e \in Events, NEW f \in Events, Ahead(e, f)'
  PROVE  Ahead(e, f) \/ Overtakes(e, f)
<1> DEFINE c == Event("CLEAR", async.ev.arg, async.ev.pcb, 0)
<1>1. /\ Len(queue) \in Nat /\ Len(queue') = Len(queue) + 1 /\ queue'[1] = c
      /\ \A i \in 2..Len(queue') : queue'[i] = queue[i - 1]
      /\ lwip' = lwip /\ async.at = "clear"
  BY ClearDoes
<1>2. async'.at \in {"discard", "close"}
  <2>1. AfterClear \in {"discard", "close"} /\ Go(AfterClear)
    BY ClearDoes
  <2> QED BY <2>1, GoDoes DEF TypeInv, Points, Closing
<1>3. ~Rotating /\ ~Rotating' /\ async.held = NoEvent /\ async'.held = NoEvent
  BY <1>1, <1>2 DEF Rotating, TypeInv, Registers
<1>4. \/ \E i, j \in 1..Len(queue') : queue'[i] = e /\ queue'[j] = f /\ i < j
      \/ f = lwip' /\ Queued(e)'
  BY <1>3, AheadInQueueThen
<1>5. e = c => Overtakes(e, f)
  BY DEF Overtakes
<1>6. CASE \E i, j \in 1..Len(queue') : queue'[i] = e /\ queue'[j] = f /\ i < j
  <2>1. PICK i \in 1..Len(queue'), j \in 1..Len(queue') : queue'[i] = e /\ queue'[j] = f /\ i < j
    BY <1>6
  <2>2. CASE i = 1
    BY <1>1, <1>5, <2>1, <2>2
  <2>3. CASE i # 1
    <3>1. /\ i \in 2..Len(queue') /\ j \in 2..Len(queue') /\ i - 1 \in 1..Len(queue) /\ j - 1 \in 1..Len(queue)
          /\ i - 1 < j - 1
      BY SMT, <1>1, <2>1, <2>3
    <3> QED BY <1>1, <1>3, <2>1, <3>1, AheadInQueue
  <2> QED BY <2>2, <2>3
<1>7. CASE f = lwip' /\ Queued(e)'
  <2>1. Queued(e) \/ e = c
    BY <1>7, ClearDoes
  <2> QED BY <1>1, <1>3, <1>5, <1>7, <2>1, AheadInQueue
<1> QED BY <1>4, <1>6, <1>7

LEMMA TakeLeads ==
  ASSUME TypeInv, Take
  PROVE  /\ Taken /\ async.at = "get" /\ lwip' = lwip
         /\ ~Rotating /\ ~Rotating' /\ async.held = NoEvent /\ async'.held = NoEvent
<1>1. Taken /\ async.at = "get" /\ lwip' = lwip
  BY TakeDoes DEF Taken
<1>2. async'.held = NoEvent /\ async'.at \in {"get", "app", "ack", "clear", "discard", "first"}
  <2>1. CASE async' = Idle
    BY <2>1, IdleIs
  <2>2. CASE async' # Idle
    BY <2>2, TakeGoes, IdleIs DEF SameBut
  <2> QED BY <2>1, <2>2
<1> QED BY <1>1, <1>2, HoldsNothing DEF Rotating

LEMMA TakeOrder ==
  ASSUME TypeInv, Take, NEW e \in Events, NEW f \in Events, Ahead(e, f)'
  PROVE  Ahead(e, f)
<1>1. /\ Taken /\ lwip' = lwip /\ ~Rotating /\ ~Rotating' /\ async.held = NoEvent /\ async'.held = NoEvent
  BY TakeLeads
<1>2. \/ \E i, j \in 1..Len(queue') : queue'[i] = e /\ queue'[j] = f /\ i < j
      \/ f = lwip' /\ Queued(e)'
  BY <1>1, AheadInQueueThen
<1>3. CASE \E i, j \in 1..Len(queue') : queue'[i] = e /\ queue'[j] = f /\ i < j
  <2>1. PICK i \in 1..Len(queue'), j \in 1..Len(queue') : queue'[i] = e /\ queue'[j] = f /\ i < j
    BY <1>3
  <2>2. i + 1 < j + 1
    BY SMT, <2>1
  <2> QED BY <1>1, <2>1, <2>2, TakenPlaces, AheadInQueue
<1>4. CASE f = lwip' /\ Queued(e)'
  BY <1>1, <1>4, TakeDoes, AheadInQueue
<1> QED BY <1>2, <1>3, <1>4

\* A step of the turning ends it, drops an event, or takes one into the hands.
TurnEnds == queue' = queue /\ Go("get") /\ (Len(queue) = 0 \/ (async.at = "rest" /\ queue[1] = async.first))
TurnDrops ==
  /\ Taken /\ queue[1] \in Events /\ async' = async /\ Matches(queue[1])
  /\ async.at = "rest" => queue[1] # async.first
TurnHolds ==
  /\ Taken /\ queue[1] \in Events /\ ~Matches(queue[1])
  /\ \/ async.at = "first" /\ Holds("putfirst", queue[1], queue[1])
     \/ async.at = "rest" /\ queue[1] # async.first /\ Holds("put", queue[1], async.first)

LEMMA TurnLeads ==
  ASSUME TypeInv, TurnFirst \/ TurnNext
  PROVE  /\ TurnEnds \/ TurnDrops \/ TurnHolds
         /\ async.at \in {"first", "rest"} /\ async.held = NoEvent /\ lwip' = lwip /\ Len(queue) \in Nat
<1>1. async.at \in {"first", "rest"} /\ async.held = NoEvent /\ lwip' = lwip
  BY TurnDoes
<1>2. queue \in Seq(Events) /\ Len(queue) \in Nat /\ Len(<<>>) = 0
  BY EmptySeq, LenProperties DEF TypeInv
<1>3. CASE queue' = queue /\ Go("get")
  <2>1. TurnFirst => queue = <<>> \/ queue' = Tail(queue)
    BY DEF TurnFirst
  <2>2. TurnNext => queue = <<>> \/ Head(queue) = async.first \/ queue' = Tail(queue)
    BY DEF TurnNext
  <2>3. queue # <<>> => queue' # Tail(queue)
    <3>1. queue # <<>> /\ queue' = Tail(queue) => Len(queue') = Len(queue) - 1
      BY <1>2, TailQueue
    <3>2. Len(queue) # Len(queue) - 1
      BY SMT, <1>2
    <3> QED BY <1>3, <3>1, <3>2
  <2>4. queue # <<>> => Head(queue) = queue[1]
    BY <1>2, SMT
  <2>5. TurnNext => async.at = "rest"
    BY DEF TurnNext
  <2>6. queue = <<>> => Len(queue) = 0
    BY <1>2
  <2>7. ASSUME queue = <<>> PROVE TurnEnds
    BY <1>3, <2>6, <2>7 DEF TurnEnds
  <2>8. ASSUME queue # <<>> PROVE TurnEnds
    <3>1. ~TurnFirst
      BY <2>1, <2>3, <2>8
    <3>2. async.at = "rest" /\ Head(queue) = async.first
      BY <2>2, <2>3, <2>5, <2>8, <3>1
    <3>3. async.at = "rest" /\ queue[1] = async.first
      BY <2>4, <2>8, <3>2
    <3> QED BY <1>3, <3>3 DEF TurnEnds
  <2>9. TurnEnds
    BY <2>7, <2>8
  <2> QED BY <1>1, <1>2, <2>9
<1>4. CASE ~(queue' = queue /\ Go("get"))
  <2>1. /\ Taken /\ queue[1] \in Events /\ queue # <<>>
        /\ \/ async' = async /\ Matches(queue[1])
           \/ async.at = "first" /\ ~Matches(queue[1]) /\ Holds("putfirst", queue[1], queue[1])
           \/ async.at = "rest" /\ ~Matches(queue[1]) /\ Holds("put", queue[1], async.first)
    BY <1>4, TurnDoes DEF Taken
  <2>2. Head(queue) = queue[1]
    BY <1>2, <2>1, SMT
  <2>3. async.at = "rest" => queue[1] # async.first
    BY <1>4, <2>1, <2>2 DEF TurnFirst, TurnNext
  <2>4. Taken /\ queue[1] \in Events
    BY <2>1
  <2>5. ASSUME async' = async /\ Matches(queue[1]) PROVE TurnDrops
    BY <2>3, <2>4, <2>5 DEF TurnDrops
  <2>6. ASSUME async.at = "first" /\ ~Matches(queue[1]) /\ Holds("putfirst", queue[1], queue[1]) PROVE TurnHolds
    BY <2>4, <2>6 DEF TurnHolds
  <2>7. ASSUME async.at = "rest" /\ ~Matches(queue[1]) /\ Holds("put", queue[1], async.first) PROVE TurnHolds
    BY <2>3, <2>4, <2>7 DEF TurnHolds
  <2>8. TurnDrops \/ TurnHolds
    BY <2>1, <2>5, <2>6, <2>7
  <2> QED BY <1>1, <1>2, <2>8
<1> QED BY <1>1, <1>2, <1>3, <1>4

LEMMA TurnOrder ==
  ASSUME TypeInv, TypeInv', Unique, TurnFirst \/ TurnNext, NEW e \in Events, NEW f \in Events, Ahead(e, f)'
  PROVE  Ahead(e, f)
<1>1. async.at \in {"first", "rest"} /\ async.held = NoEvent /\ lwip' = lwip /\ e # NoEvent /\ f # NoEvent /\ Len(queue) \in Nat
  BY TurnLeads, EventParts
\* All are turned when the turning ends.
<1>2. CASE TurnEnds
  <2>1. queue' = queue /\ async'.at = "get" /\ async'.held = NoEvent
    BY <1>2, GoDoes DEF TurnEnds, TypeInv, Points
  <2>2. \/ \E i, j \in 1..Len(queue) : queue[i] = e /\ queue[j] = f /\ i < j
        \/ f = lwip /\ Queued(e)
    BY <1>1, <2>1, AheadInQueueThen DEF Rotating, Queued
  <2>3. \A i \in 1..Len(queue) : Rotating => Turned(i)
    <3>1. \A i \in 1..Len(queue) : 1 \in 1..i /\ Len(queue) # 0
      BY SMT, <1>1
    <3>2. \A i \in 1..Len(queue) : queue[1] = async.first \/ ~Rotating
      BY <1>2, <1>1, <3>1 DEF TurnEnds, Rotating
    <3> QED BY <3>1, <3>2 DEF Turned, InFront
  <2>4. \A i, j \in 1..Len(queue) : i < j => Sooner(i, j)
    BY <2>3 DEF Sooner, Turned
  <2> QED BY <2>2, <2>4 DEF Ahead
<1>3. CASE Rotating /\ (TurnDrops \/ TurnHolds)
  <2>1. /\ Taken /\ async'.first = async.first /\ queue[1] # async.first /\ Rotating'
        /\ async' = async \/ async'.held = queue[1]
    <3>1. async.at = "rest"
      BY <1>1, <1>3 DEF Rotating
    <3>2. CASE TurnDrops
      BY <3>1, <3>2 DEF TurnDrops, Rotating
    <3>3. CASE TurnHolds
      <4>1. Taken /\ queue[1] # async.first /\ Holds("put", queue[1], async.first)
        BY <3>1, <3>3 DEF TurnHolds
      <4> QED BY <4>1 DEF Holds, Rotating
    <3> QED BY <1>3, <3>2, <3>3
  <2>2. \A i \in 1..Len(queue') : Turned(i)' <=> Turned(i + 1)
    BY <1>3, <2>1, TakenTurns
  <2>3. ~Turned(1)
    <3>1. \A j \in 1..1 : j = 1
      BY SMT
    <3> QED BY <2>1, <3>1 DEF Turned, InFront
  <2>4. \A i \in 1..Len(queue') : 1 < i + 1
    BY SMT, <2>1 DEF Taken
  <2>5. CASE \E i, j \in 1..Len(queue') : queue'[i] = e /\ queue'[j] = f /\ Sooner(i, j)'
    <3>1. PICK i \in 1..Len(queue'), j \in 1..Len(queue') : queue'[i] = e /\ queue'[j] = f /\ Sooner(i, j)'
      BY <2>5
    <3>2. i < j <=> i + 1 < j + 1
      BY SMT
    <3>3. Sooner(i + 1, j + 1)
      BY <2>2, <3>1, <3>2 DEF Sooner
    <3> QED BY <2>1, <3>1, <3>3, TakenPlaces DEF Ahead
  <2>6. CASE e = async'.held /\ \E j \in 1..Len(queue') : queue'[j] = f /\ ~Turned(j)'
    <3>1. PICK j \in 1..Len(queue') : queue'[j] = f /\ ~Turned(j)'
      BY <2>6
    <3>2. e = queue[1] /\ Sooner(1, j + 1)
      BY <1>1, <2>1, <2>2, <2>3, <2>4, <2>6, <3>1 DEF Sooner
    <3> QED BY <2>1, <3>1, <3>2, TakenPlaces DEF Ahead
  <2>7. CASE f = async'.held /\ \E i \in 1..Len(queue') : queue'[i] = e /\ Turned(i)'
    <3>1. PICK i \in 1..Len(queue') : queue'[i] = e /\ Turned(i)'
      BY <2>7
    <3>2. f = queue[1] /\ Sooner(i + 1, 1)
      BY <1>1, <2>1, <2>2, <2>3, <2>7, <3>1 DEF Sooner
    <3> QED BY <2>1, <3>1, <3>2, TakenPlaces DEF Ahead
  <2>8. CASE f = lwip' /\ (Queued(e)' \/ e = async'.held)
    <3>1. Queued(e)
      BY <1>1, <2>1, <2>8, TakenPlaces DEF Queued
    <3> QED BY <1>1, <2>8, <3>1 DEF Ahead
  <2> QED BY <2>5, <2>6, <2>7, <2>8 DEF Ahead
<1>4. CASE ~Rotating /\ (TurnDrops \/ TurnHolds)
  <2>1. Taken /\ ~Rotating' /\ (async'.held = NoEvent \/ async'.held = queue[1])
    BY <1>1, <1>4 DEF Holds, TurnDrops, TurnHolds, Rotating
  <2>2. \A i \in 1..Len(queue') : 1 < i + 1
    BY SMT, <2>1 DEF Taken
  <2>3. CASE \E i, j \in 1..Len(queue') : queue'[i] = e /\ queue'[j] = f /\ Sooner(i, j)'
    <3>1. PICK i \in 1..Len(queue'), j \in 1..Len(queue') : queue'[i] = e /\ queue'[j] = f /\ Sooner(i, j)'
      BY <2>3
    <3>2. i < j
      BY <2>1, <3>1 DEF Sooner, Turned
    <3>3. i + 1 < j + 1
      BY SMT, <3>2
    <3> QED BY <1>1, <1>4, <2>1, <3>1, <3>3, TakenPlaces, AheadInQueue
  <2>4. CASE e = async'.held /\ \E j \in 1..Len(queue') : queue'[j] = f /\ ~Turned(j)'
    <3>1. PICK j \in 1..Len(queue') : queue'[j] = f
      BY <2>4
    <3>2. e = queue[1] /\ 1 < j + 1
      BY <1>1, <2>1, <2>2, <2>4
    <3> QED BY <1>1, <1>4, <2>1, <3>1, <3>2, TakenPlaces, AheadInQueue
  <2>5. CASE f = lwip' /\ (Queued(e)' \/ e = async'.held)
    <3>1. Queued(e)
      BY <1>1, <2>1, <2>5, TakenPlaces DEF Queued
    <3> QED BY <1>1, <2>5, <3>1 DEF Ahead
  <2>6. \A i : ~Turned(i)'
    BY <2>1 DEF Turned
  <2> QED BY <2>3, <2>4, <2>5, <2>6 DEF Ahead
<1> QED BY <1>2, <1>3, <1>4, TurnLeads

LEMMA PutBackOrder ==
  ASSUME TypeInv, Unique, PutBack, NEW e \in Events, NEW f \in Events, Ahead(e, f)'
  PROVE  Ahead(e, f)
<1>0. PICK L \in Nat : L = Len(queue)
  BY PutBackDoes
<1>1. /\ async.at \in {"putfirst", "put"} /\ lwip' = lwip /\ async'.at = "rest" /\ async'.held = NoEvent
      /\ async'.first = async.first /\ (async.at = "putfirst" => async.held = async.first)
      /\ L \in Nat /\ Len(queue') = L + 1 /\ queue'[L + 1] = async.held
      /\ \A i \in 1..L : queue'[i] = queue[i]
      /\ e # NoEvent /\ f # NoEvent
  BY <1>0, PutBackDoes, EventParts DEF Holds
<1>2. /\ \A i \in 1..Len(queue') : i = L + 1 \/ i \in 1..L
      /\ L + 1 \in 1..(L + 1) /\ \A i \in 1..L : i \in 1..(L + 1) /\ i # L + 1 /\ ~(L + 1 < i) /\ ~(i < i)
  BY SMT, <1>1
<1>3. \A i \in 1..L : Turned(i)' <=> Turned(i)
  <2>1. \A i \in 1..L : InFront(i)' <=> InFront(i)
    BY <1>0, <1>1, AppendedTurns
  <2>2. CASE async.at = "put"
    BY <1>1, <2>1, <2>2 DEF Turned, Rotating
  <2>3. CASE async.at = "putfirst"
    <3>1. \A i \in 1..L : \A j \in 1..i : j \in 1..L
      BY SMT, <1>1
    <3>2. \A i \in 1..L : InFront(i)
      BY <1>0, <1>1, <2>3, <3>1 DEF Unique, InFront
    <3> QED BY <2>1, <2>3, <3>2 DEF Turned, Rotating
  <2> QED BY <1>1, <2>2, <2>3
<1>4. Turned(L + 1)'
  <2>1. Rotating'
    BY <1>1 DEF Rotating
  <2>2. \E j \in 1..(L + 1) : queue'[j] = async.first
    <3>1. CASE async.at = "putfirst"
      BY <1>1, <1>2, <3>1
    <3>2. CASE async.at = "put"
      BY <1>0, <1>1, <1>2, <3>2 DEF Unique, Rotating, Queued
    <3> QED BY <1>1, <3>1, <3>2
  <2> QED BY <1>1, <2>1, <2>2 DEF Turned, InFront
<1>5. CASE \E i, j \in 1..Len(queue') : queue'[i] = e /\ queue'[j] = f /\ Sooner(i, j)'
  <2>1. PICK i \in 1..Len(queue'), j \in 1..Len(queue') : queue'[i] = e /\ queue'[j] = f /\ Sooner(i, j)'
    BY <1>5
  <2>2. CASE i \in 1..L /\ j \in 1..L
    <3>1. Sooner(i, j) /\ queue[i] = e /\ queue[j] = f
      BY <1>0, <1>1, <1>3, <2>1, <2>2 DEF Sooner
    <3> QED BY <1>0, <2>2, <3>1 DEF Ahead
  <2>3. CASE i \in 1..L /\ j = L + 1
    <3>1. queue[i] = e /\ f = async.held
      BY <1>1, <2>1, <2>3
    <3>2. Turned(i)
      <4>1. Turned(j)'
        BY <1>4, <2>3
      <4>2. Turned(i)'
        BY <2>1, <4>1 DEF Sooner
      <4> QED BY <1>3, <2>3, <4>2
    <3> QED BY <1>0, <2>3, <3>1, <3>2 DEF Ahead
  <2>4. CASE i = L + 1 /\ j \in 1..L
    <3>1. e = async.held /\ queue[j] = f /\ ~Turned(j)
      BY <1>1, <1>2, <1>3, <1>4, <2>1, <2>4 DEF Sooner
    <3> QED BY <1>0, <2>4, <3>1 DEF Ahead
  <2>5. CASE i = L + 1 /\ j = L + 1
    <3>1. ~(L + 1 < L + 1)
      BY SMT, <1>1
    <3> QED BY <2>1, <2>5, <3>1 DEF Sooner
  <2> QED BY <1>2, <2>1, <2>2, <2>3, <2>4, <2>5
<1>6. CASE f = lwip' /\ Queued(e)'
  <2>1. Queued(e) \/ e = async.held
    BY <1>0, <1>1, <1>2, <1>6 DEF Queued
  <2> QED BY <1>1, <1>6, <2>1 DEF Ahead
<1> QED BY <1>1, <1>5, <1>6 DEF Ahead

\* What the order owes to a step.
LEMMA OrderStep ==
  ASSUME TypeInv, TypeInv', Unique, [Next]_vars, NEW e \in Events, NEW f \in Events, Ahead(e, f)'
  PROVE  Ahead(e, f) \/ Overtakes(e, f)
BY StillSteps, StillOrder, PeerOrder, PostOrder, ClearOrder, TakeOrder, TurnOrder, PutBackOrder

\* Outside the turning after a step, the task holds nothing.
LEMMA HoldsNothingThen ==
  ASSUME TypeInv', async'.at \notin {"putfirst", "put"}
  PROVE  async'.held = NoEvent
BY DEF TypeInv, Registers

LEMMA StillHolds ==
  ASSUME TypeInv, TypeInv', Still
  PROVE  /\ async'.held = async.held
         /\ Rotating' => Rotating /\ async'.first = async.first
<1>1. CASE async' = async
  BY <1>1 DEF Rotating
<1>2. CASE async.at \notin Turning /\ async'.at \notin Turning
  <2>1. async.held = NoEvent /\ async'.held = NoEvent
    BY <1>2, HoldsNothing, HoldsNothingThen DEF Turning
  <2> QED BY <1>2, <2>1 DEF Rotating, Turning
<1> QED BY <1>1, <1>2 DEF Still

LEMMA ClearLeads ==
  ASSUME TypeInv, Clear
  PROVE  /\ async.at = "clear" /\ async'.at \in {"discard", "close"} /\ async'.ev = async.ev
         /\ async.held = NoEvent /\ async'.held = NoEvent /\ ~Rotating /\ ~Rotating' /\ lwip' = lwip
<1>1. async.at = "clear" /\ lwip' = lwip /\ Go(AfterClear) /\ AfterClear \in {"discard", "close"}
  BY ClearDoes
<1>2. {"discard", "close"} \subseteq Points \ {"get"} /\ async \in AsyncTask
  BY DEF Points, Closing, TypeInv
<1>3. async'.at \in {"discard", "close"} /\ async'.held = NoEvent /\ async'.ev = async.ev
  BY <1>1, <1>2, GoDoes
<1> QED BY <1>1, <1>3, HoldsNothing DEF Rotating

LEMMA UniqueStep ==
  ASSUME TypeInv, TypeInv', EventsFit, ClearsFirst, Unique, [Next]_vars
  PROVE  Unique'
<1>1. /\ \A i \in 1..Len(queue) : queue[i] \in Events
      /\ \A e \in Events : e # NoEvent
      /\ lwip \in OrNone /\ Len(queue) \in Nat
  BY EventParts, LenProperties, ElementOfSeq DEF TypeInv
<1>2. CASE Still
  <2>1. queue' = queue /\ lwip' = lwip
    BY <1>2 DEF Still
  <2> QED BY <1>2, <2>1, StillHolds DEF Unique, Queued
<1>3. CASE Peer
  <2>1. lwip = NoEvent /\ queue' = queue /\ async' = async /\ lwip' \in OrNone
    BY <1>3, PeerStill DEF TypeInv
  <2>2. lwip' # NoEvent => lwip' # async.held /\ \A i \in 1..Len(queue) : queue[i] # lwip'
    <3> SUFFICES ASSUME NEW e \in Events, e = lwip' PROVE e # async.held /\ \A i \in 1..Len(queue) : queue[i] # e
      BY <2>1 DEF OrNone
    <3>1. ~Waits(e)
      BY <1>3, BroughtIsNew
    <3> QED BY <3>1 DEF Waits
  <2>3. \A i \in 1..Len(queue) : queue[i] # lwip'
    BY <1>1, <2>2
  <2> QED BY <2>1, <2>2, <2>3 DEF Unique, Rotating, Queued
<1>4. CASE Post
  <2>1. lwip \in Events /\ lwip' = NoEvent /\ async' = async
    BY <1>4, PostDoes, PostPlaces
  <2>2. CASE lwip.type = "ACCEPT"
    <3>1. /\ queue'[1] = lwip /\ Len(queue') = Len(queue) + 1
          /\ \A i \in 2..Len(queue') : queue'[i] = queue[i - 1]
      BY <1>4, <2>2, PostPlaces
    <3>2. /\ \A i \in 1..Len(queue') : i = 1 \/ (i \in 2..Len(queue') /\ i - 1 \in 1..Len(queue))
          /\ \A i \in 1..Len(queue) : i + 1 \in 1..Len(queue') /\ i + 1 \in 2..Len(queue') /\ (i + 1) - 1 = i
          /\ \A i, j \in 1..Len(queue') : i - 1 = j - 1 => i = j
      BY SMT, <1>1, <3>1
    <3>3. \A i, j \in 1..Len(queue') : queue'[i] = queue'[j] => i = j
      BY <2>1, <3>1, <3>2 DEF Unique
    <3>4. \A i \in 1..Len(queue') : queue'[i] # lwip' /\ queue'[i] # async'.held
      BY <1>1, <2>1, <3>1, <3>2 DEF Unique
    <3>5. Rotating' => Queued(async.first)'
      <4> SUFFICES ASSUME Rotating' PROVE Queued(async.first)'
        OBVIOUS
      <4>1. Rotating
        BY <2>1 DEF Rotating
      <4>2. PICK i \in 1..Len(queue) : queue[i] = async.first
        BY <4>1 DEF Unique, Queued
      <4>3. i + 1 \in 1..Len(queue') /\ queue'[i + 1] = async'.first
        BY <2>1, <3>1, <3>2, <4>2
      <4> QED BY <4>3 DEF Queued
    <3> QED BY <2>1, <3>3, <3>4, <3>5 DEF Unique
  <2>3. CASE lwip.type # "ACCEPT"
    <3>1. /\ queue'[Len(queue) + 1] = lwip /\ Len(queue') = Len(queue) + 1
          /\ \A i \in 1..Len(queue) : queue'[i] = queue[i]
      BY <1>4, <2>3, PostPlaces
    <3>2. /\ \A i \in 1..Len(queue') : i = Len(queue) + 1 \/ i \in 1..Len(queue)
          /\ \A i \in 1..Len(queue) : i \in 1..Len(queue')
      BY SMT, <1>1, <3>1
    <3>3. \A i, j \in 1..Len(queue') : queue'[i] = queue'[j] => i = j
      BY <2>1, <3>1, <3>2 DEF Unique
    <3>4. \A i \in 1..Len(queue') : queue'[i] # lwip' /\ queue'[i] # async'.held
      BY <1>1, <2>1, <3>1, <3>2 DEF Unique
    <3>5. Rotating' => Queued(async.first)'
      BY <2>1, <3>1, <3>2 DEF Unique, Rotating, Queued
    <3> QED BY <2>1, <3>3, <3>4, <3>5 DEF Unique
  <2> QED BY <2>2, <2>3
\* Out of a queue without repetition comes one without.
<1>5. ASSUME Taken
      PROVE  /\ \A i, j \in 1..Len(queue') : queue'[i] = queue'[j] => i = j
             /\ \A i \in 1..Len(queue') : queue'[i] # lwip /\ queue'[i] # queue[1] /\ queue'[i] # async.held
                                           /\ queue'[i] \in Events
             /\ \A e : Queued(e) => Queued(e)' \/ e = queue[1]
  <2>1. \A i, j \in 1..Len(queue') : i + 1 = j + 1 => i = j
    BY SMT
  <2>2. \A i, j \in 1..Len(queue') : queue'[i] = queue'[j] => i = j
    BY <1>5, <2>1, TakenPlaces DEF Unique
  <2>3. \A i \in 1..Len(queue') : queue'[i] # lwip /\ queue'[i] # queue[1] /\ queue'[i] # async.held /\ queue'[i] \in Events
    BY <1>1, <1>5, TakenPlaces DEF Unique
  <2>4. \A e : Queued(e) => Queued(e)' \/ e = queue[1]
    BY <1>5, TakenPlaces DEF Queued
  <2> QED BY <2>2, <2>3, <2>4
<1>6. CASE Take
  <2>1. Taken /\ lwip' = lwip /\ ~Rotating' /\ async'.held = NoEvent
    BY <1>6, TakeLeads
  <2> QED BY <1>1, <1>5, <2>1 DEF Unique
<1>7. CASE Clear
  <2>1. async'.held = NoEvent /\ ~Rotating' /\ lwip' = lwip
    BY <1>7, ClearLeads
  <2> DEFINE c == Event("CLEAR", async.ev.arg, async.ev.pcb, 0)
  <2>2. /\ queue'[1] = c /\ c \in Events /\ Len(queue') = Len(queue) + 1 /\ async.at = "clear"
        /\ \A i \in 2..Len(queue') : queue'[i] = queue[i - 1]
    BY <1>7, ClearDoes
  <2>3. c.type = "CLEAR"
    BY DEF Event
  <2>4. lwip # c /\ \A i \in 1..Len(queue) : queue[i] # c
    BY <2>2, <2>3 DEF ClearsFirst
  <2> HIDE DEF c
  <2>5. /\ \A i \in 1..Len(queue') : i = 1 \/ (i \in 2..Len(queue') /\ i - 1 \in 1..Len(queue))
        /\ \A i, j \in 1..Len(queue') : i - 1 = j - 1 => i = j
    BY SMT, <1>1, <2>2
  <2>6. \A i, j \in 1..Len(queue') : queue'[i] = queue'[j] => i = j
    BY <2>2, <2>4, <2>5 DEF Unique
  <2>7. \A i \in 1..Len(queue') : queue'[i] # lwip /\ queue'[i] # NoEvent
    BY <1>1, <2>2, <2>4, <2>5 DEF Unique
  <2> QED BY <2>1, <2>6, <2>7 DEF Unique
<1>8. CASE TurnFirst \/ TurnNext
  <2>1. /\ TurnEnds \/ TurnDrops \/ TurnHolds
        /\ async.at \in {"first", "rest"} /\ async.held = NoEvent /\ lwip' = lwip
    BY <1>8, TurnLeads
  <2>2. CASE TurnEnds
    <3>1. queue' = queue /\ async'.at = "get" /\ async'.held = NoEvent
      BY <2>2, GoDoes DEF TurnEnds, TypeInv, Points
    <3> QED BY <2>1, <3>1 DEF Unique, Rotating
  <2>3. CASE TurnDrops
    <3>1. Taken /\ async' = async /\ (Rotating => queue[1] # async.first)
      BY <2>1, <2>3 DEF TurnDrops, Rotating
    <3>2. Rotating' => Queued(async.first)'
      <4> SUFFICES ASSUME Rotating' PROVE Queued(async.first)'
        OBVIOUS
      <4>1. Rotating
        BY <3>1 DEF Rotating
      <4>2. Queued(async.first) /\ queue[1] # async.first
        BY <3>1, <4>1 DEF Unique
      <4>3. \E i \in 1..Len(queue') : queue'[i] = async.first
        BY <1>5, <3>1, <4>2 DEF Queued
      <4> QED BY <3>1, <4>3 DEF Queued
    <3>3. async'.held = NoEvent /\ \A i \in 1..Len(queue') : queue'[i] # lwip' /\ queue'[i] # async'.held
      BY <1>1, <1>5, <2>1, <3>1
    <3>4. \A i, j \in 1..Len(queue') : queue'[i] = queue'[j] => i = j
      BY <1>5, <3>1
    <3> QED BY <3>2, <3>3, <3>4 DEF Unique
  <2>4. CASE TurnHolds
    <3>1. Taken /\ queue[1] \in Events /\ async'.held = queue[1]
      BY <2>4 DEF TurnHolds, Holds
    <3>2. Rotating' => Rotating /\ async'.first = async.first /\ queue[1] # async.first
      BY <2>4 DEF TurnHolds, Holds, Rotating
    <3>3. Rotating' => Queued(async.first)'
      <4> SUFFICES ASSUME Rotating' PROVE Queued(async.first)'
        OBVIOUS
      <4>1. Queued(async.first) /\ queue[1] # async.first /\ async'.first = async.first
        BY <3>2 DEF Unique
      <4>2. \E i \in 1..Len(queue') : queue'[i] = async.first
        BY <1>5, <3>1, <4>1 DEF Queued
      <4> QED BY <4>1, <4>2 DEF Queued
    <3>4. lwip' # queue[1] /\ \A i \in 1..Len(queue') : queue'[i] # lwip' /\ queue'[i] # async'.held
      BY <1>5, <2>1, <3>1, TakenPlaces DEF Unique
    <3>5. \A i, j \in 1..Len(queue') : queue'[i] = queue'[j] => i = j
      BY <1>5, <3>1
    <3> QED BY <3>1, <3>3, <3>4, <3>5 DEF Unique
  <2> QED BY <2>1, <2>2, <2>3, <2>4
<1>9. CASE PutBack
  <2>1. /\ async.held \in Events /\ lwip' = lwip /\ async'.held = NoEvent /\ async'.first = async.first
        /\ Len(queue') = Len(queue) + 1 /\ queue'[Len(queue) + 1] = async.held
        /\ \A i \in 1..Len(queue) : queue'[i] = queue[i]
        /\ \/ async.at = "putfirst" /\ async.held = async.first
           \/ async.at = "put"
    BY <1>9, PutBackDoes DEF Holds
  <2>2. /\ \A i \in 1..Len(queue') : i = Len(queue) + 1 \/ i \in 1..Len(queue)
        /\ \A i \in 1..Len(queue) : i \in 1..Len(queue')
        /\ Len(queue) + 1 \in 1..Len(queue')
    BY SMT, <1>1, <2>1
  <2>3. \A i, j \in 1..Len(queue') : queue'[i] = queue'[j] => i = j
    BY <2>1, <2>2 DEF Unique
  <2>4. \A i \in 1..Len(queue') : queue'[i] # lwip /\ queue'[i] # NoEvent
    BY <1>1, <2>1, <2>2 DEF Unique
  <2>5. Queued(async.first)'
    <3>1. CASE async.at = "putfirst"
      BY <2>1, <2>2, <3>1 DEF Queued
    <3>2. CASE async.at = "put"
      <4>1. Queued(async.first)
        BY <3>2 DEF Unique, Rotating
      <4> QED BY <2>1, <2>2, <4>1 DEF Queued
    <3> QED BY <2>1, <3>1, <3>2
  <2> QED BY <2>1, <2>3, <2>4, <2>5 DEF Unique
<1> QED BY <1>2, <1>3, <1>4, <1>6, <1>7, <1>8, <1>9, StillSteps

\* The callbacks bring no CLEAR.
LEMMA PeerBrings == ASSUME TypeInv, Peer PROVE lwip'.type # "CLEAR"
<1>1. CASE Accept
  <2>1. PICK p \in Conn, a \in Addresses, s \in NoSlot..(Slots - 1) : Accepted(p, a, s)
    BY <1>1, AcceptDoes
  <2> QED BY <2>1 DEF Accepted, Event
<1>2. ASSUME NEW p \in Conn, Receive(p) PROVE lwip'.type # "CLEAR"
  BY <1>2, ReceiveDoes DEF Event
<1>3. ASSUME NEW p \in Conn, Poll(p) \/ Sent(p) PROVE lwip'.type # "CLEAR"
  <2>1. PICK type \in {"POLL", "SENT"} : Tick(p, type)
    BY <1>3 DEF Poll, Sent
  <2> QED BY <2>1, TickDoes DEF Event
<1>4. ASSUME NEW p \in Conn, Fin(p) \/ Ceases(p) PROVE lwip'.type # "CLEAR"
  <2>1. NoEvent.type # "CLEAR"
    BY NoEventParts DEF None
  <2>2. \/ lwip' = Event("FIN", conn[p].arg, p, 0) \/ lwip' = Event("ERROR", conn[p].arg, p, 0) \/ lwip' = NoEvent
    BY <1>4, FinDoes, CeasesDoes
  <2> QED BY <2>1, <2>2 DEF Event
<1> QED BY <1>1, <1>2, <1>3, <1>4 DEF Peer, Ceases

\* Where the task can be while a CLEAR is in the queue: not back at the head
\* of the queue, but for an ACCEPT.
MayClear ==
  /\ async.at \in {"get", "ack"} \/ IsClosing \/ (async.at \in Calling /\ async.back # "check")
  /\ async.at \notin {"unrecv", "clear"}

LEMMA MayClearStays ==
  ASSUME TypeInv, TypeInv', MayClear, [Next]_vars
  PROVE  Take \/ MayClear'
<1>1. /\ async.at \in {"get", "ack", "close", "abort", "discard"} \/ (async.at \in Calling /\ async.back # "check")
      /\ async \in AsyncTask
  <2>1. async.at \in Calling /\ async.call \in {"close", "abort"} => async.back = "discard"
    BY DEF TypeInv, Registers
  <2> QED BY <2>1 DEF MayClear, IsClosing, Closing, TypeInv
<1>2. ASSUME NEW point \in {"get", "ack", "close", "abort", "discard"}, Go(point) PROVE MayClear'
  <2>1. async'.at = point
    BY <1>1, <1>2, GoDoes DEF Points, Closing
  <2> QED BY <2>1 DEF MayClear, IsClosing, Closing
<1>3. ASSUME NEW call, NEW back, StartCall(call, back), back # "check" PROVE MayClear'
  <2>1. async'.at = "slot" /\ async'.back = back
    BY <1>1, <1>3 DEF StartCall, AsyncTask
  <2> QED BY <1>3, <2>1 DEF MayClear, Calling
<1>4. CASE UNCHANGED vars \/ Begin \/ End \/ Peer \/ Post
  <2>1. async' = async
    BY <1>4, PeerStill DEF vars, Begin, End, Post
  <2> QED BY <2>1 DEF MayClear, IsClosing
<1>5. CASE Serve
  <2>1. async.at = "call" /\ (Go("abort") \/ Go(async.back)) /\ async.back \in {"get", "ack", "check", "discard"}
    BY <1>5, ServeIs, ServeGoes
  <2> QED BY <1>1, <1>2, <2>1
<1>6. CASE ReadSlot
  <2>1. /\ async.at = "slot" /\ async.back \in {"get", "ack", "check", "discard"}
        /\ \/ Go(async.back)
           \/ async'.at = "call" /\ SameBut(async', async, {"at", "slot"})
    BY <1>1, <1>6, ReadSlotDoes DEF AsyncTask
  <2>2. CASE Go(async.back)
    BY <1>1, <1>2, <2>1, <2>2
  <2>3. CASE async'.at = "call" /\ SameBut(async', async, {"at", "slot"})
    BY <1>1, <2>1, <2>3 DEF MayClear, Calling, SameBut
  <2> QED BY <2>1, <2>2, <2>3
<1>7. CASE Ack \/ Close \/ Abort
  <2>1. \/ Go("get") \/ StartCall("recved", "get") \/ StartCall("close", "discard")
        \/ Go("discard") \/ StartCall("abort", "discard")
    BY <1>7, Zenon DEF Ack, Close, Abort
  <2> QED BY <1>2, <1>3, <2>1
<1>8. CASE Discard
  BY <1>2, <1>8, DiscardGoes
<1>9. ~AppReturns /\ ~AppWrites /\ ~AppCloses /\ ~Check /\ ~Unhook /\ ~Clear /\ ~TurnFirst /\ ~TurnNext /\ ~PutBack
  <2>1. async.at \notin {"app", "check", "unhook", "unrecv", "clear", "first", "rest", "putfirst", "put"}
    BY <1>1 DEF Calling
  <2> QED BY <2>1 DEF AppReturns, AppWrites, AppCloses, Check, Unhook, Clear, TurnFirst, TurnNext, PutBack
<1>10. \/ UNCHANGED vars \/ Begin \/ End \/ Peer \/ Post \/ Serve \/ ReadSlot \/ Ack \/ Close \/ Abort \/ Discard \/ Take
  BY <1>9 DEF Next, Task
<1> QED BY <1>4, <1>5, <1>6, <1>7, <1>8, <1>10

ClearIsFirst(i) == \A j \in 1..(i - 1) : queue[j].type = "ACCEPT"

LEMMA ClearsAre ==
  ClearsFirst <=>
    /\ \A i \in 1..Len(queue) : queue[i].type = "CLEAR" => MayClear /\ ClearIsFirst(i)
    /\ lwip.type # "CLEAR" /\ async.held.type # "CLEAR"
BY DEF ClearsFirst, MayClear, ClearIsFirst

LEMMA ClearsAreThen ==
  ClearsFirst' <=>
    /\ \A i \in 1..Len(queue') : queue'[i].type = "CLEAR" => MayClear' /\ \A j \in 1..(i - 1) : queue'[j].type = "ACCEPT"
    /\ lwip'.type # "CLEAR" /\ async'.held.type # "CLEAR"
BY DEF ClearsFirst, MayClear

\* While the queue is turned over there is no CLEAR in it.
LEMMA TurnsWithoutClear ==
  ASSUME ClearsFirst, async.at \in Turning
  PROVE  \A i \in 1..Len(queue) : queue[i].type # "CLEAR"
<1>1. ~MayClear
  BY DEF MayClear, Turning, IsClosing, Closing, Calling
<1> QED BY <1>1, ClearsAre

LEMMA ClearsFirstStep ==
  ASSUME TypeInv, TypeInv', ClearsFirst, [Next]_vars
  PROVE  ClearsFirst'
<1>1. /\ lwip.type # "CLEAR" /\ async.held.type # "CLEAR" /\ NoEvent.type # "CLEAR" /\ Len(queue) \in Nat
  BY ClearsAre, NoEventParts, LenProperties DEF None, TypeInv
<1>2. \A i \in 1..Len(queue) : queue[i].type = "CLEAR" => MayClear /\ ClearIsFirst(i)
  BY ClearsAre
<1>3. CASE Still \/ Peer
  <2>1. queue' = queue /\ lwip'.type # "CLEAR" /\ async'.held.type # "CLEAR" /\ ~Take
    <3>1. CASE Still
      <4>1. queue' = queue /\ lwip' = lwip /\ async'.held = async.held
        BY <3>1, StillHolds DEF Still
      <4>2. ~Take
        <5>1. Take => Len(queue') = Len(queue) - 1
          BY TakeDoes
        <5>2. Len(queue) # Len(queue) - 1
          BY SMT, <1>1
        <5> QED BY <4>1, <5>1, <5>2
      <4> QED BY <1>1, <4>1, <4>2
    <3>2. CASE Peer
      <4>1. ~Take
        <5>1. Take => Len(queue') = Len(queue) - 1
          BY TakeDoes
        <5>2. Len(queue) # Len(queue) - 1
          BY SMT, <1>1
        <5> QED BY <3>2, <5>1, <5>2, PeerStill
      <4> QED BY <1>1, <3>2, <4>1, PeerStill, PeerBrings
    <3> QED BY <1>3, <3>1, <3>2
  <2>2. MayClear => MayClear'
    BY <2>1, MayClearStays
  <2> QED BY <1>2, <2>1, <2>2, ClearsAreThen DEF ClearIsFirst
<1>4. CASE Post
  <2>1. lwip' = NoEvent /\ async' = async /\ (MayClear => MayClear')
    BY <1>4, PostDoes, PostPlaces DEF MayClear, IsClosing
  <2>2. CASE lwip.type = "ACCEPT"
    <3>1. /\ queue'[1] = lwip /\ Len(queue') = Len(queue) + 1
          /\ \A i \in 2..Len(queue') : queue'[i] = queue[i - 1]
      BY <1>4, <2>2, PostPlaces
    <3>2. /\ \A i \in 1..Len(queue') : i = 1 \/ (i \in 2..Len(queue') /\ i - 1 \in 1..Len(queue))
          /\ \A i \in 1..Len(queue') : \A j \in 1..(i - 1) : j = 1 \/ (j \in 2..Len(queue') /\ j - 1 \in 1..((i - 1) - 1))
      BY SMT, <1>1, <3>1
    <3>3. ASSUME NEW i \in 1..Len(queue'), queue'[i].type = "CLEAR"
          PROVE  MayClear' /\ \A j \in 1..(i - 1) : queue'[j].type = "ACCEPT"
      <4>1. i - 1 \in 1..Len(queue) /\ queue[i - 1].type = "CLEAR"
        BY <1>1, <3>1, <3>2, <3>3
      <4>2. MayClear' /\ ClearIsFirst(i - 1)
        BY <1>2, <2>1, <4>1
      <4>3. \A j \in 1..(i - 1) : queue'[j].type = "ACCEPT"
        BY <2>2, <3>1, <3>2, <4>2 DEF ClearIsFirst
      <4> QED BY <4>2, <4>3
    <3> QED BY <1>1, <2>1, <3>3, ClearsAreThen
  <2>3. CASE lwip.type # "ACCEPT"
    <3>1. /\ queue'[Len(queue) + 1] = lwip /\ Len(queue') = Len(queue) + 1
          /\ \A i \in 1..Len(queue) : queue'[i] = queue[i]
      BY <1>4, <2>3, PostPlaces
    <3>2. /\ \A i \in 1..Len(queue') : i = Len(queue) + 1 \/ i \in 1..Len(queue)
          /\ \A i \in 1..Len(queue) : \A j \in 1..(i - 1) : j \in 1..Len(queue)
      BY SMT, <1>1, <3>1
    <3>3. ASSUME NEW i \in 1..Len(queue'), queue'[i].type = "CLEAR"
          PROVE  MayClear' /\ \A j \in 1..(i - 1) : queue'[j].type = "ACCEPT"
      <4>1. i \in 1..Len(queue) /\ queue[i].type = "CLEAR"
        BY <1>1, <3>1, <3>2, <3>3
      <4>2. MayClear' /\ ClearIsFirst(i)
        BY <1>2, <2>1, <4>1
      <4> QED BY <3>1, <3>2, <4>1, <4>2 DEF ClearIsFirst
    <3> QED BY <1>1, <2>1, <3>3, ClearsAreThen
  <2> QED BY <2>2, <2>3
<1>5. CASE Take
  <2>1. Taken /\ lwip' = lwip /\ async'.held = NoEvent
    BY <1>5, TakeLeads
  <2>2. ASSUME NEW i \in 1..Len(queue'), queue'[i].type = "CLEAR"
        PROVE  MayClear' /\ \A j \in 1..(i - 1) : queue'[j].type = "ACCEPT"
    <3>1. i + 1 \in 1..Len(queue) /\ queue[i + 1].type = "CLEAR"
      BY <2>1, <2>2, TakenPlaces
    <3>2. ClearIsFirst(i + 1)
      BY <1>2, <3>1
    <3>3. /\ 1 \in 1..((i + 1) - 1)
          /\ \A j \in 1..(i - 1) : j + 1 \in 1..((i + 1) - 1) /\ j \in 1..Len(queue')
      BY SMT, <1>1, <2>1 DEF Taken
    <3>4. queue[1].type = "ACCEPT"
      BY <3>2, <3>3 DEF ClearIsFirst
    <3>5. \A j \in 1..(i - 1) : queue'[j].type = "ACCEPT"
      BY <2>1, <3>2, <3>3, TakenPlaces DEF ClearIsFirst
    <3>6. async' = Idle
      <4>1. \A point : ~TakesTo(queue[1], point)
        BY <3>4 DEF TakesTo, Apps
      <4> QED BY <1>5, <4>1, TakeGoes
    <3>7. MayClear'
      BY <3>6, IdleIs DEF MayClear
    <3> QED BY <3>5, <3>7
  <2> QED BY <1>1, <2>1, <2>2, ClearsAreThen
<1>6. CASE Clear
  <2>1. async.at = "clear" /\ async'.at \in {"discard", "close"} /\ async'.held = NoEvent /\ lwip' = lwip
    BY <1>6, ClearLeads
  <2>2. /\ Len(queue') = Len(queue) + 1
        /\ \A i \in 2..Len(queue') : queue'[i] = queue[i - 1]
    BY <1>6, ClearDoes
  <2>3. \A i \in 1..Len(queue) : queue[i].type # "CLEAR"
    BY <1>2, <2>1 DEF MayClear
  <2>4. /\ \A i \in 1..Len(queue') : i = 1 \/ (i \in 2..Len(queue') /\ i - 1 \in 1..Len(queue))
        /\ \A j \in 1..(1 - 1) : FALSE
    BY SMT, <1>1, <2>2
  <2>5. MayClear'
    BY <2>1 DEF MayClear, IsClosing, Closing
  <2> QED BY <1>1, <2>1, <2>2, <2>3, <2>4, <2>5, ClearsAreThen
<1>7. CASE TurnFirst \/ TurnNext
  <2>1. /\ TurnEnds \/ TurnDrops \/ TurnHolds
        /\ async.at \in {"first", "rest"} /\ async.held = NoEvent /\ lwip' = lwip
    BY <1>7, TurnLeads
  <2>2. \A i \in 1..Len(queue) : queue[i].type # "CLEAR"
    BY <2>1, TurnsWithoutClear DEF Turning
  <2>3. CASE TurnEnds
    <3>1. queue' = queue /\ async'.held = NoEvent
      BY <2>3, GoDoes DEF TurnEnds, TypeInv, Points
    <3> QED BY <1>1, <2>1, <2>2, <3>1, ClearsAreThen
  <2>4. CASE TurnDrops \/ TurnHolds
    <3>1. Taken /\ async'.held \in {NoEvent, queue[1]}
      BY <2>1, <2>4 DEF TurnDrops, TurnHolds, Holds
    <3>2. \A i \in 1..Len(queue') : queue'[i].type # "CLEAR"
      BY <2>2, <3>1, TakenPlaces
    <3>3. async'.held.type # "CLEAR"
      BY <1>1, <2>2, <3>1, TakenPlaces
    <3> QED BY <1>1, <2>1, <3>2, <3>3, ClearsAreThen
  <2> QED BY <2>1, <2>3, <2>4
<1>8. CASE PutBack
  <2>1. /\ lwip' = lwip /\ async'.held = NoEvent /\ async.at \in {"putfirst", "put"}
        /\ Len(queue') = Len(queue) + 1 /\ queue'[Len(queue) + 1] = async.held
        /\ \A i \in 1..Len(queue) : queue'[i] = queue[i]
    BY <1>8, PutBackDoes DEF Holds
  <2>2. \A i \in 1..Len(queue) : queue[i].type # "CLEAR"
    BY <2>1, TurnsWithoutClear DEF Turning
  <2>3. \A i \in 1..Len(queue') : i = Len(queue) + 1 \/ i \in 1..Len(queue)
    BY SMT, <1>1, <2>1
  <2> QED BY <1>1, <2>1, <2>2, <2>3, ClearsAreThen
<1> QED BY <1>3, <1>4, <1>5, <1>6, <1>7, <1>8, StillSteps

\* A callback brings an event only for a control block that is not closed.
LEMMA PeerBringsOpen ==
  ASSUME TypeInv, Peer, NEW f \in Events, f = lwip'
  PROVE  conn[f.pcb].state # "closed"
<1>1. CASE Accept
  <2>1. PICK p \in Conn, a \in Addresses, s \in NoSlot..(Slots - 1) : Accepted(p, a, s)
    BY <1>1, AcceptDoes
  <2>2. conn[p].state = "new" /\ lwip' = Event("ACCEPT", a, p, 0)
    BY <2>1 DEF Accepted
  <2> QED BY <2>2 DEF Event
<1>2. ASSUME NEW p \in Conn, Receive(p) PROVE conn[f.pcb].state # "closed"
  BY <1>2, ReceiveDoes DEF Event
<1>3. ASSUME NEW p \in Conn, Poll(p) \/ Sent(p) PROVE conn[f.pcb].state # "closed"
  <2>1. PICK type \in {"POLL", "SENT"} : Tick(p, type)
    BY <1>3 DEF Poll, Sent
  <2> QED BY <2>1, TickDoes DEF Event
<1>4. ASSUME NEW p \in Conn, Fin(p) \/ Ceases(p) PROVE conn[f.pcb].state # "closed"
  <2>1. f # NoEvent
    BY EventParts
  <2>2. conn[p].state = "open"
    BY <1>4, FinDoes, CeasesDoes
  <2>3. lwip' = Event("FIN", conn[p].arg, p, 0) \/ lwip' = Event("ERROR", conn[p].arg, p, 0)
    BY <1>4, <2>1, FinDoes, CeasesDoes
  <2> QED BY <2>2, <2>3 DEF Event
<1> QED BY <1>1, <1>2, <1>3, <1>4 DEF Peer, Ceases

\* What waits behind the event taken waited behind it in the queue.
LEMMA TakenWasAhead ==
  ASSUME TypeInv, Unique, Take, NEW f \in Events, Waits(f)'
  PROVE  Waits(f) /\ f # queue[1] /\ Ahead(queue[1], f)
<1>1. Taken /\ async.at = "get" /\ lwip' = lwip /\ async'.held = NoEvent /\ f # NoEvent
  BY TakeLeads, EventParts
<1>2. CASE f = lwip'
  BY <1>1, <1>2, TakenPlaces, HeadIsAhead DEF Unique, Waits
<1>3. CASE \E i \in 1..Len(queue') : queue'[i] = f
  <2>1. PICK i \in 1..Len(queue') : queue'[i] = f
    BY <1>3
  <2>2. i + 1 \in 1..Len(queue) /\ queue[i + 1] = f /\ 1 \in 1..Len(queue) /\ i + 1 # 1
    BY <1>1, <2>1, TakenPlaces
  <2>3. Waits(f)
    BY <2>2 DEF Waits
  <2>4. f # queue[1]
    BY <2>2 DEF Unique
  <2> QED BY <1>1, <2>3, <2>4, HeadIsAhead
<1> QED BY <1>1, <1>2, <1>3 DEF Waits

LEMMA EndIsLastStep ==
  ASSUME TypeInv, TypeInv', EventsFit, Unique, EndIsLast, [Next]_vars
  PROVE  EndIsLast'
<1>1. \A q \in Conn : causes[q] \subseteq causes'[q]
  BY GrowsStep DEF Grows
<1>2. ASSUME NEW e \in Events, NEW f \in Events,
             Ahead(e, f)', e.type \in Ends, f.pcb = e.pcb, f.type # "CLEAR"
      PROVE  "rotation" \in causes'[e.pcb]
  <2>1. e.pcb \in Conn
    BY EventParts
  <2>2. CASE Ahead(e, f)
    BY <1>1, <1>2, <2>1, <2>2 DEF EndIsLast
  <2>3. CASE Peer /\ f = lwip' /\ (Queued(e) \/ e = async.held)
    <3>1. conn[e.pcb].state = "closed"
      BY <1>2, <2>3 DEF EventsFit, EventFits, Waits, Queued
    <3> QED BY <1>2, <2>3, <3>1, PeerBringsOpen
  <2>4. CASE Post /\ e = lwip /\ (e.type = "ACCEPT" \/ "rotation" \in causes'[e.pcb])
    BY <1>2, <2>4 DEF Ends
  <2>5. CASE Clear /\ e = Event("CLEAR", async.ev.arg, async.ev.pcb, 0)
    BY <1>2, <2>5 DEF Ends, Event
  <2> QED BY <1>2, <2>2, <2>3, <2>4, <2>5, OrderStep DEF Overtakes
<1>3. ASSUME async'.ev.type \in Ends, "rotation" \notin causes'[async'.ev.pcb],
             NEW f \in Events, Waits(f)', f.pcb = async'.ev.pcb
      PROVE  f.type = "CLEAR"
  <2>1. async'.ev \in Events
    <3>1. NoEvent.type \notin Ends
      BY NoEventParts DEF None, Ends
    <3> QED BY <1>3, <3>1 DEF TypeInv, AsyncTask, OrNone
  <2>2. PICK g \in Events : g = async'.ev
    BY <2>1
  <2>3. g.pcb \in Conn /\ "rotation" \notin causes[g.pcb] /\ g.type \in Ends
    BY <1>1, <1>3, <2>2, EventParts
  <2>4. CASE async'.ev = async.ev
    <3>1. \A h \in Events : Waits(h) /\ h.pcb = g.pcb => h.type = "CLEAR"
      BY <2>2, <2>3, <2>4 DEF EndIsLast
    <3>2. conn[g.pcb].state = "closed"
      BY <2>2, <2>3, <2>4 DEF EventsFit, EventFits
    <3>3. CASE Waits(f)
      BY <1>3, <2>2, <3>1, <3>3
    <3>4. CASE lwip = NoEvent /\ f = lwip' /\ Peer
      BY <1>3, <2>2, <3>2, <3>4, PeerBringsOpen
    <3>5. CASE Clear /\ f = Event("CLEAR", async.ev.arg, async.ev.pcb, 0)
      BY <3>5 DEF Event
    <3> QED BY <1>3, <3>3, <3>4, <3>5, WaitsOfStep
  <2>5. CASE Take /\ async'.ev = queue[1]
    BY <1>3, <2>2, <2>3, <2>5, TakenWasAhead DEF EndIsLast
  <2> QED BY <2>1, <2>4, <2>5, EventOfStep
<1> QED BY <1>2, <1>3 DEF EndIsLast

LEMMA OrderedStep ==
  ASSUME TypeInv, TypeInv', EventsFit, EventsOrdered, [Next]_vars
  PROVE  EventsOrdered'
BY UniqueStep, ClearsFirstStep, EndIsLastStep DEF EventsOrdered

-----------------------------------------------------------------------------
(* Where a step leads the task.                                            *)

MovesApp ==
  /\ async.at = "app"
  /\ \/ async'.at = "ack"
     \/ async'.at = "slot" /\ async'.call = "write" /\ async'.back # "check"
     \/ AppCloses /\ async'.at = "check"
     \/ AppCloses /\ async'.at = "slot" /\ async'.call = "recved" /\ async'.back = "check"
MovesCall ==
  \/ /\ async.at = "slot" /\ async'.at = "call" /\ async.pcb # 0
     /\ async'.pcb = async.pcb /\ async'.call = async.call /\ async'.back = async.back
  \/ async.at = "slot" /\ async.pcb = 0 /\ async'.at = async.back
  \/ async.at = "call" /\ async'.at = async.back /\ lwip = NoEvent
  \/ async.at = "call" /\ async.call = "close" /\ async'.at = "abort" /\ lwip = NoEvent
MovesAck ==
  \/ async.at = "ack" /\ async'.at = "slot" /\ async'.call = "recved" /\ async'.back = "get"
  \/ async.at = "check" /\ async'.at = "ack"
  \/ async.at = "check" /\ async'.at = "unhook" /\ Client.pcb # 0
  \/ async.at = "discard" /\ async'.at = "ack" /\ async.ev.type = "RECV"
MovesClose ==
  \/ async.at = "unhook" /\ async'.at = "unrecv"
  \/ async.at = "unrecv" /\ async'.at = "clear"
  \/ async.at = "close" /\ async'.at = "slot" /\ async'.call = "close" /\ async'.back = "discard" /\ async'.pcb = Client.pcb
  \/ async.at = "abort" /\ async'.at = "discard"
  \/ /\ async.at = "abort" /\ async'.at = "slot" /\ async'.call = "abort" /\ async'.back = "discard"
     /\ async'.pcb = Client.pcb /\ Client.pcb # 0
Moves == async'.ev = async.ev /\ Still /\ (MovesApp \/ MovesCall \/ MovesAck \/ MovesClose)

LEMMA TaskMoves ==
  ASSUME TypeInv, TypeInv', [Next]_vars
  PROVE  async' = async \/ async'.at \in {"get"} \union Turning \/ Take \/ Clear \/ Moves
<1> SUFFICES ASSUME async' # async, async'.at \notin {"get"} \union Turning, ~Take, ~Clear PROVE Moves
  OBVIOUS
<1>1. async \in AsyncTask
  BY DEF TypeInv
<1>2. ~UNCHANGED vars /\ ~Begin /\ ~End /\ ~Peer /\ ~Post
  BY PeerStill DEF vars, Begin, End, Post
<1>3. ASSUME NEW point \in Points, Go(point) PROVE point # "get" /\ async'.at = point /\ async'.ev = async.ev
  BY <1>1, <1>3, GoDoes
<1>4. ASSUME NEW call, NEW back, StartCall(call, back)
      PROVE  async'.at = "slot" /\ async'.call = call /\ async'.back = back /\ async'.pcb = Client.pcb /\ async'.ev = async.ev
  BY <1>1, <1>4 DEF StartCall, AsyncTask
<1>5. {"get", "ack", "check", "unhook", "unrecv", "clear", "discard", "abort"} \subseteq Points
  BY DEF Points, Closing
<1>6. AfterApp \in {"get", "ack"} /\ (AfterApp = "ack" => async.ev.type = "RECV")
  BY DEF AfterApp
<1>7. ~TurnFirst /\ ~TurnNext /\ ~PutBack
  <2>1. CASE TurnFirst \/ TurnNext
    BY <1>3, <1>5, <2>1, TurnDoes DEF Holds, Turning
  <2>2. CASE PutBack
    BY <2>2, PutBackDoes DEF Holds, Turning
  <2> QED BY <2>1, <2>2
<1>8. Still
  <2>1. ~TurnFirst /\ ~TurnNext /\ ~PutBack /\ ~Peer /\ ~Post /\ ~Take /\ ~Clear
    BY <1>2, <1>7
  <2> QED BY <2>1, StillSteps
<1>9. CASE AppReturns \/ AppWrites \/ AppCloses
  <2>1. async.at = "app"
    BY <1>9 DEF AppReturns, AppWrites, AppCloses
  <2>2. CASE AppReturns
    BY <1>3, <1>5, <1>6, <1>8, <2>1, <2>2 DEF AppReturns, Moves, MovesApp
  <2>3. CASE AppWrites
    <3>1. StartCall("write", AfterApp)
      BY <2>3 DEF AppWrites
    <3> QED BY <1>4, <1>6, <1>8, <2>1, <3>1 DEF Moves, MovesApp
  <2>4. CASE AppCloses
    <3>1. Go("check") \/ StartCall("recved", "check")
      BY <2>4, Zenon DEF AppCloses
    <3> QED BY <1>3, <1>4, <1>5, <1>8, <2>1, <2>4, <3>1 DEF Moves, MovesApp
  <2> QED BY <1>9, <2>2, <2>3, <2>4
<1>10. CASE ReadSlot
  <2>1. /\ async.at = "slot" /\ async.back \in {"get", "ack", "check", "discard"}
        /\ \/ async.pcb = 0 /\ Go(async.back)
           \/ async.pcb # 0 /\ async'.at = "call" /\ SameBut(async', async, {"at", "slot"})
    BY <1>1, <1>10, ReadSlotDoes DEF AsyncTask
  <2>2. CASE async.pcb = 0 /\ Go(async.back)
    BY <1>3, <1>5, <1>8, <2>1, <2>2 DEF Moves, MovesCall
  <2>3. CASE async.pcb # 0 /\ async'.at = "call" /\ SameBut(async', async, {"at", "slot"})
    BY <1>8, <2>1, <2>3 DEF Moves, MovesCall, SameBut
  <2> QED BY <2>1, <2>2, <2>3
<1>11. CASE Serve
  <2>1. /\ async.at = "call" /\ lwip = NoEvent /\ async.back \in {"get", "ack", "check", "discard"}
        /\ (Go("abort") /\ async.call = "close") \/ Go(async.back)
    BY <1>11, ServeIs, ServeGoes
  <2> QED BY <1>3, <1>5, <1>8, <2>1 DEF Moves, MovesCall
<1>12. CASE Ack
  <2>1. async.at = "ack" /\ (Go("get") \/ StartCall("recved", "get"))
    BY <1>12, Zenon DEF Ack
  <2> QED BY <1>3, <1>4, <1>5, <1>8, <2>1 DEF Moves, MovesAck
<1>13. CASE Check
  <2>1. async.at = "check" /\ (Go(AfterApp) \/ (Client.pcb # 0 /\ Go("unhook")))
    BY <1>13, Zenon DEF Check
  <2> QED BY <1>3, <1>5, <1>6, <1>8, <2>1 DEF Moves, MovesAck
<1>14. CASE Discard
  <2>1. async.at = "discard" /\ \E point \in {"get", "ack"} : Go(point) /\ (point = "ack" => async.ev.type = "RECV")
    BY <1>14, DiscardGoes
  <2> QED BY <1>3, <1>5, <1>8, <2>1 DEF Moves, MovesAck
<1>15. CASE Unhook
  BY <1>3, <1>5, <1>8, <1>15, UnhookDoes DEF Moves, MovesClose
<1>16. CASE Close
  <2>1. async.at = "close" /\ StartCall("close", "discard")
    BY <1>16 DEF Close
  <2> QED BY <1>4, <1>8, <2>1 DEF Moves, MovesClose
<1>17. CASE Abort
  <2>1. async.at = "abort" /\ (Go("discard") \/ (Client.pcb # 0 /\ StartCall("abort", "discard")))
    BY <1>17, Zenon DEF Abort
  <2> QED BY <1>3, <1>4, <1>5, <1>8, <2>1 DEF Moves, MovesClose
<1>18. \/ AppReturns \/ AppWrites \/ AppCloses \/ ReadSlot \/ Serve \/ Ack \/ Check \/ Discard \/ Unhook \/ Close \/ Abort
  BY <1>2, <1>7 DEF Next, Task
<1> QED BY <1>9, <1>10, <1>11, <1>12, <1>13, <1>14, <1>15, <1>16, <1>17, <1>18

\* Who changes a client: accept constructs it, the FIN takes its control block,
\* the request hooks it, the discarding deletes it.
Constructs(a) ==
  \E p \in Conn : /\ Accept /\ heap[a].conn = 0 /\ heap[a].hooked = FALSE /\ heap'[a].conn = p /\ heap'[a].hooked = FALSE
                  /\ heap'[a].pcb = p /\ conn[p].state = "new" /\ lwip' = Event("ACCEPT", a, p, 0)
                  /\ (Cleared(a) => "address reused" \in causes'[p])
Discards(a) ==
  /\ Discard /\ async.at = "discard" /\ a = async.ev.arg /\ async'.at \in {"get", "ack"}
  /\ heap[a].hooked => heap'[a] = NoClient
  /\ ~heap[a].hooked => heap'[a].conn = heap[a].conn /\ heap'[a].hooked = heap[a].hooked /\ heap'[a].pcb = 0
Hooks(a) == Take /\ queue[1].type = "ACCEPT" /\ queue[1].arg = a /\ heap'[a].hooked = TRUE
Ended(a) == \E p \in Conn : Fin(p) /\ a = conn[p].arg

LEMMA ClientOfStep ==
  ASSUME TypeInv, [Next]_vars, NEW a \in Addresses
  PROVE  \/ Constructs(a)
         \/ Discards(a)
         \/ /\ heap'[a].conn = heap[a].conn
            /\ heap'[a].hooked = heap[a].hooked \/ Hooks(a)
            /\ heap'[a].pcb = heap[a].pcb \/ Ended(a)
<1> DEFINE Same == heap'[a].conn = heap[a].conn /\ heap'[a].hooked = heap[a].hooked /\ heap'[a].pcb = heap[a].pcb
<1>1. CASE heap' = heap
  BY <1>1
<1>2. CASE Accept
  <2>1. PICK p \in Conn, b \in Addresses, s \in NoSlot..(Slots - 1) : Accepted(p, b, s)
    BY <1>2, AcceptDoes
  <2>2. CASE a = b
    <3>1. heap'[a] = NewClient(p, s) /\ heap[a] = NoClient /\ conn[p].state = "new" /\ lwip' = Event("ACCEPT", a, p, 0)
          /\ (Cleared(a) => "address reused" \in causes'[p])
      BY <2>1, <2>2 DEF Accepted
    <3>2. heap[a].conn = 0 /\ heap[a].hooked = FALSE
      BY <3>1, NoClientIs
    <3>5. heap'[a] = NewClient(p, s)
      BY <3>1
    <3>6. NewClient(p, s).conn = p /\ NewClient(p, s).pcb = p /\ NewClient(p, s).hooked = FALSE
      BY NewClientIs
    <3>3. heap'[a].conn = p /\ heap'[a].pcb = p
      BY <3>5, <3>6
    <3>4. heap'[a].hooked = FALSE
      BY <3>5, <3>6
    <3> QED BY <1>2, <3>1, <3>2, <3>3, <3>4 DEF Constructs
  <2>3. CASE a # b
    BY <2>1, <2>3 DEF Accepted
  <2> QED BY <2>2, <2>3
<1>3. ASSUME NEW p \in Conn, Fin(p)
      PROVE  /\ heap'[a].conn = heap[a].conn /\ heap'[a].hooked = heap[a].hooked
             /\ heap'[a].pcb = heap[a].pcb \/ Ended(a)
  <2>1. CASE a = conn[p].arg
    BY <1>3, <2>1, FinDoes DEF Ended
  <2>2. CASE a # conn[p].arg
    BY <1>3, <2>2, FinDoes
  <2> QED BY <2>1, <2>2
<1>4. CASE Take
  BY <1>4, TakeHooks DEF Hooks
<1>5. CASE Discard
  <2>1. async.at = "discard" /\ async.ev.arg \in Addresses /\ Client \in AsyncClient /\ Client = heap[async.ev.arg]
    BY <1>5, EventOfTask DEF Discard
  <2>2. async'.at \in {"get", "ack"}
    <3>1. PICK point \in {"get", "ack"} : Go(point)
      BY <1>5, DiscardGoes
    <3>2. point \in Points /\ async \in AsyncTask
      BY DEF Points, TypeInv
    <3> QED BY <3>1, <3>2, GoDoes
  <2>3. \/ Client.hooked /\ ClientBecomes(async.ev.arg, NoClient)
        \/ ~Client.hooked /\ ClientBecomes(async.ev.arg, [Client EXCEPT !.pcb = 0])
    BY <1>5, DiscardDoes
  <2>4. CASE a = async.ev.arg
    <3>1. CASE heap[a].hooked
      BY <1>5, <2>1, <2>2, <2>3, <2>4, <3>1 DEF ClientBecomes, Discards
    <3>2. CASE ~heap[a].hooked
      <4>1. heap'[a] = [Client EXCEPT !.pcb = 0]
        BY <2>1, <2>3, <2>4, <3>2 DEF ClientBecomes
      <4>2. heap'[a].conn = heap[a].conn /\ heap'[a].hooked = heap[a].hooked /\ heap'[a].pcb = 0
        BY <2>1, <2>4, <4>1, LosesBlock
      <4> QED BY <1>5, <2>1, <2>2, <2>4, <3>2, <4>2 DEF Discards
    <3> QED BY <3>1, <3>2
  <2>5. CASE a # async.ev.arg
    BY <2>3, <2>5 DEF ClientBecomes
  <2> QED BY <2>4, <2>5
<1>6. ~Accept /\ ~(\E p \in Conn : Fin(p)) /\ ~Take /\ ~Discard => heap' = heap
  <2> SUFFICES ASSUME ~Accept, ~(\E p \in Conn : Fin(p)), ~Take, ~Discard PROVE heap' = heap
    OBVIOUS
  <2>1. CASE UNCHANGED vars \/ Begin \/ End \/ Post
    BY <2>1 DEF vars, Begin, End, Post
  <2>2. CASE \E p \in Conn : Receive(p) \/ Poll(p) \/ Sent(p) \/ Ceases(p)
    BY <2>2 DEF Receive, Poll, Sent, Tick, Ceases, Reset, FinUnhooked
  <2>3. CASE Serve
    BY <2>3, ServeIs
  <2>4. CASE AppReturns \/ AppWrites \/ AppCloses \/ ReadSlot \/ Ack \/ Check \/ Unhook \/ Clear \/ Close \/ Abort
    BY <2>4 DEF AppReturns, AppWrites, AppCloses, ReadSlot, Ack, Check, Unhook, Clear, Close, Abort
  <2>5. CASE TurnFirst \/ TurnNext \/ PutBack
    BY <2>5 DEF TurnFirst, TurnNext, PutBack
  <2>6. \/ UNCHANGED vars \/ Begin \/ End \/ Post \/ Serve
        \/ \E p \in Conn : Receive(p) \/ Poll(p) \/ Sent(p) \/ Ceases(p)
        \/ AppReturns \/ AppWrites \/ AppCloses \/ ReadSlot \/ Ack \/ Check \/ Unhook \/ Clear \/ Close \/ Abort
        \/ TurnFirst \/ TurnNext \/ PutBack
    BY Zenon DEF Next, Peer, Ceases, Task
  <2> QED BY <2>1, <2>2, <2>3, <2>4, <2>5, <2>6
<1> QED BY <1>1, <1>2, <1>3, <1>4, <1>5, <1>6

-----------------------------------------------------------------------------
(* Deleted clients.                                                        *)

DeletedExcuse == {"fin in _close", "fin unhooked", "closed in onData", "rotation"}
IsCleared(a) == \E i \in 1..Len(queue) : queue[i].type = "CLEAR" /\ queue[i].arg = a
Current(e) == heap[e.arg].conn = e.pcb

\* An event for a client that is no more will be removed.
Removed(e) == IF async.at \in Turning THEN e.arg = async.ev.arg ELSE IsCleared(e.arg)
Doomed(e) == Removed(e) /\ \E i \in 1..Len(queue) : queue[i] = e /\ ~Turned(i)

EventsCurrent ==
  \A e \in Events : Waits(e) =>
    /\ e.type = "ACCEPT" => Current(e) /\ ~heap[e.arg].hooked
    /\ e.type \in Apps \union Ends => Current(e) \/ Doomed(e) \/ Excused(e.pcb, DeletedExcuse)

\* How far the closing of the client is.
Shuts == IsClosing \/ async.at \in {"check", "unhook"} \/ (async.at \in Calling /\ async.back = "check")
Drops == async.at \in {"abort", "discard"} \/ (async.at \in Calling /\ async.call = "abort")
ClosingFollows ==
  /\ IsClosing /\ async.at \notin {"unrecv", "clear"} /\ async.ev.type # "ERROR" => IsCleared(async.ev.arg)
  /\ (IsClosing \/ async.at = "unhook") /\ async.ev.type \in Apps /\ heap[async.ev.arg].pcb = 0 =>
       "fin in _close" \in causes[async.ev.pcb]
  /\ IsClosing /\ async.at \in Calling /\ async.pcb = 0 => "fin in _close" \in causes[async.ev.pcb]
  /\ Drops => lwip.pcb # async.ev.pcb \/ Excused(async.ev.pcb, DeletedExcuse)
  /\ Shuts /\ async.ev.type = "RECV" => "closed in onData" \in causes[async.ev.pcb]
  /\ async.at = "ack" => Current(async.ev) \/ "closed in onData" \in causes[async.ev.pcb]

DeletedFollows == EventsCurrent /\ ClosingFollows /\ DeletedClientsAreLeftAlone

LEMMA StaysExcused ==
  ASSUME TypeInv, [Next]_vars, NEW q \in Conn, NEW why, Excused(q, why)
  PROVE  Excused(q, why)'
<1>1. causes[q] \subseteq causes'[q]
  BY GrowsStep DEF Grows
<1> QED BY <1>1, Zenon DEF Excused

\* A CLEAR at the head is handled.
LEMMA TakesClear ==
  ASSUME TypeInv, Take, queue[1].type = "CLEAR"
  PROVE  async'.at = "first" /\ async'.ev = queue[1]
<1> DEFINE e == Head(queue)
<1>1. queue \in Seq(Events) /\ queue # <<>> /\ queue' = Tail(queue)
  BY DEF Take, TypeInv
<1>2. e = queue[1]
  BY <1>1, TailQueue
<1>3. async' = [Idle EXCEPT !.ev = e, !.at = "first"]
  BY <1>2 DEF Take
<1> HIDE DEF e
<1>4. e \in Events /\ e \in OrNone /\ "first" \in Points
  BY <1>1, <1>2, TailQueue DEF OrNone, Points, Turning
<1> DEFINE r == [Idle EXCEPT !.ev = e]
<1>5. r \in AsyncTask /\ r.ev = e
  BY <1>4, IdleIs, WithEv
<1>6. async' = [r EXCEPT !.at = "first"]
  BY <1>3
<1> HIDE DEF r
<1>7. async'.at = "first" /\ async'.ev = r.ev
  BY <1>4, <1>5, <1>6, WithAt DEF SameBut
<1> QED BY <1>2, <1>5, <1>7

\* An ACCEPT leads the task back to the queue.
LEMMA TakesAccept ==
  ASSUME TypeInv, Take, queue[1].type = "ACCEPT"
  PROVE  async' = Idle
<1>1. \A point : ~TakesTo(queue[1], point)
  BY DEF TakesTo, Apps
<1> QED BY <1>1, TakeGoes

\* The head of the queue, where a CLEAR waits, is that CLEAR or an ACCEPT.
LEMMA HeadOfCleared ==
  ASSUME TypeInv, ClearsFirst, NEW k \in 1..Len(queue), queue[k].type = "CLEAR", k # 1
  PROVE  queue[1].type = "ACCEPT"
<1>1. 1 \in 1..(k - 1)
  BY SMT, LenProperties DEF TypeInv
<1>2. ClearIsFirst(k)
  BY ClearsAre
<1> QED BY <1>1, <1>2 DEF ClearIsFirst

\* What is cleared stays so until the task takes the CLEAR.
LEMMA ClearedStays ==
  ASSUME TypeInv, TypeInv', ClearsFirst, [Next]_vars, NEW a, IsCleared(a), async.at \notin Turning
  PROVE  IF Take /\ queue[1].type = "CLEAR" /\ queue[1].arg = a THEN async'.at = "first" /\ async'.ev = queue[1]
         ELSE IsCleared(a)' /\ (Take => queue[1].type = "ACCEPT")
<1> SUFFICES ASSUME ~(Take /\ queue[1].type = "CLEAR" /\ queue[1].arg = a)
             PROVE  IsCleared(a)' /\ (Take => queue[1].type = "ACCEPT")
  BY TakesClear
<1>1. PICK k \in 1..Len(queue) : queue[k].type = "CLEAR" /\ queue[k].arg = a
  BY DEF IsCleared
<1>2. Len(queue) \in Nat
  BY LenProperties DEF TypeInv
<1>3. CASE Take
  <2>1. Taken
    BY <1>3, TakeLeads
  <2>2. k # 1
    BY <1>1, <1>3
  <2>3. k - 1 \in 1..Len(queue') /\ queue'[k - 1] = queue[k]
    BY <2>1, <2>2, TakenPlaces
  <2> QED BY <1>1, <2>2, <2>3, HeadOfCleared DEF IsCleared
<1>4. CASE Clear
  <2>1. /\ Len(queue') = Len(queue) + 1
        /\ \A i \in 2..Len(queue') : queue'[i] = queue[i - 1]
    BY <1>4, ClearDoes
  <2>2. k + 1 \in 1..Len(queue') /\ k + 1 \in 2..Len(queue') /\ (k + 1) - 1 = k
    BY SMT, <1>2, <2>1
  <2>3. ~Take
    BY <1>4 DEF Clear, Take
  <2> QED BY <1>1, <2>1, <2>2, <2>3 DEF IsCleared
<1>5. CASE Post
  <2>1. ~Take
    BY <1>5, PostPlaces, TakeDoes, <1>2, SMT
  <2>2. CASE lwip.type = "ACCEPT"
    <3>1. /\ Len(queue') = Len(queue) + 1
          /\ \A i \in 2..Len(queue') : queue'[i] = queue[i - 1]
      BY <1>5, <2>2, PostPlaces
    <3>2. k + 1 \in 1..Len(queue') /\ k + 1 \in 2..Len(queue') /\ (k + 1) - 1 = k
      BY SMT, <1>2, <3>1
    <3> QED BY <1>1, <2>1, <3>1, <3>2 DEF IsCleared
  <2>3. CASE lwip.type # "ACCEPT"
    <3>1. /\ Len(queue') = Len(queue) + 1
          /\ \A i \in 1..Len(queue) : queue'[i] = queue[i]
      BY <1>5, <2>3, PostPlaces
    <3>2. k \in 1..Len(queue')
      BY SMT, <1>2, <3>1
    <3> QED BY <1>1, <2>1, <3>1, <3>2 DEF IsCleared
  <2> QED BY <2>2, <2>3
<1>6. CASE (Still \/ Peer) /\ ~Take
  <2>1. queue' = queue
    BY <1>6, PeerStill DEF Still
  <2> QED BY <1>1, <1>6, <2>1 DEF IsCleared
<1>7. ~TurnFirst /\ ~TurnNext /\ ~PutBack
  BY DEF TurnFirst, TurnNext, PutBack, Turning
<1> QED BY <1>3, <1>4, <1>5, <1>6, <1>7, StillSteps

\* An event leaves the queue at its head.
LEMMA QueuedStays ==
  ASSUME TypeInv, Unique, [Next]_vars, NEW e \in Events, Queued(e), Waits(e)'
  PROVE  Queued(e)' \/ ((TurnFirst \/ TurnNext) /\ TurnHolds /\ e = queue[1])
<1>1. PICK i \in 1..Len(queue) : queue[i] = e
  BY DEF Queued
<1>2. Len(queue) \in Nat
  BY LenProperties DEF TypeInv
<1>3. CASE Still \/ Peer
  <2>1. queue' = queue
    BY <1>3, PeerStill DEF Still
  <2> QED BY <1>1, <2>1 DEF Queued
<1>4. CASE Post
  <2>1. CASE lwip.type = "ACCEPT"
    <3>1. /\ Len(queue') = Len(queue) + 1
          /\ \A j \in 2..Len(queue') : queue'[j] = queue[j - 1]
      BY <1>4, <2>1, PostPlaces
    <3>2. i + 1 \in 1..Len(queue') /\ i + 1 \in 2..Len(queue') /\ (i + 1) - 1 = i
      BY SMT, <1>2, <3>1
    <3> QED BY <1>1, <3>1, <3>2 DEF Queued
  <2>2. CASE lwip.type # "ACCEPT"
    <3>1. /\ Len(queue') = Len(queue) + 1
          /\ \A j \in 1..Len(queue) : queue'[j] = queue[j]
      BY <1>4, <2>2, PostPlaces
    <3>2. i \in 1..Len(queue')
      BY SMT, <1>2, <3>1
    <3> QED BY <1>1, <3>1, <3>2 DEF Queued
  <2> QED BY <2>1, <2>2
<1>5. CASE Clear
  <2>1. /\ Len(queue') = Len(queue) + 1
        /\ \A j \in 2..Len(queue') : queue'[j] = queue[j - 1]
    BY <1>5, ClearDoes
  <2>2. i + 1 \in 1..Len(queue') /\ i + 1 \in 2..Len(queue') /\ (i + 1) - 1 = i
    BY SMT, <1>2, <2>1
  <2> QED BY <1>1, <2>1, <2>2 DEF Queued
<1>6. CASE PutBack
  <2>1. /\ Len(queue') = Len(queue) + 1
        /\ \A j \in 1..Len(queue) : queue'[j] = queue[j]
    BY <1>6, PutBackDoes
  <2>2. i \in 1..Len(queue')
    BY SMT, <1>2, <2>1
  <2> QED BY <1>1, <2>1, <2>2 DEF Queued
<1>7. CASE Take
  <2>1. Taken /\ e # queue[1]
    BY <1>7, TakeLeads, TakenWasAhead
  <2> QED BY <1>1, <2>1, TakenPlaces DEF Queued
<1>8. CASE TurnFirst \/ TurnNext
  <2>1. (TurnEnds \/ TurnDrops \/ TurnHolds) /\ async.held = NoEvent /\ lwip' = lwip
    BY <1>8, TurnLeads
  <2>2. CASE TurnEnds
    BY <1>1, <2>2 DEF TurnEnds, Queued
  <2>3. CASE Taken /\ e # queue[1]
    BY <1>1, <2>3, TakenPlaces DEF Queued
  <2>4. CASE TurnDrops /\ e = queue[1]
    <3>1. Taken /\ async' = async
      BY <2>4 DEF TurnDrops
    <3>2. e # lwip' /\ e # async'.held
      BY <2>1, <2>4, <3>1, TakenPlaces, EventParts DEF Unique
    <3> QED BY <3>2 DEF Waits, Queued
  <2> QED BY <1>8, <2>1, <2>2, <2>3, <2>4 DEF TurnDrops, TurnHolds
<1> QED BY <1>3, <1>4, <1>5, <1>6, <1>7, <1>8, StillSteps

\* What the turning has yet to reach stays so as long as it is in the queue.
LEMMA UnturnedStays ==
  ASSUME TypeInv, TypeInv', Unique, [Next]_vars, NEW e \in Events, Queued(e)',
         NEW i \in 1..Len(queue), queue[i] = e, ~Turned(i)
  PROVE  \E j \in 1..Len(queue') : queue'[j] = e /\ ~Turned(j)'
<1>1. Len(queue) \in Nat
  BY LenProperties DEF TypeInv
<1>2. CASE ~Rotating'
  BY <1>2 DEF Queued, Turned
<1>3. CASE Still \/ Peer
  <2>1. queue' = queue
    BY <1>3, PeerStill DEF Still
  <2>2. Rotating' => Rotating /\ async'.first = async.first
    BY <1>3, StillHolds, PeerStill DEF Rotating
  <2>3. ~Turned(i)'
    BY <2>1, <2>2 DEF Turned, InFront
  <2> QED BY <2>1, <2>3
<1>4. CASE Post /\ Rotating'
  <2>1. async' = async /\ Rotating
    BY <1>4, PostPlaces DEF Rotating
  <2>2. InFront(i)
    BY <2>1 DEF Turned
  <2>3. CASE lwip.type = "ACCEPT"
    <3>1. /\ Len(queue') = Len(queue) + 1 /\ queue'[1] = lwip
          /\ \A j \in 2..Len(queue') : queue'[j] = queue[j - 1]
      BY <1>4, <2>3, PostPlaces
    <3>2. i + 1 \in 1..Len(queue') /\ i + 1 \in 2..Len(queue') /\ (i + 1) - 1 = i
      BY SMT, <1>1, <3>1
    <3>3. lwip # async.first
      BY <2>1 DEF Unique, Queued
    <3>4. \A j \in 2..Len(queue') : InFront(j)' <=> InFront(j - 1)
      BY <1>1, <2>1, <3>1, <3>3, PrependedTurns
    <3>5. ~Turned(i + 1)'
      BY <2>2, <3>2, <3>4 DEF Turned
    <3> QED BY <3>1, <3>2, <3>5
  <2>4. CASE lwip.type # "ACCEPT"
    <3>1. /\ Len(queue') = Len(queue) + 1
          /\ \A j \in 1..Len(queue) : queue'[j] = queue[j]
      BY <1>4, <2>4, PostPlaces
    <3>2. i \in 1..Len(queue')
      BY SMT, <1>1, <3>1
    <3>3. \A j \in 1..Len(queue) : InFront(j)' <=> InFront(j)
      BY <1>1, <2>1, <3>1, AppendedTurns
    <3>4. ~Turned(i)'
      BY <2>2, <3>3 DEF Turned
    <3> QED BY <3>1, <3>2, <3>4
  <2> QED BY <2>3, <2>4
<1>5. CASE (TurnFirst \/ TurnNext) /\ Rotating'
  <2>1. (TurnEnds \/ TurnDrops \/ TurnHolds) /\ async.at \in {"first", "rest"} /\ lwip' = lwip
    BY <1>5, TurnLeads
  <2>2. ~TurnEnds
    <3>1. TurnEnds => async'.at = "get"
      BY GoDoes DEF TurnEnds, TypeInv, Points
    <3> QED BY <1>5, <3>1 DEF Rotating
  <2>3. Taken /\ Rotating /\ async'.first = async.first /\ queue[1] # async.first
    <3>1. CASE TurnDrops
      BY <1>5, <2>1, <3>1 DEF TurnDrops, Rotating
    <3>2. CASE TurnHolds
      BY <1>5, <2>1, <3>2 DEF TurnHolds, Holds, Rotating
    <3> QED BY <2>1, <2>2, <3>1, <3>2
  <2>4. i # 1
    <3>1. PICK j \in 1..Len(queue') : queue'[j] = e
      BY DEF Queued
    <3>2. j + 1 \in 1..Len(queue) /\ j + 1 # 1 /\ queue[j + 1] = e
      BY <2>3, <3>1, TakenPlaces
    <3> QED BY <3>2 DEF Unique
  <2>5. i - 1 \in 1..Len(queue') /\ queue'[i - 1] = e /\ (i - 1) + 1 = i
    <3>1. (i - 1) + 1 = i
      BY SMT
    <3> QED BY <2>3, <2>4, <3>1, TakenPlaces
  <2>6. ~Turned(i - 1)'
    <3>1. \A j \in 1..Len(queue') : Turned(j)' <=> Turned(j + 1)
      BY <1>5, <2>3, TakenTurns
    <3>2. PICK j \in 1..Len(queue') : j = i - 1
      BY <2>5
    <3>3. ~Turned(j)'
      BY <2>5, <3>1, <3>2
    <3> QED BY <3>2, <3>3
  <2> QED BY <2>5, <2>6
<1>6. CASE PutBack /\ Rotating'
  <2>1. /\ async.at \in {"putfirst", "put"} /\ async'.first = async.first
        /\ (async.at = "putfirst" => async.held = async.first)
        /\ Len(queue') = Len(queue) + 1 /\ \A j \in 1..Len(queue) : queue'[j] = queue[j]
    BY <1>6, PutBackDoes DEF Holds
  <2>2. i \in 1..Len(queue')
    BY SMT, <1>1, <2>1
  <2>3. InFront(i)
    <3>1. CASE async.at = "put"
      BY <3>1 DEF Turned, Rotating
    <3>2. CASE async.at = "putfirst"
      <4>1. \A j \in 1..i : j \in 1..Len(queue)
        BY SMT, <1>1
      <4> QED BY <2>1, <3>2, <4>1 DEF Unique, InFront
    <3> QED BY <2>1, <3>1, <3>2
  <2>4. \A j \in 1..Len(queue) : InFront(j)' <=> InFront(j)
    BY <1>1, <2>1, AppendedTurns
  <2>5. ~Turned(i)'
    BY <2>3, <2>4 DEF Turned
  <2> QED BY <2>1, <2>2, <2>5
<1>7. CASE (Take \/ Clear) /\ Rotating'
  BY <1>7, TakeLeads, ClearLeads
<1> QED BY <1>2, <1>3, <1>4, <1>5, <1>6, <1>7, StillSteps

LEMMA DoomedStays ==
  ASSUME TypeInv, TypeInv', Unique, ClearsFirst, [Next]_vars,
         NEW e \in Events, e.type \in Apps \union Ends, Doomed(e), Waits(e)'
  PROVE  Doomed(e)'
<1>1. PICK i \in 1..Len(queue) : queue[i] = e /\ ~Turned(i)
  BY DEF Doomed
<1>2. Queued(e) /\ Removed(e)
  BY <1>1 DEF Doomed, Queued
<1>3. CASE async.at \notin Turning
  <2>1. IsCleared(e.arg)
    BY <1>2, <1>3 DEF Removed
  <2>2. Queued(e)'
    <3>1. ~TurnFirst /\ ~TurnNext
      BY <1>3 DEF TurnFirst, TurnNext, Turning
    <3> QED BY <1>2, <3>1, QueuedStays
  <2>3. CASE Take /\ queue[1].type = "CLEAR" /\ queue[1].arg = e.arg
    <3>1. async'.at = "first" /\ async'.ev = queue[1]
      BY <2>3, TakesClear
    <3>2. Removed(e)'
      BY <2>3, <3>1 DEF Removed, Turning
    <3> QED BY <1>1, <2>2, <3>2, UnturnedStays DEF Doomed
  <2>4. CASE ~(Take /\ queue[1].type = "CLEAR" /\ queue[1].arg = e.arg)
    <3>1. IsCleared(e.arg)' /\ (Take => queue[1].type = "ACCEPT")
      BY <1>3, <2>1, <2>4, ClearedStays
    <3>2. async'.at \notin Turning
      <4>1. CASE Take
        BY <3>1, <4>1, TakesAccept, IdleIs DEF Turning
      <4>2. CASE Clear
        BY <4>2, ClearLeads DEF Turning
      <4>3. CASE Still \/ Peer \/ Post
        BY <1>3, <4>3, PeerStill, PostPlaces DEF Still
      <4>4. ~TurnFirst /\ ~TurnNext /\ ~PutBack
        BY <1>3 DEF TurnFirst, TurnNext, PutBack, Turning
      <4> QED BY <4>1, <4>2, <4>3, <4>4, StillSteps
    <3>3. Removed(e)'
      BY <3>1, <3>2 DEF Removed
    <3> QED BY <1>1, <2>2, <3>3, UnturnedStays DEF Doomed
  <2> QED BY <2>3, <2>4
<1>4. CASE async.at \in Turning
  <2>1. e.arg = async.ev.arg
    BY <1>2, <1>4 DEF Removed
  <2>2. Matches(e)
    BY <2>1 DEF Matches, Apps, Ends
  <2>3. async'.at \in Turning /\ async'.ev = async.ev /\ ~((TurnFirst \/ TurnNext) /\ TurnHolds /\ e = queue[1])
    <3>1. ~(TurnHolds /\ e = queue[1])
      BY <2>2 DEF TurnHolds
    <3>2. CASE Still \/ Peer \/ Post
      <4>1. async' = async
        BY <1>4, <3>2, PeerStill, PostPlaces DEF Still
      <4> QED BY <1>4, <3>1, <4>1
    <3>3. CASE TurnFirst \/ TurnNext
      <4>1. TurnEnds \/ TurnDrops \/ TurnHolds
        BY <3>3, TurnLeads
      <4>2. ~TurnEnds
        <5>1. Len(queue) # 0 /\ 1 \in 1..i
          BY SMT
        <5>2. ~(async.at = "rest" /\ queue[1] = async.first)
          BY <1>1, <5>1 DEF Turned, InFront, Rotating
        <5> QED BY <5>1, <5>2 DEF TurnEnds
      <4>3. CASE TurnDrops
        BY <1>4, <3>1, <4>3 DEF TurnDrops
      <4>4. CASE TurnHolds
        BY <3>1, <4>4 DEF TurnHolds, Holds, Turning
      <4> QED BY <4>1, <4>2, <4>3, <4>4
    <3>4. CASE PutBack
      BY <3>1, <3>4, PutBackDoes DEF Holds, Turning
    <3>5. ~Take /\ ~Clear
      BY <1>4 DEF Take, Clear, Turning
    <3> QED BY <3>2, <3>3, <3>4, <3>5, StillSteps
  <2>4. Queued(e)'
    BY <1>2, <2>3, QueuedStays
  <2>5. Removed(e)'
    BY <2>1, <2>3 DEF Removed
  <2> QED BY <1>1, <2>4, <2>5, UnturnedStays DEF Doomed
<1> QED BY <1>3, <1>4

\* What lwIP brings is for the client there is.
LEMMA BroughtIsCurrent ==
  ASSUME TypeInv, Links, Peer, NEW e \in Events, e = lwip'
  PROVE  Current(e)' /\ (e.type = "ACCEPT" => ~heap'[e.arg].hooked)
<1>1. \A p \in Conn : conn[p].arg # None => heap[conn[p].arg].conn = p
  BY DEF Links, ClientLinks
<1>2. CASE Accept
  <2>1. PICK p \in Conn, a \in Addresses, s \in NoSlot..(Slots - 1) : Accepted(p, a, s)
    BY <1>2, AcceptDoes
  <2>2. heap'[a] = NewClient(p, s) /\ lwip' = Event("ACCEPT", a, p, 0)
    BY <2>1 DEF Accepted
  <2>3. e.arg = a /\ e.pcb = p
    BY <2>2 DEF Event
  <2>4. NewClient(p, s).conn = p /\ NewClient(p, s).hooked = FALSE
    BY NewClientIs
  <2>5. heap'[e.arg].conn = e.pcb /\ ~heap'[e.arg].hooked
    BY <2>2, <2>3, <2>4
  <2> QED BY <2>5 DEF Current
<1>3. ASSUME NEW p \in Conn, NEW type, NEW n, conn[p].arg # None, heap'[conn[p].arg].conn = heap[conn[p].arg].conn,
             lwip' = Event(type, conn[p].arg, p, n), type # "ACCEPT"
      PROVE  Current(e)' /\ e.type # "ACCEPT"
  <2>1. e.arg = conn[p].arg /\ e.pcb = p /\ e.type = type
    BY <1>3 DEF Event
  <2>2. heap'[e.arg].conn = e.pcb
    BY <1>1, <1>3, <2>1
  <2> QED BY <1>3, <2>1, <2>2 DEF Current
<1>4. ASSUME NEW p \in Conn, Receive(p) PROVE Current(e)' /\ e.type # "ACCEPT"
  <2>1. heap' = heap /\ conn[p].arg # None
    BY <1>4 DEF Receive, Callback
  <2> QED BY <1>3, <1>4, <2>1, ReceiveDoes
<1>5. ASSUME NEW p \in Conn, Poll(p) \/ Sent(p) PROVE Current(e)' /\ e.type # "ACCEPT"
  <2>1. PICK type \in {"POLL", "SENT"} : Tick(p, type)
    BY <1>5 DEF Poll, Sent
  <2>2. heap' = heap /\ conn[p].arg # None /\ lwip' = Event(type, conn[p].arg, p, traffic + 1)
    BY <2>1 DEF Tick, Callback
  <2> QED BY <1>3, <2>2
<1>6. ASSUME NEW p \in Conn, Fin(p) PROVE Current(e)' /\ e.type # "ACCEPT"
  BY <1>3, <1>6, FinDoes, ZenonT(60)
<1>7. ASSUME NEW p \in Conn, Ceases(p) PROVE Current(e)' /\ e.type # "ACCEPT"
  <2>1. heap' = heap /\ e # NoEvent
    BY <1>7, EventParts DEF Ceases, Reset, FinUnhooked
  <2>2. conn[p].arg # None /\ lwip' = Event("ERROR", conn[p].arg, p, 0)
    <3>1. conn[p].arg \in Addresses => conn[p].arg # None
      BY AddressAssumption DEF None
    <3> QED BY <1>7, <2>1, <3>1, CeasesDoes
  <2> QED BY <1>3, <2>1, <2>2
<1> QED BY <1>2, <1>4, <1>5, <1>6, <1>7 DEF Peer, Ceases

\* Two events with the same parts are one.
LEMMA SameEvent ==
  ASSUME NEW e \in Events, NEW f \in Events, e.type = f.type, e.arg = f.arg, e.pcb = f.pcb, e.n = f.n
  PROVE  e = f
BY DEF Events

LEMMA AcceptsCurrent ==
  ASSUME TypeInv, TypeInv', Links, EventsOrdered, EventsCurrent, [Next]_vars,
         NEW e \in Events, Waits(e), Waits(e)', e.type = "ACCEPT"
  PROVE  Current(e)' /\ ~heap'[e.arg].hooked
<1>1. e.arg \in Addresses /\ e.pcb \in Conn /\ e.pcb # 0 /\ heap[e.arg].conn = e.pcb /\ ~heap[e.arg].hooked /\ e.n = 0
  BY EventParts DEF EventsCurrent, Current, Apps
<1>2. ~Constructs(e.arg)
  BY <1>1 DEF Constructs
<1>3. CASE Discards(e.arg)
  BY <1>1, <1>3 DEF Discards, Current
<1>4. ~Hooks(e.arg)
  <2> SUFFICES ASSUME Hooks(e.arg) PROVE FALSE
    OBVIOUS
  <2>1. Take /\ queue[1].type = "ACCEPT" /\ queue[1].arg = e.arg
    BY DEF Hooks
  <2>2. queue[1] \in Events /\ Queued(queue[1])
    BY <2>1, TakeDoes
  <2>3. PICK f \in Events : f = queue[1]
    BY <2>2
  <2>4. f.type = "ACCEPT" /\ f.arg = e.arg /\ Waits(f) /\ f.n = 0
    BY <2>1, <2>2, <2>3, EventParts DEF Waits, Queued, Apps
  <2>5. f.pcb = e.pcb
    BY <1>1, <2>4 DEF EventsCurrent, Current
  <2>6. e = f
    BY <1>1, <2>4, <2>5, SameEvent
  <2>7. e # queue[1]
    BY <2>1, TakenWasAhead DEF EventsOrdered
  <2> QED BY <2>3, <2>6, <2>7
<1> QED BY <1>1, <1>2, <1>3, <1>4, ClientOfStep DEF Current

\* Nothing else waits for a client that is discarded because its connection ended.
LEMMA EndsLeaveNothing ==
  ASSUME EventsOrdered, async.ev.type \in Ends, NEW f \in Events, Waits(f), f.pcb = async.ev.pcb
  PROVE  f.type = "CLEAR" \/ "rotation" \in causes[async.ev.pcb]
BY DEF EventsOrdered, EndIsLast

LEMMA OthersCurrent ==
  ASSUME TypeInv, TypeInv', Links, EventsOrdered, EventsCurrent, ClosingFollows, [Next]_vars,
         NEW e \in Events, Waits(e), Waits(e)', e.type \in Apps \union Ends
  PROVE  (Current(e) \/ Doomed(e) \/ Excused(e.pcb, DeletedExcuse))'
<1>1. e.arg \in Addresses /\ e.pcb \in Conn /\ e.pcb # 0 /\ e.type # "CLEAR" /\ e # NoEvent
  BY EventParts DEF Apps, Ends
<1>2. CASE Doomed(e)
  BY <1>2, DoomedStays DEF EventsOrdered
<1>3. CASE Excused(e.pcb, DeletedExcuse)
  BY <1>1, <1>3, StaysExcused
<1>4. CASE Current(e)
  <2>1. heap[e.arg].conn = e.pcb
    BY <1>4 DEF Current
  <2>2. ~Constructs(e.arg)
    BY <1>1, <2>1 DEF Constructs
  <2>3. CASE Discards(e.arg)
    <3>1. async.at = "discard" /\ e.arg = async.ev.arg /\ async'.at \in {"get", "ack"}
      BY <2>3 DEF Discards
    <3>2. e.pcb = async.ev.pcb /\ async.ev \in Events
      <4>1. HasClient
        BY <3>1 DEF HasClient, Turning
      <4> QED BY <2>1, <3>1, <4>1, EventOfTask DEF Links, TaskLinks
    <3>3. Drops /\ IsClosing
      BY <3>1 DEF Drops, IsClosing, Closing
    <3>4. async.ev.type \in Apps \union Ends
      BY <3>1, EventOfTask DEF Fits, Turning, Ends, Apps
    <3>5. CASE async.ev.type \in Ends
      <4>1. "rotation" \in causes[e.pcb]
        BY <1>1, <3>2, <3>5, EndsLeaveNothing
      <4>2. Excused(e.pcb, DeletedExcuse)
        BY <4>1, Zenon DEF Excused, DeletedExcuse
      <4> QED BY <1>1, <4>2, StaysExcused
    <3>6. CASE async.ev.type \in Apps
      <4>1. IsCleared(e.arg)
        BY <3>1, <3>3, <3>6 DEF ClosingFollows, Apps
      <4>2. lwip.pcb # e.pcb \/ Excused(e.pcb, DeletedExcuse)
        BY <3>2, <3>3 DEF ClosingFollows
      <4>3. CASE lwip.pcb # e.pcb
        <5>1. async.held = NoEvent
          BY <3>1, HoldsNothing
        <5>2. Queued(e)
          BY <1>1, <4>3, <5>1 DEF Waits, Queued
        <5>3. Removed(e)
          BY <3>1, <4>1 DEF Removed, Turning
        <5>4. ~Rotating
          BY <3>1 DEF Rotating
        <5>5. Doomed(e)
          BY <5>2, <5>3, <5>4, NotRotating DEF Doomed, Queued
        <5> QED BY <5>5, DoomedStays DEF EventsOrdered
      <4> QED BY <1>1, <4>2, <4>3, StaysExcused
    <3> QED BY <3>4, <3>5, <3>6
  <2>4. CASE heap'[e.arg].conn = heap[e.arg].conn
    BY <2>1, <2>4 DEF Current
  <2> QED BY <1>1, <2>2, <2>3, <2>4, ClientOfStep
<1> QED BY <1>2, <1>3, <1>4 DEF EventsCurrent

LEMMA CurrentStep ==
  ASSUME TypeInv, TypeInv', Links, EventsOrdered, EventsCurrent, ClosingFollows, [Next]_vars
  PROVE  EventsCurrent'
<1> SUFFICES ASSUME NEW e \in Events, Waits(e)'
             PROVE  /\ e.type = "ACCEPT" => Current(e)' /\ ~heap'[e.arg].hooked
                    /\ e.type \in Apps \union Ends => (Current(e) \/ Doomed(e) \/ Excused(e.pcb, DeletedExcuse))'
  BY DEF EventsCurrent
<1>1. CASE Waits(e)
  BY <1>1, AcceptsCurrent, OthersCurrent
<1>2. CASE lwip = NoEvent /\ e = lwip' /\ Peer
  BY <1>2, BroughtIsCurrent
<1>3. CASE Clear /\ e = Event("CLEAR", async.ev.arg, async.ev.pcb, 0)
  <2>1. e.type = "CLEAR"
    BY <1>3 DEF Event
  <2> QED BY <2>1 DEF Apps, Ends
<1> QED BY <1>1, <1>2, <1>3, WaitsOfStep

LEMMA ClosingFrom ==
  ASSUME TypeInv, Moves, IsClosing'
  PROVE  \/ IsClosing /\ async.at \notin {"unrecv", "clear"} /\ async'.at \notin {"unrecv", "clear"}
         \/ async.at = "unhook" /\ async'.at = "unrecv"
         \/ IsClosing /\ async.at = "unrecv" /\ async'.at = "clear"
<1>1. /\ async.at \in Calling /\ async.back = "discard" => async.call \in {"close", "abort"}
      /\ async.back \in {"get", "ack", "check", "discard"}
  BY DEF TypeInv, Registers, AsyncTask
<1>2. CASE MovesApp
  BY <1>2 DEF MovesApp, IsClosing, Closing, Calling
<1>3. CASE MovesCall
  BY <1>1, <1>3 DEF MovesCall, IsClosing, Closing, Calling
<1>4. CASE MovesAck
  BY <1>4 DEF MovesAck, IsClosing, Closing, Calling
<1>5. CASE MovesClose
  BY <1>5 DEF MovesClose, IsClosing, Closing, Calling
<1> QED BY <1>2, <1>3, <1>4, <1>5 DEF Moves

LEMMA NotClosingThen == ASSUME IsClosing' PROVE async'.at \notin {"get", "ack", "app", "check", "unhook"} \union Turning
BY DEF IsClosing, Closing, Calling, Turning

\* The task comes to an event that closes its client only for the end of a connection.
LEMMA TakenToClose ==
  ASSUME TypeInv, Take, Shuts'
  PROVE  async'.ev = queue[1] /\ queue[1] \in Events /\ async'.ev.type \in Ends /\ async'.at \in {"clear", "discard"}
         /\ (async'.at = "discard" => async'.ev.type = "ERROR")
<1>1. CASE async' = Idle
  BY <1>1, IdleIs DEF Shuts, IsClosing, Closing, Calling
<1>2. CASE async' # Idle
  <2>1. PICK point \in {"app", "ack", "clear", "discard", "first"} :
              TakesTo(queue[1], point) /\ async'.at = point /\ async'.ev = queue[1]
    BY <1>2, TakeGoes
  <2>2. point \in {"clear", "discard"}
    BY <2>1 DEF Shuts, IsClosing, Closing, Calling
  <2> QED BY <2>1, <2>2, TakeDoes DEF TakesTo, Ends
<1> QED BY <1>1, <1>2

LEMMA ClosingClears ==
  ASSUME TypeInv, TypeInv', ClearsFirst, ClosingFollows, [Next]_vars,
         IsClosing', async'.at \notin {"unrecv", "clear"}, async'.ev.type # "ERROR"
  PROVE  IsCleared(async.ev.arg)'
<1>1. CASE async.at # "get" /\ async'.ev = async.ev /\ IsClosing /\ async.at \notin {"unrecv", "clear"}
  <2>1. IsCleared(async.ev.arg) /\ async.at \notin Turning /\ ~Take
    BY <1>1 DEF ClosingFollows, IsClosing, Closing, Calling, Turning, Take
  <2>2. PICK a : a = async.ev.arg
    OBVIOUS
  <2>3. IsCleared(a)'
    BY <2>1, <2>2, ClearedStays
  <2> QED BY <1>1, <2>2, <2>3 DEF IsCleared
<1>2. CASE Take
  BY <1>2, TakenToClose DEF Shuts
<1>3. CASE Clear
  <2>1. /\ queue'[1] = Event("CLEAR", async.ev.arg, async.ev.pcb, 0) /\ Len(queue) \in Nat /\ Len(queue') = Len(queue) + 1
        /\ async'.ev = async.ev
    BY <1>3, ClearDoes, ClearLeads
  <2>2. 1 \in 1..Len(queue')
    BY SMT, <2>1
  <2>3. queue'[1].type = "CLEAR" /\ queue'[1].arg = async.ev.arg
    BY <2>1 DEF Event
  <2> QED BY <2>1, <2>2, <2>3 DEF IsCleared
<1>4. CASE async' = async
  <2>1. IsClosing
    BY <1>4 DEF IsClosing
  <2>2. async.at # "get"
    BY <2>1 DEF IsClosing, Closing, Calling
  <2> QED BY <1>1, <1>4, <2>1, <2>2
<1>5. CASE Moves
  <2>1. IsClosing /\ async.at \notin {"unrecv", "clear"} /\ async'.ev = async.ev
    BY <1>5, ClosingFrom DEF Moves
  <2>2. async.at # "get"
    BY <2>1 DEF IsClosing, Closing, Calling
  <2> QED BY <1>1, <2>1, <2>2
<1> QED BY <1>2, <1>3, <1>4, <1>5, TaskMoves, NotClosingThen

LEMMA ClosingKeepsBlock ==
  ASSUME TypeInv, TypeInv', Links, EventsFit, ClosingFollows, [Next]_vars,
         IsClosing' \/ async'.at = "unhook", async'.ev.type \in Apps, heap'[async'.ev.arg].pcb = 0
  PROVE  "fin in _close" \in causes'[async'.ev.pcb]
<1>1. async'.at \notin {"get", "ack"} \union Turning
  BY NotClosingThen DEF Turning
<1>2. CASE (IsClosing \/ async.at = "unhook") /\ async'.ev = async.ev
  <2>1. HasClient /\ async.at # "get"
    BY <1>2 DEF HasClient, IsClosing, Closing, Calling, Turning
  <2>2. PICK a \in Addresses, q \in Conn : a = async.ev.arg /\ q = async.ev.pcb
    BY <2>1, EventOfTask
  <2>3. heap[a].conn = q
    BY <2>1, <2>2 DEF Links, TaskLinks
  <2>4. CASE heap[a].pcb = 0
    <3>1. "fin in _close" \in causes[q]
      BY <1>2, <2>2, <2>4 DEF ClosingFollows
    <3>2. causes[q] \subseteq causes'[q]
      BY GrowsStep DEF Grows
    <3> QED BY <1>2, <2>2, <3>1, <3>2
  <2>5. CASE heap[a].pcb # 0
    <3>1. heap'[a].pcb = 0
      BY <1>2, <2>2
    <3>2. ~Constructs(a)
      <4>1. \A p \in Conn : p # 0
        BY SMT DEF Conn
      <4> QED BY <3>1, <4>1 DEF Constructs
    <3>3. ~Discards(a)
      BY <1>1 DEF Discards
    <3>4. PICK p \in Conn : Fin(p) /\ a = conn[p].arg
      BY <2>5, <3>1, <3>2, <3>3, ClientOfStep DEF Ended
    <3>5. conn[p].arg # None /\ p = q
      BY <2>3, <3>4, FinDoes DEF Links, ClientLinks
    <3>6. ~IsClosing
      BY <2>2, <3>5 DEF Links, TaskLinks
    <3>7. InClose(p)
      BY <1>2, <2>2, <2>3, <3>5, <3>6 DEF InClose
    <3>8. Meets(p, {"fin in _close"})
      BY <3>4, <3>7, FinDoes
    <3> QED BY <1>2, <2>2, <3>5, <3>8 DEF Meets
  <2> QED BY <2>4, <2>5
<1>3. CASE Take
  <2>1. async'.at # "unhook" /\ Shuts'
    <3>1. CASE async' = Idle
      BY <1>1, <3>1, IdleIs
    <3>2. CASE async' # Idle
      BY <1>3, <3>2, TakeGoes DEF Shuts
    <3> QED BY <3>1, <3>2
  <2> QED BY <1>3, <2>1, TakenToClose DEF Apps, Ends
<1>4. CASE Clear
  BY <1>2, <1>4, ClearLeads DEF IsClosing, Closing
<1>5. CASE async' = async
  BY <1>2, <1>5 DEF IsClosing
<1>6. CASE Moves /\ IsClosing'
  BY <1>2, <1>6, ClosingFrom DEF Moves
<1>7. CASE Moves /\ async'.at = "unhook"
  <2>1. async.at = "check" /\ Client.pcb # 0 /\ async'.ev = async.ev
    <3>1. async.back # "unhook"
      BY DEF TypeInv, AsyncTask
    <3> QED BY <1>7, <3>1 DEF Moves, MovesApp, MovesCall, MovesAck, MovesClose
  <2>2. PICK a \in Addresses : a = async.ev.arg
    BY <2>1, EventOfTask
  <2>3. heap[a].pcb # 0 /\ heap'[a].pcb = 0
    BY <2>1, <2>2 DEF Client
  <2>4. ~Accept /\ ~(\E p \in Conn : Fin(p))
    BY <1>7, <2>1, PeerStill DEF Peer
  <2>5. ~Constructs(a) /\ ~Ended(a) /\ ~Discards(a)
    BY <2>1, <2>4 DEF Constructs, Ended, Discards
  <2> QED BY <2>3, <2>5, ClientOfStep
<1> QED BY <1>1, <1>3, <1>4, <1>5, <1>6, <1>7, TaskMoves

LEMMA ClosingCalls ==
  ASSUME TypeInv, TypeInv', ClosingFollows, [Next]_vars, IsClosing', async'.at \in Calling, async'.pcb = 0
  PROVE  "fin in _close" \in causes'[async'.ev.pcb]
<1>1. CASE "fin in _close" \in causes[async.ev.pcb] /\ async'.ev = async.ev /\ async.at # "get"
  <2>1. PICK q \in Conn : q = async.ev.pcb
    BY <1>1, EventOfTask
  <2>2. causes[q] \subseteq causes'[q]
    BY GrowsStep DEF Grows
  <2> QED BY <1>1, <2>1, <2>2
<1>2. CASE async' = async
  <2>1. IsClosing /\ async.at \in Calling /\ async.pcb = 0 /\ async.at # "get"
    BY <1>2 DEF IsClosing, Calling
  <2>2. "fin in _close" \in causes[async.ev.pcb]
    BY <2>1 DEF ClosingFollows
  <2> QED BY <1>1, <1>2, <2>1, <2>2
<1>3. CASE Moves
  <2>1. async.back \in {"get", "ack", "check", "discard"}
    BY DEF TypeInv, AsyncTask
  <2>2. async.at = "close" /\ Client.pcb = 0 /\ async'.ev = async.ev
    <3>1. ~MovesApp
      BY DEF MovesApp, IsClosing, Closing, Calling
    <3>2. ~MovesAck
      BY DEF MovesAck, IsClosing, Closing, Calling
    <3>3. ~MovesCall
      BY <2>1 DEF MovesCall, IsClosing, Closing, Calling
    <3> QED BY <1>3, <3>1, <3>2, <3>3 DEF Moves, MovesClose, Calling
  <2>3. async.ev.type \in Apps /\ Client = heap[async.ev.arg]
    BY <2>2, EventOfTask DEF Fits, Turning
  <2>4. "fin in _close" \in causes[async.ev.pcb]
    BY <2>2, <2>3 DEF ClosingFollows, IsClosing, Closing
  <2> QED BY <1>1, <2>2, <2>4
<1>4. CASE Take
  BY <1>4, TakenToClose DEF Shuts, Calling
<1>5. CASE Clear
  BY <1>5, ClearLeads DEF Calling
<1>6. async'.at \notin {"get"} \union Turning
  BY DEF Calling, Turning
<1> QED BY <1>2, <1>3, <1>4, <1>5, <1>6, TaskMoves

\* While a client is closed, lwIP brings nothing more of its connection.
LEMMA PeerBringsOther ==
  ASSUME TypeInv, Links, EventsFit, IsClosing, Peer
  PROVE  lwip'.pcb # async.ev.pcb
<1>1. /\ async.ev \in Events /\ async.ev.pcb \in Conn /\ async.ev.pcb # 0
      /\ conn[async.ev.pcb].arg = None /\ conn[async.ev.pcb].state # "new"
  <2>1. async.at # "get"
    BY DEF IsClosing, Closing, Calling
  <2>2. async.ev \in Events
    BY <2>1, EventOfTask
  <2> QED BY <2>2, EventParts DEF Links, TaskLinks, EventsFit, EventFits
<1>2. CASE Accept
  <2>1. PICK p \in Conn, a \in Addresses, s \in NoSlot..(Slots - 1) : Accepted(p, a, s)
    BY <1>2, AcceptDoes
  <2>2. conn[p].state = "new" /\ lwip' = Event("ACCEPT", a, p, 0)
    BY <2>1 DEF Accepted
  <2>3. lwip'.pcb = p
    BY <2>2 DEF Event
  <2> QED BY <1>1, <2>2, <2>3
<1>3. ASSUME NEW p \in Conn, NEW type, NEW n, conn[p].arg # None, lwip' = Event(type, conn[p].arg, p, n)
      PROVE  lwip'.pcb # async.ev.pcb
  <2>1. lwip'.pcb = p
    BY <1>3 DEF Event
  <2> QED BY <1>1, <1>3, <2>1
<1>4. ASSUME NEW p \in Conn, Receive(p) PROVE lwip'.pcb # async.ev.pcb
  <2>1. conn[p].arg # None
    BY <1>4 DEF Receive, Callback
  <2> QED BY <1>3, <1>4, <2>1, ReceiveDoes
<1>5. ASSUME NEW p \in Conn, Poll(p) \/ Sent(p) PROVE lwip'.pcb # async.ev.pcb
  <2>1. PICK type \in {"POLL", "SENT"} : Tick(p, type)
    BY <1>5 DEF Poll, Sent
  <2>2. conn[p].arg # None /\ lwip' = Event(type, conn[p].arg, p, traffic + 1)
    BY <2>1 DEF Tick, Callback
  <2> QED BY <1>3, <2>2
<1>6. ASSUME NEW p \in Conn, Fin(p) PROVE lwip'.pcb # async.ev.pcb
  BY <1>3, <1>6, FinDoes, ZenonT(60)
<1>7. ASSUME NEW p \in Conn, Ceases(p) PROVE lwip'.pcb # async.ev.pcb
  <2>1. CASE lwip' = NoEvent
    BY <1>1, <2>1, NoEventParts
  <2>2. CASE lwip' # NoEvent
    <3>1. conn[p].arg \in Addresses => conn[p].arg # None
      BY AddressAssumption DEF None
    <3> QED BY <1>3, <1>7, <2>2, <3>1, CeasesDoes
  <2> QED BY <2>1, <2>2
<1> QED BY <1>2, <1>4, <1>5, <1>6, <1>7 DEF Peer, Ceases

LEMMA ClosingIsLast ==
  ASSUME TypeInv, TypeInv', Links, EventsFit, EventsOrdered', ClosingFollows, [Next]_vars, Drops'
  PROVE  lwip'.pcb # async'.ev.pcb \/ Excused(async.ev.pcb, DeletedExcuse)'
<1>1. async'.at \notin {"get", "unrecv", "clear"} \union Turning /\ Shuts' /\ IsClosing'
  <2>1. async'.at \in Calling /\ async'.call = "abort" => IsClosing'
    BY DEF IsClosing
  <2> QED BY <2>1 DEF Drops, IsClosing, Shuts, Closing, Calling, Turning
<1>2. async'.ev \in Events /\ async'.ev.pcb \in Conn /\ async'.ev.pcb # 0 /\ NoEvent.pcb = 0
  <2>1. async'.ev \in Events
    BY <1>1 DEF TypeInv, Registers
  <2> QED BY <2>1, EventParts, NoEventParts
<1>3. CASE async'.ev.type \in Ends
  <2>1. CASE lwip' = NoEvent
    BY <1>2, <2>1
  <2>2. CASE lwip' # NoEvent
    <3>1. PICK f \in Events : f = lwip'
      BY <2>2 DEF TypeInv, OrNone
    <3>2. Waits(f)' /\ f.type # "CLEAR"
      BY <3>1 DEF Waits, EventsOrdered, ClearsFirst
    <3>3. f.pcb = async'.ev.pcb => "rotation" \in causes'[async'.ev.pcb]
      BY <1>3, <3>2 DEF EventsOrdered, EndIsLast
    <3>4. "rotation" \in causes'[async'.ev.pcb] => Excused(async.ev.pcb, DeletedExcuse)'
      BY Zenon DEF Excused, DeletedExcuse
    <3> QED BY <3>1, <3>3, <3>4
  <2> QED BY <2>1, <2>2
<1>4. ASSUME Drops, async.at # "get", async'.ev = async.ev, lwip' = lwip \/ lwip' = NoEvent
      PROVE  lwip'.pcb # async'.ev.pcb \/ Excused(async.ev.pcb, DeletedExcuse)'
  <2>1. PICK q \in Conn : q = async.ev.pcb
    BY <1>4, EventOfTask
  <2>2. CASE Excused(q, DeletedExcuse)
    <3>1. Excused(q, DeletedExcuse)'
      BY <2>2, StaysExcused
    <3> QED BY <1>4, <2>1, <3>1 DEF Excused
  <2>3. CASE lwip.pcb # async.ev.pcb
    BY <1>2, <1>4, <2>3
  <2> QED BY <1>4, <2>1, <2>2, <2>3 DEF ClosingFollows
<1>5. CASE async' = async
  <2>1. Drops /\ IsClosing /\ async.at # "get"
    BY <1>1, <1>5 DEF Drops, IsClosing
  <2>2. CASE Peer
    BY <1>5, <2>1, <2>2, PeerBringsOther
  <2>3. CASE Post
    BY <1>4, <1>5, <2>1, <2>3, PostDoes
  <2>4. CASE Still
    BY <1>4, <1>5, <2>1, <2>4 DEF Still
  <2>5. ~Take /\ ~Clear /\ ~TurnFirst /\ ~TurnNext /\ ~PutBack
    BY <1>1, <1>5 DEF Take, Clear, TurnFirst, TurnNext, PutBack, Turning
  <2> QED BY <2>2, <2>3, <2>4, <2>5, StillSteps
<1>6. CASE Take
  BY <1>1, <1>3, <1>6, TakenToClose
<1>7. CASE Clear
  <2>1. async'.at = "discard" /\ async'.ev = async.ev
    BY <1>1, <1>7, ClearLeads DEF Drops, Calling
  <2>2. async.ev.type = "FIN"
    <3>1. Go(AfterClear) /\ AfterClear = (IF async.ev.type = "FIN" THEN "discard" ELSE "close") /\ async \in AsyncTask
      BY <1>7, ClearDoes DEF TypeInv
    <3>2. {"discard", "close"} \subseteq Points
      BY DEF Points, Closing
    <3>3. async'.at = AfterClear
      BY <3>1, <3>2, GoDoes
    <3> QED BY <2>1, <3>1, <3>3
  <2> QED BY <1>3, <2>1, <2>2 DEF Ends
<1>8. CASE Moves
  <2>1. async'.ev = async.ev /\ lwip' = lwip /\ IsClosing /\ async.at # "get"
    <3>1. async'.ev = async.ev /\ lwip' = lwip
      BY <1>8 DEF Moves, Still
    <3>2. IsClosing
      BY <1>1, <1>8, ClosingFrom
    <3> QED BY <3>1, <3>2 DEF IsClosing, Closing, Calling
  <2>2. CASE Drops
    BY <1>4, <2>1, <2>2
  <2>3. CASE lwip = NoEvent
    BY <1>2, <2>1, <2>3
  <2>4. CASE async.at = "slot" /\ async.pcb = 0
    <3>1. "fin in _close" \in causes[async.ev.pcb]
      BY <2>1, <2>4 DEF ClosingFollows, Calling
    <3>2. PICK q \in Conn : q = async.ev.pcb
      BY <1>2, <2>1
    <3>3. Excused(q, DeletedExcuse)
      BY <3>1, <3>2, Zenon DEF Excused, DeletedExcuse
    <3>4. Excused(q, DeletedExcuse)'
      BY <3>3, StaysExcused
    <3> QED BY <2>1, <3>2, <3>4 DEF Excused
  <2>5. Drops \/ lwip = NoEvent \/ (async.at = "slot" /\ async.pcb = 0)
    <3>1. CASE MovesApp
      BY <3>1 DEF MovesApp, Drops, Calling
    <3>2. CASE MovesAck
      BY <3>2 DEF MovesAck, Drops, Calling
    <3>3. CASE MovesCall
      BY <3>3 DEF MovesCall, Drops, Calling
    <3>4. CASE MovesClose
      BY <3>4 DEF MovesClose, Drops, Calling
    <3> QED BY <1>8, <3>1, <3>2, <3>3, <3>4 DEF Moves
  <2> QED BY <2>2, <2>3, <2>4, <2>5
<1> QED BY <1>1, <1>5, <1>6, <1>7, <1>8, TaskMoves

LEMMA ClosesInData ==
  ASSUME TypeInv, TypeInv', ClosingFollows, [Next]_vars, Shuts', async'.ev.type = "RECV"
  PROVE  "closed in onData" \in causes'[async'.ev.pcb]
<1>1. ASSUME Shuts, async'.ev = async.ev PROVE "closed in onData" \in causes'[async'.ev.pcb]
  <2>1. async.at # "get"
    BY <1>1 DEF Shuts, IsClosing, Closing, Calling
  <2>2. PICK q \in Conn : q = async.ev.pcb
    BY <2>1, EventOfTask
  <2>3. "closed in onData" \in causes[q]
    BY <1>1, <2>2 DEF ClosingFollows
  <2>4. causes[q] \subseteq causes'[q]
    BY GrowsStep DEF Grows
  <2> QED BY <1>1, <2>2, <2>3, <2>4
<1>2. CASE async' = async
  BY <1>1, <1>2 DEF Shuts, IsClosing
<1>3. CASE Take
  BY <1>3, TakenToClose DEF Ends
<1>4. CASE Clear
  BY <1>1, <1>4, ClearLeads DEF Shuts, IsClosing, Closing
<1>5. CASE Moves
  <2>1. async'.ev = async.ev
    BY <1>5 DEF Moves
  <2>2. CASE AppCloses
    <3>1. async.ev \in Events /\ async.ev.pcb \in Conn
      BY <2>2, EventOfTask DEF AppCloses
    <3>2. Cause(async.ev.pcb, {"closed in onData"})
      BY <2>1, <2>2 DEF AppCloses
    <3>3. {"closed in onData"} \in SUBSET Causes
      BY Zenon DEF Causes
    <3>4. Meets(async.ev.pcb, {"closed in onData"})
      BY <3>2, <3>3, CauseMeets
    <3> QED BY <2>1, <3>1, <3>4 DEF Meets
  <2>3. CASE ~AppCloses
    <3>1. Shuts
      <4>1. async.at \in Calling /\ async.back = "discard" => async.call \in {"close", "abort"}
        BY DEF TypeInv, Registers
      <4>2. async.back \in {"get", "ack", "check", "discard"}
        BY DEF TypeInv, AsyncTask
      <4>3. CASE MovesApp
        BY <2>3, <4>3 DEF MovesApp, Shuts, IsClosing, Closing, Calling
      <4>4. CASE MovesAck
        BY <4>4 DEF MovesAck, Shuts, IsClosing, Closing, Calling
      <4>5. CASE MovesCall
        BY <4>1, <4>2, <4>5 DEF MovesCall, Shuts, IsClosing, Closing, Calling
      <4>6. CASE MovesClose
        BY <4>6 DEF MovesClose, Shuts, IsClosing, Closing, Calling
      <4> QED BY <1>5, <4>3, <4>4, <4>5, <4>6 DEF Moves
    <3> QED BY <1>1, <2>1, <3>1
  <2> QED BY <2>2, <2>3
<1>6. async'.at \notin {"get"} \union Turning
  BY DEF Shuts, IsClosing, Closing, Calling, Turning
<1> QED BY <1>2, <1>3, <1>4, <1>5, <1>6, TaskMoves

\* _recv comes back from onData to its client, or the application closed it there.
LEMMA AcksCurrent ==
  ASSUME TypeInv, TypeInv', Links, ClosingFollows, [Next]_vars, async'.at = "ack"
  PROVE  Current(async.ev)' \/ "closed in onData" \in causes'[async'.ev.pcb]
<1>1. ASSUME "closed in onData" \in causes[async.ev.pcb], async'.ev = async.ev, async.at # "get"
      PROVE  "closed in onData" \in causes'[async'.ev.pcb]
  <2>1. PICK q \in Conn : q = async.ev.pcb
    BY <1>1, EventOfTask
  <2>2. causes[q] \subseteq causes'[q]
    BY GrowsStep DEF Grows
  <2> QED BY <1>1, <2>1, <2>2
<1>2. ASSUME heap[async.ev.arg].conn = async.ev.pcb, async'.ev = async.ev, async.at \notin {"get", "discard"}
      PROVE  Current(async.ev)'
  <2>1. PICK a \in Addresses, q \in Conn : a = async.ev.arg /\ q = async.ev.pcb
    BY <1>2, EventOfTask
  <2>2. q # 0
    BY SMT DEF Conn
  <2>3. ~Constructs(a) /\ ~Discards(a)
    BY <1>2, <2>1, <2>2 DEF Constructs, Discards
  <2>4. heap'[a].conn = heap[a].conn
    BY <2>3, ClientOfStep
  <2> QED BY <1>2, <2>1, <2>4 DEF Current
<1>3. CASE async' = async
  <2>1. Current(async.ev) \/ "closed in onData" \in causes[async.ev.pcb]
    BY <1>3 DEF ClosingFollows
  <2>2. CASE heap[async.ev.arg].conn = async.ev.pcb
    BY <1>2, <1>3, <2>2
  <2>3. CASE "closed in onData" \in causes[async.ev.pcb]
    BY <1>1, <1>3, <2>3
  <2> QED BY <2>1, <2>2, <2>3 DEF Current
<1>4. CASE Take
  <2>1. async'.at # "get"
    OBVIOUS
  <2>2. TakesTo(queue[1], "ack") /\ TakesFrom(queue[1]) /\ async'.ev = queue[1]
    BY <1>4, <2>1, TakeGoes, IdleIs
  <2>3. PICK e \in Events : e = queue[1]
    BY <1>4, TakeDoes
  <2>4. heap[e.arg].conn = e.pcb /\ e.arg \in Addresses
    BY <2>2, <2>3, EventParts DEF TakesTo, TakesFrom
  <2>5. heap'[e.arg].conn = e.pcb
    BY <1>4, <2>4, TakeHooks
  <2> QED BY <2>2, <2>3, <2>5 DEF Current
<1>5. CASE Clear
  BY <1>5, ClearLeads
<1>6. CASE Moves
  <2>1. async'.ev = async.ev
    BY <1>6 DEF Moves
  <2>2. CASE async.at = "discard"
    <3>1. async.ev.type = "RECV" /\ Shuts
      BY <1>6, <2>2 DEF Moves, MovesApp, MovesCall, MovesAck, MovesClose, Calling, Shuts, IsClosing, Closing
    <3>2. "closed in onData" \in causes[async.ev.pcb]
      BY <3>1 DEF ClosingFollows
    <3> QED BY <1>1, <2>1, <2>2, <3>2
  <2>3. CASE async.at # "discard"
    <3>1. HasClient
      BY <1>6 DEF Moves, MovesApp, MovesCall, MovesAck, MovesClose, Calling, HasClient, Turning
    <3>2. heap[async.ev.arg].conn = async.ev.pcb /\ async.at # "get"
      BY <3>1 DEF Links, TaskLinks, HasClient
    <3> QED BY <1>2, <2>1, <2>3, <3>2
  <2> QED BY <2>2, <2>3
<1> QED BY <1>3, <1>4, <1>5, <1>6, TaskMoves DEF Turning

LEMMA ClosingStep ==
  ASSUME TypeInv, TypeInv', Links, EventsFit, EventsOrdered, ClosingFollows, [Next]_vars
  PROVE  ClosingFollows'
<1>1. EventsOrdered'
  BY OrderedStep
<1>2. ASSUME IsClosing', async'.at \notin {"unrecv", "clear"}, async'.ev.type # "ERROR" PROVE IsCleared(async.ev.arg)'
  BY <1>2, ClosingClears DEF EventsOrdered
<1>3. ASSUME IsClosing' \/ async'.at = "unhook", async'.ev.type \in Apps, heap'[async'.ev.arg].pcb = 0
      PROVE  "fin in _close" \in causes'[async'.ev.pcb]
  BY <1>3, ClosingKeepsBlock
<1>4. ASSUME IsClosing', async'.at \in Calling, async'.pcb = 0 PROVE "fin in _close" \in causes'[async'.ev.pcb]
  BY <1>4, ClosingCalls
<1>5. ASSUME Drops' PROVE lwip'.pcb # async'.ev.pcb \/ Excused(async.ev.pcb, DeletedExcuse)'
  BY <1>1, <1>5, ClosingIsLast
<1>6. ASSUME Shuts', async'.ev.type = "RECV" PROVE "closed in onData" \in causes'[async'.ev.pcb]
  BY <1>6, ClosesInData
<1>7. ASSUME async'.at = "ack" PROVE Current(async.ev)' \/ "closed in onData" \in causes'[async'.ev.pcb]
  BY <1>7, AcksCurrent
<1> QED BY <1>2, <1>3, <1>4, <1>5, <1>6, <1>7 DEF ClosingFollows

\* The task takes no event of a client that is no more, but for the races named.
LEMMA TakesWhatIsThere ==
  ASSUME TypeInv, EventsOrdered, EventsCurrent, Take, ~TakesFrom(queue[1])
  PROVE  Excused(queue[1].pcb, DeletedExcuse)
<1>1. PICK e \in Events : e = queue[1]
  BY TakeDoes
<1>2. Waits(e) /\ async.at = "get"
  BY <1>1, TakeDoes DEF Waits, Queued
<1>3. e.type # "CLEAR" /\ ~Current(e)
  BY <1>1 DEF TakesFrom, Current
<1>4. ~Doomed(e)
  <2> SUFFICES ASSUME Doomed(e) PROVE FALSE
    OBVIOUS
  <2>1. IsCleared(e.arg)
    BY <1>2 DEF Doomed, Removed, Turning
  <2>2. PICK k \in 1..Len(queue) : queue[k].type = "CLEAR" /\ queue[k].arg = e.arg
    BY <2>1 DEF IsCleared
  <2>3. queue[1].type = "ACCEPT"
    BY <1>1, <1>3, <2>2, HeadOfCleared DEF EventsOrdered
  <2> QED BY <1>1, <1>2, <1>3, <2>3 DEF EventsCurrent
<1>5. e.type \in Apps \union Ends \/ e.type = "ACCEPT"
  BY <1>3, EventParts
<1> QED BY <1>1, <1>2, <1>3, <1>4, <1>5 DEF EventsCurrent

LEMMA DeletedAloneStep ==
  ASSUME TypeInv, TypeInv', EventsOrdered, DeletedFollows, [Next]_vars
  PROVE  DeletedClientsAreLeftAlone'
<1> SUFFICES ASSUME NEW q \in Conn, "client" \in mishaps'[q] PROVE Excused(q, DeletedExcuse)'
  BY DEF DeletedClientsAreLeftAlone, DeletedExcuse
<1>1. CASE Excused(q, DeletedExcuse)
  BY <1>1, StaysExcused
<1>2. CASE "client" \in mishaps[q]
  BY <1>1, <1>2 DEF DeletedFollows, DeletedClientsAreLeftAlone, DeletedExcuse
<1>3. CASE Take
  BY <1>1, <1>2, <1>3, TakeDelivers, TakesWhatIsThere DEF DeletedFollows
<1>4. CASE Ack
  <2>1. async.at = "ack" /\ Mishap(async.ev.pcb, IF Deleted THEN {"client"} ELSE {})
    BY <1>4, Zenon DEF Ack
  <2> DEFINE what == IF Deleted THEN {"client"} ELSE {}
  <2>2. what \in SUBSET {"pcb", "client"}
    BY Zenon
  <2>3. mishaps \in [Conn -> SUBSET {"pcb", "client"}] /\ Mishap(async.ev.pcb, what)
    BY <2>1 DEF TypeInv
  <2>4. mishaps'[q] = mishaps[q] \union IF q = async.ev.pcb THEN what ELSE {}
    BY <2>2, <2>3, MishapDoes
  <2>5. CASE "client" \notin mishaps[q]
    <3>1. q = async.ev.pcb /\ Deleted
      BY <2>4, <2>5
    <3>2. async.ev.arg \in Addresses /\ Client = heap[async.ev.arg]
      BY <2>1, EventOfTask
    <3>3. ~Current(async.ev)
      BY <3>1, <3>2 DEF Deleted, Current
    <3>4. "closed in onData" \in causes[q]
      BY <2>1, <3>1, <3>3 DEF DeletedFollows, ClosingFollows
    <3>5. Excused(q, DeletedExcuse)
      BY <3>4, Zenon DEF Excused, DeletedExcuse
    <3> QED BY <1>1, <3>5
  <2> QED BY <1>2, <2>5
<1>5. CASE Serve
  BY <1>2, <1>5, ServeEffects
<1>6. CASE Unhook
  BY <1>2, <1>6, UnhookDoes
<1>7. CASE Discard
  BY <1>2, <1>7, DiscardDoes
<1>8. CASE UNCHANGED mishaps
  BY <1>2, <1>8
<1>9. CASE \E p \in Conn : Ceases(p)
  <2>1. "client" \in mishaps[q] \/ "fin unhooked" \in causes'[q]
    BY <1>9, CeasesMishaps
  <2>2. "fin unhooked" \in causes'[q] => Excused(q, DeletedExcuse)'
    BY Zenon DEF Excused, DeletedExcuse
  <2> QED BY <1>2, <2>1, <2>2
<1>10. ~Take /\ ~Ack /\ ~Serve /\ ~Unhook /\ ~Discard /\ ~(\E p \in Conn : Ceases(p)) => UNCHANGED mishaps
  BY Zenon DEF Next, Peer, Ceases, Task, vars, history, Begin, End, Post, Accept, Receive, Poll, Sent, Tick, Fin, Reset,
     AppReturns, AppWrites, AppCloses, ReadSlot, Check, Clear, Close, Abort, TurnFirst, TurnNext, PutBack
<1> QED BY <1>3, <1>4, <1>5, <1>6, <1>7, <1>8, <1>9, <1>10

LEMMA DeletedStep ==
  ASSUME TypeInv, TypeInv', Links, EventsFit, EventsOrdered, DeletedFollows, [Next]_vars
  PROVE  DeletedFollows'
BY CurrentStep, ClosingStep, DeletedAloneStep DEF DeletedFollows

LEMMA StartsOrdered == Init => EventsOrdered /\ DeletedFollows
<1> SUFFICES ASSUME Init PROVE EventsOrdered /\ DeletedFollows
  OBVIOUS
<1>1. async = Idle /\ lwip = NoEvent /\ Len(queue) = 0 /\ \A p \in Conn : mishaps[p] = {}
  BY EmptySeq DEF Init
<1>2. async.at = "get" /\ async.ev = NoEvent /\ async.held = NoEvent /\ 1..Len(queue) = {}
  <2>1. 1..Len(queue) = {}
    BY SMT, <1>1
  <2> QED BY <1>1, <2>1, IdleIs
<1>3. \A e \in Events : ~Waits(e) /\ \A f \in Events : ~Ahead(e, f)
  <2>1. \A e \in Events : e # NoEvent
    BY EventParts
  <2> QED BY <1>1, <1>2, <2>1 DEF Waits, Ahead
<1>4. ~Rotating /\ NoEvent.type \notin Apps \union Ends \union {"ACCEPT", "CLEAR"}
  BY <1>2, NoEventParts DEF Rotating
<1>5. EventsOrdered
  BY <1>1, <1>2, <1>3, <1>4 DEF EventsOrdered, Unique, ClearsFirst, EndIsLast
<1>6. ~IsClosing /\ ~Drops /\ ~Shuts /\ async.at \notin {"ack", "unhook"}
  BY <1>2 DEF IsClosing, Drops, Shuts, Closing, Calling
<1>7. DeletedFollows
  BY <1>1, <1>3, <1>6 DEF DeletedFollows, EventsCurrent, ClosingFollows, DeletedClientsAreLeftAlone
<1> QED BY <1>5, <1>7

-----------------------------------------------------------------------------
(* Data.                                                                   *)

OrderExcuse == {"rotation", "address reused"}
Data(e, p) == e.type = "RECV" /\ e.pcb = p

\* An event names the address of its connection's client.
ArgsFit == \A e \in Events : Waits(e) \/ e = async.ev => \A a \in Addresses : heap[a].conn = e.pcb => a = e.arg

\* What was received waits in order, from the first that was not delivered.
DataOrdered(p) ==
  /\ GivenInOrder(p)
  /\ Len(delivered[p]) <= conn[p].rx
  /\ \A e \in Events : Waits(e) /\ Data(e, p) => e.n > Len(delivered[p])
  /\ \A e, f \in Events : Data(e, p) /\ Data(f, p) /\ Ahead(e, f) => e.n < f.n

\* The request of a client is not there: the event that brings it comes first.
AcceptIsFirst(p) ==
  \E g \in Events : /\ Waits(g) /\ g.type = "ACCEPT" /\ g.pcb = p
                    /\ \A f \in Events : f.pcb = p /\ f # g => ~Ahead(f, g)

\* The events of a client are removed only when it is closed, and are all there
\* until then.
ClosesClient(a) == IsClosing /\ async.ev.arg = a
ClientFollows(a, p) ==
  /\ IsCleared(a) => ClosesClient(a)
  /\ async.at \in Turning => async.ev.arg # a
  /\ \/ ClosesClient(a)
     \/ \A n \in 1..conn[p].rx : n > Len(delivered[p]) => \E e \in Events : Waits(e) /\ Data(e, p) /\ e.n = n
  /\ heap[a].hooked \/ AcceptIsFirst(p)
  /\ (HasClient \/ async.at = "ack") /\ async.ev.pcb = p => heap[a].hooked

DataFollows ==
  \A p \in Conn :
    /\ conn[p].state = "new" => conn[p].rx = 0
    /\ ~Excused(p, OrderExcuse) =>
         DataOrdered(p) /\ \A a \in Addresses : heap[a].conn = p => ClientFollows(a, p)

-----------------------------------------------------------------------------
(* What a step does to the data.                                           *)

LEMMA DataOfStep ==
  ASSUME TypeInv, [Next]_vars, NEW p \in Conn
  PROVE  (conn'[p].rx = conn[p].rx \/ Receive(p)) /\ (delivered' = delivered \/ Take)
<1>1. CASE Accept
  <2>1. PICK q \in Conn, a \in Addresses, s \in NoSlot..(Slots - 1) : Accepted(q, a, s)
    BY <1>1, AcceptDoes
  <2>2. conn'[p].rx = conn[p].rx
    BY <2>1 DEF Accepted
  <2> QED BY <1>1, <2>2 DEF Accept
<1>2. ASSUME NEW q \in Conn, Receive(q) PROVE (conn'[p].rx = conn[p].rx \/ Receive(p)) /\ delivered' = delivered
  <2>1. delivered' = delivered
    BY <1>2 DEF Receive, history
  <2>2. p # q => conn'[p] = conn[p]
    BY <1>2, ReceiveDoes
  <2> QED BY <1>2, <2>1, <2>2
<1>3. ASSUME NEW q \in Conn, Fin(q) \/ Ceases(q) PROVE conn'[p].rx = conn[p].rx /\ delivered' = delivered
  <2>1. BlockCloses(q)
    BY <1>3, FinDoes, CeasesDoes
  <2> QED BY <1>3, <2>1 DEF BlockCloses, Fin, Ceases, Reset, FinUnhooked
<1>4. CASE Serve
  BY <1>4, ServeIs, ServeEffects
<1>5. CASE Unhook
  BY <1>5, UnhookDoes
<1>6. CASE UNCHANGED vars \/ Begin \/ End \/ Post
  BY <1>6 DEF vars, history, Begin, End, Post
<1>7. ASSUME NEW q \in Conn, Poll(q) \/ Sent(q) PROVE conn' = conn /\ delivered' = delivered
  BY <1>7 DEF Poll, Sent, Tick, history
<1>8. CASE Take
  BY <1>8 DEF Take, taskOnly
<1>9. CASE AppReturns \/ AppWrites \/ AppCloses \/ ReadSlot \/ Ack \/ Check \/ Clear \/ Close \/ Abort
  BY <1>9 DEF AppReturns, AppWrites, AppCloses, ReadSlot, Ack, Check, Clear, Close, Abort, taskOnly, history
<1>10. CASE Discard \/ TurnFirst \/ TurnNext \/ PutBack
  BY <1>10 DEF Discard, TurnFirst, TurnNext, PutBack, taskOnly, history
<1> QED BY <1>1, <1>2, <1>3, <1>4, <1>5, <1>6, <1>7, <1>8, <1>9, <1>10, Zenon DEF Next, Peer, Ceases, Task

\* Data for a client with its request is given to the application.
LEMMA TakeGives ==
  ASSUME TypeInv, Take, NEW e \in Events, e = queue[1], e.type = "RECV", heap[e.arg].conn = e.pcb, heap[e.arg].hooked
  PROVE  delivered'[e.pcb] = Append(delivered[e.pcb], e.n)
<1>1. Head(queue) = e
  BY TailQueue DEF Take, TypeInv
<1>2. ~(heap[e.arg].conn # e.pcb /\ e.type # "CLEAR")
  OBVIOUS
<1>3. delivered' = [delivered EXCEPT ![e.pcb] = Append(@, e.n)]
  BY <1>1, <1>2, Zenon DEF Take
<1>4. e.pcb \in Conn /\ delivered \in [Conn -> Seq(1..Traffic)]
  BY EventParts DEF TypeInv
<1> QED BY <1>3, <1>4

\* An event waits until the task takes it or the turning drops it.
LEMMA WaitsStays ==
  ASSUME TypeInv, TypeInv', [Next]_vars, NEW e \in Events, Waits(e)
  PROVE  \/ Waits(e)'
         \/ Take /\ e = queue[1]
         \/ async.at \in Turning /\ Matches(e)
<1>1. e # NoEvent /\ Len(queue) \in Nat
  BY EventParts, LenProperties DEF TypeInv
<1>2. ASSUME NEW i \in 1..Len(queue), queue[i] = e, e # queue[1], Taken PROVE Waits(e)'
  BY <1>2, TakenPlaces DEF Waits
<1>3. CASE Still \/ Peer
  <2>1. queue' = queue /\ (lwip' = lwip \/ lwip = NoEvent) /\ async'.held = async.held
    BY <1>3, PeerStill, StillHolds DEF Still
  <2> QED BY <1>1, <2>1 DEF Waits
<1>4. CASE Post
  <2>1. Len(queue') = Len(queue) + 1 /\ async' = async
    BY <1>4, PostPlaces
  <2>2. CASE e = lwip
    <3>1. 1 \in 1..Len(queue') /\ Len(queue) + 1 \in 1..Len(queue')
      BY SMT, <1>1, <2>1
    <3> QED BY <1>4, <2>2, <3>1, PostPlaces DEF Waits
  <2>3. ASSUME NEW i \in 1..Len(queue), queue[i] = e PROVE Waits(e)'
    <3>1. i \in 1..Len(queue') /\ i + 1 \in 2..Len(queue') /\ i + 1 \in 1..Len(queue') /\ (i + 1) - 1 = i
      BY SMT, <1>1, <2>1
    <3> QED BY <1>4, <2>3, <3>1, PostPlaces DEF Waits
  <2> QED BY <2>1, <2>2, <2>3 DEF Waits
<1>5. CASE Take
  BY <1>1, <1>2, <1>5, TakeLeads DEF Waits
<1>6. CASE Clear
  <2>1. /\ Len(queue') = Len(queue) + 1 /\ lwip' = lwip /\ async.held = NoEvent
        /\ \A i \in 2..Len(queue') : queue'[i] = queue[i - 1]
    BY <1>6, ClearDoes, ClearLeads
  <2>2. ASSUME NEW i \in 1..Len(queue), queue[i] = e PROVE Waits(e)'
    <3>1. i + 1 \in 2..Len(queue') /\ i + 1 \in 1..Len(queue') /\ (i + 1) - 1 = i
      BY SMT, <1>1, <2>1
    <3> QED BY <2>1, <2>2, <3>1 DEF Waits
  <2> QED BY <1>1, <2>1, <2>2 DEF Waits
<1>7. CASE PutBack
  <2>1. /\ Len(queue') = Len(queue) + 1 /\ lwip' = lwip /\ queue'[Len(queue) + 1] = async.held
        /\ \A i \in 1..Len(queue) : queue'[i] = queue[i]
    BY <1>7, PutBackDoes
  <2>2. Len(queue) + 1 \in 1..Len(queue') /\ \A i \in 1..Len(queue) : i \in 1..Len(queue')
    BY SMT, <1>1, <2>1
  <2> QED BY <2>1, <2>2 DEF Waits
<1>8. CASE TurnFirst \/ TurnNext
  <2>1. (TurnEnds \/ TurnDrops \/ TurnHolds) /\ async.at \in {"first", "rest"} /\ async.held = NoEvent /\ lwip' = lwip
    BY <1>8, TurnLeads
  <2>2. CASE TurnEnds
    BY <1>1, <2>1, <2>2 DEF TurnEnds, Waits
  <2>3. CASE TurnDrops
    BY <1>1, <1>2, <2>1, <2>3 DEF TurnDrops, Waits, Turning
  <2>4. CASE TurnHolds
    BY <1>1, <1>2, <2>1, <2>4 DEF TurnHolds, Holds, Waits
  <2> QED BY <2>1, <2>2, <2>3, <2>4
<1> QED BY <1>3, <1>4, <1>5, <1>6, <1>7, <1>8, StillSteps

\* A client is being closed until it is discarded.
LEMMA ClosingStays ==
  ASSUME TypeInv, TypeInv', IsClosing, [Next]_vars
  PROVE  (IsClosing' /\ async'.ev = async.ev) \/ Discard
<1>1. /\ async.at \in Closing \/ (async.at \in Calling /\ async.call \in {"close", "abort"} /\ async.back = "discard")
      /\ async \in AsyncTask
  BY DEF IsClosing, TypeInv, Registers
<1>2. ASSUME NEW point \in Closing, Go(point) PROVE IsClosing' /\ async'.ev = async.ev
  <2>1. async'.at = point /\ async'.ev = async.ev
    BY <1>1, <1>2, GoDoes DEF Points, Closing
  <2> QED BY <2>1 DEF IsClosing
<1>3. ASSUME NEW call \in {"close", "abort"}, NEW back, StartCall(call, back) PROVE IsClosing' /\ async'.ev = async.ev
  <2>1. async'.at = "slot" /\ async'.call = call /\ async'.ev = async.ev
    BY <1>1, <1>3 DEF StartCall, AsyncTask
  <2> QED BY <1>3, <2>1 DEF IsClosing, Calling
<1>4. CASE UNCHANGED vars \/ Begin \/ End \/ Peer \/ Post
  <2>1. async' = async
    BY <1>4, PeerStill DEF vars, Begin, End, Post
  <2> QED BY <2>1 DEF IsClosing
<1>5. CASE Serve
  <2>1. async.at = "call" /\ (Go("abort") \/ Go(async.back))
    BY <1>5, ServeIs, ServeGoes
  <2> QED BY <1>1, <1>2, <2>1 DEF Closing
<1>6. CASE ReadSlot
  <2>1. /\ async.at = "slot"
        /\ \/ Go(async.back)
           \/ async'.at = "call" /\ SameBut(async', async, {"at", "slot"})
    BY <1>1, <1>6, ReadSlotDoes
  <2>2. CASE Go(async.back)
    BY <1>1, <1>2, <2>1, <2>2 DEF Closing
  <2>3. CASE async'.at = "call" /\ SameBut(async', async, {"at", "slot"})
    BY <1>1, <2>1, <2>3 DEF IsClosing, Closing, Calling, SameBut
  <2> QED BY <2>1, <2>2, <2>3
<1>7. CASE Close \/ Abort
  <2>1. StartCall("close", "discard") \/ Go("discard") \/ StartCall("abort", "discard")
    BY <1>7, Zenon DEF Close, Abort
  <2> QED BY <1>2, <1>3, <2>1 DEF Closing
<1>8. CASE Clear \/ Unhook
  <2>1. CASE Clear
    BY <2>1, ClearLeads DEF IsClosing, Closing
  <2>2. CASE Unhook
    BY <1>2, <2>2, UnhookDoes DEF Closing
  <2> QED BY <1>8, <2>1, <2>2
<1>9. /\ ~AppReturns /\ ~AppWrites /\ ~AppCloses /\ ~Check /\ ~TurnFirst /\ ~TurnNext /\ ~PutBack
      /\ ~Ack /\ ~Take
  <2>1. async.at \notin {"app", "check", "first", "rest", "putfirst", "put", "ack", "get"}
    BY <1>1 DEF Calling, Closing
  <2> QED BY <2>1 DEF AppReturns, AppWrites, AppCloses, Check, TurnFirst, TurnNext, PutBack, Ack, Take
<1>10. \/ UNCHANGED vars \/ Begin \/ End \/ Peer \/ Post \/ Serve \/ ReadSlot \/ Close \/ Abort \/ Discard \/ Clear
       \/ Unhook
  BY <1>9 DEF Next, Task
<1> QED BY <1>4, <1>5, <1>6, <1>7, <1>8, <1>10

\* Only _tcp_clear_events brings a CLEAR.
LEMMA ClearedOfStep ==
  ASSUME TypeInv, TypeInv', ClearsFirst, [Next]_vars, NEW a, IsCleared(a)'
  PROVE  IsCleared(a) \/ (Clear /\ a = async.ev.arg)
<1>1. PICK i \in 1..Len(queue') : queue'[i].type = "CLEAR" /\ queue'[i].arg = a
  BY DEF IsCleared
<1>2. queue'[i] \in Events
  BY ElementOfSeq, LenProperties, SMT DEF TypeInv
<1>3. PICK f \in Events : f = queue'[i]
  BY <1>2
<1>4. Waits(f)' /\ f.type = "CLEAR" /\ f.arg = a
  BY <1>1, <1>3 DEF Waits
<1>5. CASE Waits(f)
  <2>1. f # lwip /\ f # async.held
    BY <1>4 DEF ClearsFirst
  <2> QED BY <1>4, <1>5, <2>1 DEF Waits, IsCleared
<1>6. CASE f = lwip' /\ Peer
  BY <1>4, <1>6, PeerBrings
<1>7. CASE Clear /\ f = Event("CLEAR", async.ev.arg, async.ev.pcb, 0)
  BY <1>4, <1>7 DEF Event
<1> QED BY <1>4, <1>5, <1>6, <1>7, WaitsOfStep

-----------------------------------------------------------------------------
(* The data stay in order.                                                 *)

\* The client of a connection was there, with its request, or is new.
Begins(a, p) ==
  /\ Accept /\ conn[p].state = "new" /\ heap[a].conn = 0 /\ heap'[a].hooked = FALSE /\ lwip' = Event("ACCEPT", a, p, 0)
  /\ Cleared(a) => "address reused" \in causes'[p]

LEMMA HadClient ==
  ASSUME TypeInv, [Next]_vars, NEW a \in Addresses, NEW p \in Conn, heap'[a].conn = p
  PROVE  \/ Begins(a, p)
         \/ /\ heap[a].conn = p /\ (heap[a].hooked => heap'[a].hooked)
            /\ heap[a].hooked => ~(Discard /\ async.ev.arg = a)
<1>1. p # 0
  BY SMT DEF Conn
<1>2. CASE Constructs(a)
  BY <1>2 DEF Constructs, Begins
<1>3. CASE Discards(a)
  BY <1>1, <1>3, NoClientIs DEF Discards
<1>4. CASE ~Constructs(a) /\ ~Discards(a)
  <2>1. heap'[a].conn = heap[a].conn /\ (heap'[a].hooked = heap[a].hooked \/ Hooks(a))
    BY <1>4, ClientOfStep
  <2>2. heap[a].hooked /\ Discard /\ async.ev.arg = a => FALSE
    <3> SUFFICES ASSUME heap[a].hooked, Discard, async.ev.arg = a PROVE FALSE
      OBVIOUS
    <3>1. Client.hooked
      BY EventOfTask DEF Discard
    <3>2. heap'[a] = NoClient
      BY <3>1, DiscardDoes DEF ClientBecomes
    <3> QED BY <1>1, <3>2, NoClientIs
  <2> QED BY <2>1, <2>2 DEF Hooks
<1> QED BY <1>2, <1>3, <1>4

LEMMA ArgsFitStep ==
  ASSUME TypeInv, TypeInv', Links, Links', EventsFit, ArgsFit, [Next]_vars
  PROVE  ArgsFit'
<1> SUFFICES ASSUME NEW e \in Events, Waits(e)' \/ e = async'.ev, NEW a \in Addresses, heap'[a].conn = e.pcb
             PROVE  a = e.arg
  BY DEF ArgsFit
<1>1. e.pcb \in Conn /\ e.pcb # 0 /\ e.arg \in Addresses
  BY EventParts
<1>2. CASE Waits(e) \/ e = async.ev
  <2>1. conn[e.pcb].state # "new"
    BY <1>2 DEF EventsFit, EventFits
  <2>2. heap[a].conn = e.pcb
    BY <1>1, <2>1, HadClient DEF Begins
  <2> QED BY <1>2, <2>2 DEF ArgsFit
<1>3. CASE e = lwip' /\ Peer
  <2>1. heap'[e.arg].conn = e.pcb
    BY <1>3, BroughtIsCurrent DEF Current
  <2> QED BY <1>1, <2>1 DEF Links, ClientLinks
<1>4. CASE Clear /\ e = Event("CLEAR", async.ev.arg, async.ev.pcb, 0)
  <2>1. async.ev \in Events /\ e.pcb = async.ev.pcb /\ e.arg = async.ev.arg /\ heap' = heap
    BY <1>4, ClearDoes DEF Event
  <2> QED BY <2>1 DEF ArgsFit
<1>5. CASE Take /\ e = queue[1]
  <2>1. Waits(e)
    BY <1>5, TakeDoes DEF Waits, Queued
  <2> QED BY <1>2, <2>1
<1> QED BY <1>2, <1>3, <1>4, <1>5, WaitsOfStep, EventOfStep

\* Only the receiving brings data, and the next ones.
LEMMA BroughtData ==
  ASSUME TypeInv, Peer, NEW p \in Conn, NEW e \in Events, e = lwip', Data(e, p)
  PROVE  Receive(p) /\ e.n = conn[p].rx + 1
<1>1. e.type = "RECV" /\ e.pcb = p
  BY DEF Data
<1>2. ~Accept
  <2> SUFFICES ASSUME Accept PROVE FALSE
    OBVIOUS
  <2>1. PICK q \in Conn, a \in Addresses, s \in NoSlot..(Slots - 1) : Accepted(q, a, s)
    BY AcceptDoes
  <2> QED BY <1>1, <2>1 DEF Accepted, Event
<1>3. \A q \in Conn : ~Poll(q) /\ ~Sent(q)
  <2> SUFFICES ASSUME NEW q \in Conn, Poll(q) \/ Sent(q) PROVE FALSE
    OBVIOUS
  <2>1. PICK type \in {"POLL", "SENT"} : Tick(q, type)
    BY DEF Poll, Sent
  <2> QED BY <1>1, <2>1, TickDoes DEF Event
<1>4. \A q \in Conn : ~Fin(q) /\ ~Ceases(q)
  <2> SUFFICES ASSUME NEW q \in Conn, Fin(q) \/ Ceases(q) PROVE FALSE
    OBVIOUS
  <2>1. e # NoEvent
    BY EventParts
  <2>2. lwip' = Event("FIN", conn[q].arg, q, 0) \/ lwip' = Event("ERROR", conn[q].arg, q, 0)
    BY <2>1, FinDoes, CeasesDoes
  <2> QED BY <1>1, <2>2 DEF Event
<1>5. PICK q \in Conn : Receive(q)
  BY <1>2, <1>3, <1>4 DEF Peer, Ceases
<1>6. q = p /\ e.n = conn[q].rx + 1
  BY <1>1, <1>5, ReceiveDoes DEF Event
<1> QED BY <1>5, <1>6

\* An event other than the ACCEPT comes to the task only for a client with its
\* request.
LEMMA HeadHasRequest ==
  ASSUME TypeInv, Take, NEW e \in Events, e = queue[1], e.type # "ACCEPT",
         NEW a \in Addresses, heap[a].conn = e.pcb, ClientFollows(a, e.pcb)
  PROVE  heap[a].hooked
<1> SUFFICES ASSUME AcceptIsFirst(e.pcb) PROVE FALSE
  BY DEF ClientFollows
<1>1. PICK g \in Events : Waits(g) /\ g.type = "ACCEPT" /\ \A f \in Events : f.pcb = e.pcb /\ f # g => ~Ahead(f, g)
  BY DEF AcceptIsFirst
<1>2. g # e
  BY <1>1
<1>3. Ahead(e, g)
  BY <1>1, <1>2, TakeLeads, HeadIsAhead
<1> QED BY <1>1, <1>2, <1>3

\* The data at the head of the queue are the next to be delivered.
LEMMA HeadIsNext ==
  ASSUME TypeInv, EventsFit, Take, NEW e \in Events, e = queue[1], e.type = "RECV",
         heap[e.arg].conn = e.pcb, ClientFollows(e.arg, e.pcb), DataOrdered(e.pcb)
  PROVE  e.n = Len(delivered[e.pcb]) + 1 /\ e.n <= conn[e.pcb].rx /\ delivered'[e.pcb] = Append(delivered[e.pcb], e.n)
<1> DEFINE D == Len(delivered[e.pcb])
<1>1. e.arg \in Addresses /\ e.pcb \in Conn /\ e.n \in Nat /\ Waits(e) /\ Data(e, e.pcb)
  <2>1. e.n \in Nat
    BY EventParts, SMT, TcpAssumption
  <2> QED BY <2>1, EventParts, TakeDoes DEF Waits, Queued, Data
<1>2. delivered'[e.pcb] = Append(delivered[e.pcb], e.n)
  BY <1>1, HeadHasRequest, TakeGives
<1>3. D \in Nat /\ conn[e.pcb].rx \in Nat
  <2>1. delivered[e.pcb] \in Seq(1..Traffic) /\ conn[e.pcb] \in Block
    BY <1>1 DEF TypeInv
  <2> QED BY <2>1, LenProperties, BlockIs, SMT, TcpAssumption
<1>4. e.n > D
  BY <1>1 DEF DataOrdered
<1>5. e.n <= conn[e.pcb].rx
  BY <1>1 DEF EventsFit, EventFits
<1>6. ~ClosesClient(e.arg)
  BY TakeLeads DEF ClosesClient, IsClosing, Closing, Calling
<1>7. D + 1 \in 1..conn[e.pcb].rx /\ D + 1 > D
  <2> HIDE DEF D
  <2> QED BY <1>1, <1>3, <1>4, <1>5, SMT
<1>8. PICK f \in Events : Waits(f) /\ Data(f, e.pcb) /\ f.n = D + 1
  BY <1>6, <1>7 DEF ClientFollows
<1>9. CASE f = e
  BY <1>2, <1>5, <1>8, <1>9
<1>10. CASE f # e
  <2>1. Ahead(e, f)
    BY <1>8, <1>10, TakeLeads, HeadIsAhead
  <2>2. e.n < D + 1
    BY <1>1, <1>8, <2>1 DEF DataOrdered
  <2> HIDE DEF D
  <2>3. FALSE
    BY <1>1, <1>3, <1>4, <2>2, SMT
  <2> QED BY <2>3
<1> QED BY <1>9, <1>10

\* The data of p keep their order.
LEMMA AheadStays ==
  ASSUME TypeInv, TypeInv', EventsFit, Unique, [Next]_vars, NEW p \in Conn, ~Excused(p, OrderExcuse)', DataOrdered(p),
         NEW e \in Events, NEW f \in Events, Data(e, p), Data(f, p), Ahead(e, f)'
  PROVE  e.n < f.n
<1>1. CASE Ahead(e, f)
  BY <1>1 DEF DataOrdered
<1>2. CASE Peer /\ f = lwip' /\ (Queued(e) \/ e = async.held)
  <2>1. Receive(p) /\ f.n = conn[p].rx + 1
    BY <1>2, BroughtData
  <2>2. Waits(e) /\ e.n <= conn[p].rx
    <3>1. Waits(e)
      BY <1>2 DEF Waits, Queued
    <3> QED BY <3>1 DEF EventsFit, EventFits, Data
  <2>3. conn[p].rx \in Nat /\ e.n \in Nat
    <3>1. conn[p] \in Block
      BY DEF TypeInv
    <3> QED BY <3>1, BlockIs, EventParts, SMT, TcpAssumption
  <2> QED BY <2>1, <2>2, <2>3, SMT
<1>3. CASE Post /\ e = lwip /\ (e.type = "ACCEPT" \/ "rotation" \in causes'[e.pcb])
  <2>1. "rotation" \in causes'[p]
    BY <1>3 DEF Data
  <2> QED BY <2>1, Zenon DEF Excused, OrderExcuse
<1>4. CASE Clear /\ e = Event("CLEAR", async.ev.arg, async.ev.pcb, 0)
  BY <1>4 DEF Event, Data
<1> QED BY <1>1, <1>2, <1>3, <1>4, OrderStep DEF Overtakes

LEMMA GivenNext ==
  ASSUME NEW p, NEW S, delivered[p] \in Seq(S), NEW n \in S, n = Len(delivered[p]) + 1,
         delivered'[p] = Append(delivered[p], n), GivenInOrder(p)
  PROVE  GivenInOrder(p)' /\ Len(delivered'[p]) = n
<1>1. /\ Len(delivered[p]) \in Nat /\ Len(delivered'[p]) = n /\ DOMAIN delivered'[p] = 1..n
      /\ DOMAIN delivered[p] = 1..Len(delivered[p])
      /\ delivered'[p][n] = n /\ \A i \in 1..Len(delivered[p]) : delivered'[p][i] = delivered[p][i]
  BY SMT, AppendProperties, LenProperties
<1>2. \A i \in 1..n : i \in 1..Len(delivered[p]) \/ i = n
  BY SMT, <1>1
<1> QED BY <1>1, <1>2 DEF GivenInOrder

LEMMA DataOrderedStep ==
  ASSUME TypeInv, TypeInv', EventsFit, EventsOrdered, ArgsFit, DataFollows, [Next]_vars,
         NEW p \in Conn, ~Excused(p, OrderExcuse)'
  PROVE  DataOrdered(p)'
<1>1. ~Excused(p, OrderExcuse)
  BY StaysExcused
<1>2. DataOrdered(p) /\ Unique
  BY <1>1 DEF DataFollows, EventsOrdered
<1>3. /\ delivered[p] \in Seq(1..Traffic) /\ Len(delivered[p]) \in Nat /\ conn[p].rx \in Nat
      /\ conn[p].rx <= conn'[p].rx /\ conn'[p].rx \in Nat
  <2>1. delivered[p] \in Seq(1..Traffic) /\ conn[p] \in Block /\ conn'[p] \in Block
    BY DEF TypeInv
  <2>2. conn[p].rx \in Nat /\ conn'[p].rx \in Nat
    BY <2>1, BlockIs, SMT, TcpAssumption
  <2>3. conn[p].rx <= conn'[p].rx
    BY GrowsStep DEF Grows
  <2> QED BY <2>1, <2>2, <2>3, LenProperties
<1>4. \A e \in Events : e.n \in Nat
  BY EventParts, SMT, TcpAssumption
<1>5. \A e, f \in Events : Data(e, p) /\ Data(f, p) /\ Ahead(e, f)' => e.n < f.n
  BY <1>2, AheadStays
<1>6. CASE delivered'[p] = delivered[p]
  <2>1. GivenInOrder(p)'
    BY <1>2, <1>6 DEF DataOrdered, GivenInOrder
  <2>2. Len(delivered'[p]) <= conn'[p].rx
    BY <1>2, <1>3, <1>6, SMT DEF DataOrdered
  <2>3. ASSUME NEW e \in Events, Waits(e)', Data(e, p) PROVE e.n > Len(delivered'[p])
    <3>1. CASE Waits(e)
      BY <1>2, <1>6, <2>3, <3>1 DEF DataOrdered
    <3>2. CASE e = lwip' /\ Peer
      <4>1. e.n = conn[p].rx + 1
        BY <2>3, <3>2, BroughtData
      <4>2. Len(delivered[p]) <= conn[p].rx
        BY <1>2 DEF DataOrdered
      <4> QED BY <1>3, <1>6, <4>1, <4>2, SMT
    <3>3. CASE Clear /\ e = Event("CLEAR", async.ev.arg, async.ev.pcb, 0)
      BY <2>3, <3>3 DEF Event, Data
    <3> QED BY <2>3, <3>1, <3>2, <3>3, WaitsOfStep
  <2> QED BY <1>5, <2>1, <2>2, <2>3 DEF DataOrdered, Data
<1>7. CASE delivered'[p] # delivered[p]
  <2>1. Take /\ p = queue[1].pcb /\ queue[1].type = "RECV" /\ heap[queue[1].arg].conn = p
    BY <1>7, DataOfStep, TakeDelivers
  <2>2. PICK e \in Events : e = queue[1]
    BY <2>1, TakeDoes
  <2>3. ClientFollows(e.arg, p)
    BY <1>1, <2>1, <2>2, EventParts DEF DataFollows
  <2>4. e.n = Len(delivered[p]) + 1 /\ e.n <= conn[p].rx /\ delivered'[p] = Append(delivered[p], e.n)
    BY <1>2, <2>1, <2>2, <2>3, HeadIsNext
  <2>5. e.n \in 1..Traffic
    BY <2>1, <2>2, EventParts
  <2>6. GivenInOrder(p)' /\ Len(delivered'[p]) = e.n
    BY <1>2, <1>3, <2>4, <2>5, GivenNext DEF DataOrdered
  <2>7. e.n <= conn'[p].rx
    BY <1>3, <1>4, <2>4, SMT
  <2>8. ASSUME NEW f \in Events, Waits(f)', Data(f, p) PROVE f.n > e.n
    <3>1. Ahead(e, f)
      BY <1>2, <2>1, <2>2, <2>8, TakenWasAhead
    <3>2. Data(e, p)
      BY <2>1, <2>2 DEF Data
    <3>3. e.n < f.n
      BY <1>2, <2>8, <3>1, <3>2 DEF DataOrdered
    <3> QED BY <1>4, <3>3, SMT
  <2> QED BY <1>5, <2>6, <2>7, <2>8 DEF DataOrdered, Data
<1> QED BY <1>6, <1>7

-----------------------------------------------------------------------------
(* A client is followed from its ACCEPT to its discarding.                 *)

\* What waits for a client with data still to come goes on waiting.
LEMMA DataStay ==
  ASSUME TypeInv, TypeInv', EventsFit, ArgsFit, [Next]_vars,
         NEW p \in Conn, DataOrdered(p), NEW a \in Addresses, heap[a].conn = p, ClientFollows(a, p),
         NEW e \in Events, Waits(e), Data(e, p), ~(Take /\ e = queue[1])
  PROVE  Waits(e)'
<1>1. a = e.arg
  BY DEF ArgsFit, Data
<1>2. ~(async.at \in Turning /\ Matches(e))
  BY <1>1 DEF ClientFollows, Matches
<1> QED BY <1>2, WaitsStays

LEMMA DataAreThere ==
  ASSUME TypeInv, TypeInv', EventsFit, ArgsFit, [Next]_vars,
         NEW p \in Conn, DataOrdered(p), NEW a \in Addresses, heap[a].conn = p, ClientFollows(a, p), ~ClosesClient(a),
         NEW n \in 1..conn'[p].rx, n > Len(delivered'[p])
  PROVE  \E e \in Events : Waits(e)' /\ Data(e, p) /\ e.n = n
<1>1. /\ Len(delivered[p]) \in Nat /\ conn[p].rx \in Nat /\ conn'[p].rx \in Nat /\ n \in Nat
      /\ delivered[p] \in Seq(1..Traffic)
  <2>1. delivered[p] \in Seq(1..Traffic) /\ conn[p] \in Block /\ conn'[p] \in Block
    BY DEF TypeInv
  <2>2. conn[p].rx \in Nat /\ conn'[p].rx \in Nat
    BY <2>1, BlockIs, SMT, TcpAssumption
  <2>3. n \in Nat
    BY <2>2, SMT
  <2> QED BY <2>1, <2>2, <2>3, LenProperties
<1>2. CASE Receive(p) /\ n = conn[p].rx + 1
  <2>1. lwip' = Event("RECV", conn[p].arg, p, n) /\ lwip' \in Events
    BY <1>2, ReceiveDoes
  <2> QED BY <2>1 DEF Waits, Data, Event
<1>3. CASE ~(Receive(p) /\ n = conn[p].rx + 1)
  <2>1. n \in 1..conn[p].rx
    <3>1. conn'[p].rx = conn[p].rx \/ (Receive(p) /\ conn'[p].rx = conn[p].rx + 1)
      BY DataOfStep, ReceiveDoes
    <3> QED BY <1>1, <1>3, <3>1, SMT
  <2>2. delivered'[p] = delivered[p] \/ (Take /\ \E m \in 1..Traffic : delivered'[p] = Append(delivered[p], m))
    <3>1. CASE delivered' = delivered
      BY <3>1
    <3>2. CASE Take
      <4>1. queue[1].type = "RECV" => queue[1].n \in 1..Traffic
        BY <3>2, TakeDoes, EventParts
      <4> QED BY <3>2, <4>1, TakeDelivers
    <3> QED BY <3>1, <3>2, DataOfStep
  <2>3. n > Len(delivered[p])
    <3>1. CASE delivered'[p] = delivered[p]
      BY <3>1
    <3>2. ASSUME NEW m \in 1..Traffic, delivered'[p] = Append(delivered[p], m) PROVE n > Len(delivered[p])
      <4>1. Len(delivered'[p]) = Len(delivered[p]) + 1
        BY <1>1, <3>2, AppendProperties
      <4> QED BY <1>1, <4>1, SMT
    <3> QED BY <2>2, <3>1, <3>2
  <2>4. PICK e \in Events : Waits(e) /\ Data(e, p) /\ e.n = n
    BY <2>1, <2>3 DEF ClientFollows
  <2>5. ~(Take /\ e = queue[1])
    <3> SUFFICES ASSUME Take, e = queue[1] PROVE FALSE
      OBVIOUS
    <3>1. e.arg = a /\ e.pcb = p /\ e.type = "RECV"
      BY <2>4 DEF ArgsFit, Data
    <3>2. e.n \in 1..Traffic /\ delivered'[p] = Append(delivered[p], e.n) /\ e.n = Len(delivered[p]) + 1
      BY <3>1, EventParts, HeadIsNext
    <3>3. Len(delivered'[p]) = Len(delivered[p]) + 1
      BY <1>1, <3>2, AppendProperties
    <3>4. n = Len(delivered'[p])
      BY <2>4, <3>2, <3>3
    <3> QED BY <1>1, <3>4, SMT
  <2> QED BY <2>4, <2>5, DataStay
<1> QED BY <1>2, <1>3

\* The ACCEPT goes on coming first until the task takes it.
LEMMA AcceptStaysFirst ==
  ASSUME TypeInv, TypeInv', Links, EventsFit, EventsOrdered, ArgsFit, [Next]_vars,
         NEW p \in Conn, ~Excused(p, OrderExcuse)', NEW a \in Addresses, heap[a].conn = p, ClientFollows(a, p), ~heap[a].hooked
  PROVE  heap'[a].hooked \/ AcceptIsFirst(p)'
<1>1. PICK g \in Events : Waits(g) /\ g.type = "ACCEPT" /\ g.pcb = p /\ \A f \in Events : f.pcb = p /\ f # g => ~Ahead(f, g)
  BY DEF ClientFollows, AcceptIsFirst
<1>2. g.arg = a /\ g.n = 0
  <2>1. g.n = 0
    BY <1>1, EventParts DEF Apps
  <2> QED BY <1>1, <2>1 DEF ArgsFit
<1>3. CASE Take /\ g = queue[1]
  BY <1>1, <1>2, <1>3, TakeHooks
<1>4. CASE ~(Take /\ g = queue[1])
  <2>1. Waits(g)'
    <3>1. ~Matches(g)
      BY <1>1 DEF Matches
    <3> QED BY <1>1, <1>4, <3>1, WaitsStays
  <2>2. ASSUME NEW f \in Events, f.pcb = p, f # g, Ahead(f, g)' PROVE FALSE
    <3>1. Overtakes(f, g)
      BY <1>1, <2>2, OrderStep DEF EventsOrdered
    <3>2. CASE Peer /\ g = lwip'
      BY <1>1, <3>2, BroughtIsNew
    <3>3. CASE Post /\ f = lwip /\ f.type = "ACCEPT"
      <4>1. Waits(f) /\ f.n = 0
        BY <3>3, EventParts DEF Waits, Apps
      <4>2. f.arg = a
        BY <2>2, <4>1 DEF ArgsFit
      <4> QED BY <1>1, <1>2, <2>2, <3>3, <4>1, <4>2, SameEvent
    <3>4. CASE "rotation" \in causes'[f.pcb]
      BY <2>2, <3>4, Zenon DEF Excused, OrderExcuse
    <3>5. CASE Clear /\ f = Event("CLEAR", async.ev.arg, async.ev.pcb, 0)
      <4>1. async.at = "clear" /\ async.ev.pcb = p
        BY <2>2, <3>5, ClearDoes DEF Event
      <4>2. HasClient
        BY <4>1 DEF HasClient, Turning
      <4> QED BY <4>1, <4>2 DEF ClientFollows
    <3> QED BY <3>1, <3>2, <3>3, <3>4, <3>5 DEF Overtakes
  <2> QED BY <1>1, <2>1, <2>2 DEF AcceptIsFirst
<1> QED BY <1>3, <1>4

\* A client that was there is followed through a step.
LEMMA ClientFollowed ==
  ASSUME TypeInv, TypeInv', Links, EventsFit, EventsOrdered, ArgsFit, [Next]_vars,
         NEW p \in Conn, ~Excused(p, OrderExcuse)', DataOrdered(p),
         NEW a \in Addresses, heap[a].conn = p, ClientFollows(a, p),
         heap[a].hooked => heap'[a].hooked /\ ~(Discard /\ async.ev.arg = a)
  PROVE  ClientFollows(a, p)'
<1>1. p # 0
  BY SMT DEF Conn
<1>2. ASSUME ClosesClient(a) PROVE ClosesClient(a)'
  <2>1. async.ev.pcb = p /\ HasClient
    <3>1. HasClient
      BY <1>2 DEF ClosesClient, IsClosing, Closing, Calling, HasClient, Turning
    <3> QED BY <1>2, <3>1 DEF Links, TaskLinks, ClosesClient
  <2>2. ~Discard
    BY <1>2, <2>1 DEF ClientFollows, ClosesClient
  <2> QED BY <1>2, <2>2, ClosingStays DEF ClosesClient
<1>3. IsCleared(a)' => ClosesClient(a)'
  <2> SUFFICES ASSUME IsCleared(a)' PROVE ClosesClient(a)'
    OBVIOUS
  <2>1. CASE IsCleared(a)
    BY <1>2, <2>1 DEF ClientFollows
  <2>2. CASE Clear /\ a = async.ev.arg
    BY <2>2, ClearLeads DEF ClosesClient, IsClosing, Closing
  <2> QED BY <2>1, <2>2, ClearedOfStep DEF EventsOrdered
<1>4. ASSUME async'.at \notin {"get"} \union Turning, async'.ev = async.ev
      PROVE  HasClient \/ async.at = "ack"
  <2>1. async.at \notin {"get"} \union Turning
    <3>1. async'.ev # NoEvent /\ Fits(async'.ev.type, async'.at)
      BY <1>4, NoEventParts DEF TypeInv, Registers
    <3>2. async.at # "get"
      BY <1>4, <3>1 DEF TypeInv, Registers
    <3>3. async.at \notin Turning
      BY <1>4, <3>1, <3>2, EventOfTask DEF Fits, Turning, Apps, Closing, Calling
    <3> QED BY <3>2, <3>3
  <2> QED BY <2>1 DEF HasClient
<1>5. async'.at \in Turning => async'.ev.arg # a
  <2> SUFFICES ASSUME async'.at \in Turning, async'.ev.arg = a PROVE FALSE
    OBVIOUS
  <2>1. async'.ev \in Events /\ async'.ev.type = "CLEAR"
    <3>1. async'.at # "get" /\ async'.at \notin {"app", "check", "unhook", "ack"} \union Closing \union Calling
      BY DEF Turning, Closing, Calling
    <3> QED BY <3>1 DEF TypeInv, Registers, Fits, Closing
  <2>2. CASE async'.ev = async.ev
    <3>1. async.at # "get"
      BY <2>1, <2>2, NoEventParts DEF TypeInv, Registers
    <3>2. async.at \in Turning
      BY <2>1, <2>2, <3>1, EventOfTask DEF Fits, Apps
    <3> QED BY <2>2, <3>2 DEF ClientFollows
  <2>3. CASE Take /\ async'.ev = queue[1]
    <3>1. IsCleared(a)
      BY <2>1, <2>3, TakeLeads, TakenPlaces DEF IsCleared
    <3>2. ClosesClient(a)
      BY <3>1 DEF ClientFollows
    <3> QED BY <2>3, <3>2, TakeLeads DEF ClosesClient, IsClosing, Closing, Calling
  <2> QED BY <2>1, <2>2, <2>3, EventOfStep
<1>6. ClosesClient(a)' \/ \A n \in 1..conn'[p].rx : n > Len(delivered'[p]) =>
                            \E e \in Events : Waits(e)' /\ Data(e, p) /\ e.n = n
  BY <1>2, DataAreThere
<1>7. heap'[a].hooked \/ AcceptIsFirst(p)'
  BY AcceptStaysFirst
<1>8. ASSUME HasClient' \/ async'.at = "ack", async'.ev.pcb = p PROVE heap'[a].hooked
  <2>1. async'.at \notin {"get"} \union Turning
    BY <1>8 DEF HasClient, Turning
  <2>2. async'.ev \in Events
    BY <2>1 DEF TypeInv, Registers
  <2>3. CASE async'.ev = async.ev
    BY <1>4, <1>8, <2>1, <2>3 DEF ClientFollows
  <2>4. CASE Take /\ async'.ev = queue[1]
    <3>1. PICK e \in Events : e = queue[1]
      BY <2>4, TakeDoes
    <3>2. e.type # "ACCEPT"
      <4>1. async'.at # "get"
        BY <2>1
      <4> QED BY <2>2, <2>4, <3>1, <4>1, TakesAccept, IdleIs
    <3> QED BY <1>8, <2>4, <3>1, <3>2, HeadHasRequest
  <2> QED BY <2>2, <2>3, <2>4, EventOfStep
<1> QED BY <1>3, <1>5, <1>6, <1>7, <1>8 DEF ClientFollows, Data

\* A new client starts with nothing of its connection waiting but its ACCEPT.
LEMMA ClientBegins ==
  ASSUME TypeInv, TypeInv', EventsFit, EventsOrdered, [Next]_vars,
         NEW p \in Conn, conn[p].rx = 0, ~Excused(p, OrderExcuse)', NEW a \in Addresses, Begins(a, p)
  PROVE  ClientFollows(a, p)'
<1>1. queue' = queue /\ async' = async /\ conn[p].state = "new" /\ lwip' = Event("ACCEPT", a, p, 0) /\ Peer
  BY PeerStill DEF Begins, Peer
<1>2. ~Cleared(a)
  BY Zenon DEF Begins, Excused, OrderExcuse
<1>3. ~IsCleared(a)'
  <2>1. DOMAIN queue = 1..Len(queue)
    BY LenProperties DEF TypeInv
  <2> QED BY <1>1, <1>2, <2>1 DEF IsCleared, Cleared
<1>4. async'.at \in Turning => async'.ev.arg # a
  <2> SUFFICES ASSUME async.at \in Turning, async.ev.arg = a PROVE FALSE
    BY <1>1
  <2>1. async.ev.type = "CLEAR"
    BY EventOfTask DEF Fits, Turning, Closing, Calling
  <2> QED BY <1>2, <2>1 DEF Cleared
<1>5. ASSUME NEW f \in Events, Waits(f) \/ f = async.ev PROVE f.pcb # p
  BY <1>1, <1>5 DEF EventsFit, EventFits
<1>6. 1..conn'[p].rx = {}
  <2>1. ~Receive(p)
    BY <1>1 DEF Receive, Callback
  <2>2. conn'[p].rx = 0
    BY <2>1, DataOfStep
  <2> QED BY <2>2, SMT
<1>7. AcceptIsFirst(p)'
  <2>1. lwip' \in Events
    BY <1>1, NoEventParts DEF TypeInv, OrNone, Event
  <2>2. PICK g \in Events : g = lwip'
    BY <2>1
  <2>3. Waits(g)' /\ g.type = "ACCEPT" /\ g.pcb = p
    BY <1>1, <2>2 DEF Waits, Event
  <2>4. ASSUME NEW f \in Events, f.pcb = p, f # g, Ahead(f, g)' PROVE FALSE
    <3>1. CASE Ahead(f, g)
      BY <1>5, <2>4, <3>1, AheadWaits
    <3>2. CASE Queued(f) \/ f = async.held \/ f = lwip
      BY <1>5, <2>4, <3>2 DEF Waits, Queued
    <3>3. CASE Clear /\ f = Event("CLEAR", async.ev.arg, async.ev.pcb, 0)
      BY <1>5, <2>4, <3>3, ClearDoes DEF Event
    <3> QED BY <2>4, <3>1, <3>2, <3>3, OrderStep DEF Overtakes, EventsOrdered
  <2> QED BY <2>3, <2>4 DEF AcceptIsFirst
<1>8. (HasClient' \/ async'.at = "ack") => async'.ev.pcb # p
  <2> SUFFICES ASSUME async.at # "get" PROVE async.ev.pcb # p
    BY <1>1 DEF HasClient
  <2> QED BY <1>5, EventOfTask
<1> QED BY <1>3, <1>4, <1>6, <1>7, <1>8 DEF ClientFollows

LEMMA DataStep ==
  ASSUME TypeInv, TypeInv', Links, EventsFit, EventsOrdered, ArgsFit, DataFollows, [Next]_vars
  PROVE  DataFollows'
<1> SUFFICES ASSUME NEW p \in Conn
             PROVE  /\ conn'[p].state = "new" => conn'[p].rx = 0
                    /\ ~Excused(p, OrderExcuse)' =>
                         DataOrdered(p)' /\ \A a \in Addresses : heap'[a].conn = p => ClientFollows(a, p)'
  BY DEF DataFollows
<1>1. ASSUME conn'[p].state = "new" PROVE conn'[p].rx = 0
  <2>1. conn[p].state = "new"
    BY <1>1, GrowsStep DEF Grows
  <2>2. ~Receive(p)
    BY <2>1 DEF Receive, Callback
  <2> QED BY <2>1, <2>2, DataOfStep DEF DataFollows
<1>2. ASSUME ~Excused(p, OrderExcuse)', NEW a \in Addresses, heap'[a].conn = p PROVE ClientFollows(a, p)'
  <2>1. ~Excused(p, OrderExcuse)
    BY <1>2, StaysExcused
  <2>2. CASE Begins(a, p)
    <3>1. conn[p].rx = 0
      BY <2>2 DEF Begins, DataFollows
    <3> QED BY <1>2, <2>2, <3>1, ClientBegins
  <2>3. CASE ~Begins(a, p)
    <3>1. /\ heap[a].conn = p /\ (heap[a].hooked => heap'[a].hooked)
          /\ heap[a].hooked => ~(Discard /\ async.ev.arg = a)
      BY <1>2, <2>3, HadClient
    <3>2. DataOrdered(p) /\ ClientFollows(a, p)
      BY <2>1, <3>1 DEF DataFollows
    <3> QED BY <1>2, <3>1, <3>2, ClientFollowed
  <2> QED BY <2>2, <2>3
<1> QED BY <1>1, <1>2, DataOrderedStep

LEMMA StartsInOrder == Init => ArgsFit /\ DataFollows
<1> SUFFICES ASSUME Init PROVE ArgsFit /\ DataFollows
  OBVIOUS
<1>1. /\ async = Idle /\ lwip = NoEvent /\ Len(queue) = 0
      /\ \A p \in Conn : conn[p].rx = 0 /\ delivered[p] = <<>>
      /\ \A a \in Addresses : heap[a] = NoClient
  BY EmptySeq DEF Init
<1>2. async.ev = NoEvent /\ async.held = NoEvent /\ 1..Len(queue) = {}
  <2>1. 1..Len(queue) = {}
    BY SMT, <1>1
  <2> QED BY <1>1, <2>1, IdleIs
<1>3. \A e \in Events : ~Waits(e) /\ e # async.ev /\ \A f \in Events : ~Ahead(e, f)
  <2>1. \A e \in Events : e # NoEvent
    BY EventParts
  <2> QED BY <1>1, <1>2, <2>1 DEF Waits, Ahead
<1>4. \A p \in Conn, a \in Addresses : heap[a].conn # p
  <2>1. \A p \in Conn : p # 0
    BY SMT DEF Conn
  <2> QED BY <1>1, <2>1, NoClientIs
<1>5. \A p \in Conn : GivenInOrder(p) /\ Len(delivered[p]) <= conn[p].rx
  <2>1. Len(<<>>) = 0 /\ DOMAIN <<>> = {} /\ 0 <= 0
    BY SMT, EmptySeq
  <2> QED BY <1>1, <2>1 DEF GivenInOrder
<1>6. \A p \in Conn : DataOrdered(p)
  BY <1>3, <1>5 DEF DataOrdered
<1> QED BY <1>1, <1>3, <1>4, <1>6 DEF ArgsFit, DataFollows

-----------------------------------------------------------------------------
(* The theorems.                                                           *)

OrderInv == EventsOrdered /\ DeletedFollows /\ ArgsFit /\ DataFollows

LEMMA OrderInductive == Spec => []OrderInv
<1>1. Init => SafetyInv /\ OrderInv
  BY TypeInit, StartsSafe, StartsOrdered, StartsInOrder DEF SafetyInv, OrderInv
<1>2. SafetyInv /\ OrderInv /\ SafetyInv' /\ [Next]_vars => OrderInv'
  BY OrderedStep, DeletedStep, ArgsFitStep, DataStep DEF SafetyInv, OrderInv
<1> QED BY <1>1, <1>2, SafetyInductive, PTL DEF Spec

\* DeletedClientsAreLeftAlone: the async_tcp task handles no event of a client
\* that was deleted, and _recv does not come back to one, but after a FIN
\* inside _close, when the application closed it from onData, or when lwIP
\* posted one of its events during the turning of the queue.  The CLEAR that _close
\* and _fin put in front of the queue covers the rest, whatever was posted
\* before it, whether the address has been given out again or not.
THEOREM DeletedStaysLeftAlone == Spec => []DeletedClientsAreLeftAlone
<1>1. OrderInv => DeletedClientsAreLeftAlone
  BY DEF OrderInv, DeletedFollows
<1> QED BY <1>1, OrderInductive, PTL

\* DataInOrderUnlessOvertaken: the application is given the segments of a
\* connection from the first, in order and without a gap, unless lwIP posted
\* one of its events while the task turned the queue over, or its client got
\* an address whose events were still to be removed.
THEOREM DataStaysInOrder == Spec => []DataInOrderUnlessOvertaken
<1>1. OrderInv => DataInOrderUnlessOvertaken
  BY DEF OrderInv, DataFollows, DataOrdered, DataInOrderUnlessOvertaken, OrderExcuse
<1> QED BY <1>1, OrderInductive, PTL

=============================================================================
