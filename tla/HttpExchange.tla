---------------------------- MODULE HttpExchange ----------------------------
(***************************************************************************)
(* One connection of the web server (firmware/lib/ESPAsyncWebServer), from *)
(* the first segment of its request to the last acknowledgement of its     *)
(* response.                                                               *)
(*                                                                         *)
(* Everything runs in callbacks of the async_tcp task, except that lwIP    *)
(* takes the control block away when the peer closes.  The request comes   *)
(* as tokens, cut into segments anywhere; the response leaves as numbered  *)
(* units, as the send buffer has room.  A token stands for a word of a     *)
(* line or a byte of the body, a unit for some bytes of head or content.   *)
(***************************************************************************)
EXTENDS Integers, Sequences, SequencesExt

CONSTANTS
  Requests,   \* what the peer may send, records as of Request
  HeadSize,   \* units of a response's head
  ContentSize, \* units of a page
  Windows,    \* units the send buffer of a connection may hold
  Failures    \* bound: calls that find no memory in a behaviour

\* body counts the tokens that Content-Length announces, extra those that
\* follow it; a blank request begins with an empty line.
Request == [method: {"GET", "POST"}, url: {"/", "/main", "/nowhere"}, login: BOOLEAN, blank: BOOLEAN,
            expect: BOOLEAN, body: Nat, extra: Nat]

ASSUME HttpAssumption ==
  /\ Requests \subseteq Request
  /\ HeadSize \in Nat \ {0} /\ ContentSize \in Nat \ {0} /\ Windows \subseteq Nat \ {0} /\ Failures \in Nat

VARIABLES
  request,    \* what the peer sends
  rest,       \* the tokens it has still to send
  buf,        \* what is left of the segment _onData is working on
  req,        \* the AsyncWebServerRequest
  resp,       \* its AsyncWebServerResponse
  tcp,        \* AsyncClient: control block, send buffer, timeouts, and the
              \* acknowledgements the task has not handled yet
  wire,       \* the units handed to TCP
  failures    \* history: calls that found no memory

vars == <<request, rest, buf, req, resp, tcp, wire, failures>>

Newline == "newline"
Line(words) == words \o <<Newline>>
Stream(r) ==
  (IF r.blank THEN <<Newline>> ELSE <<>>)
  \o Line(<<r.method, r.url>>)
  \o (IF r.expect THEN Line(<<"Expect">>) ELSE <<>>)
  \o (IF r.body > 0 THEN Line(<<"Content-Length">>) ELSE <<>>)
  \o <<Newline>>
  \o [i \in 1..(r.body + r.extra) |-> "byte"]

\* The fields of a request and of a response.  todo is where _onData goes on
\* within a segment, live that the request is not deleted; handled counts the
\* calls of its handler, total is what the response had to send (history).
AsyncWebServerRequest ==
  [state: {"START", "HEADERS", "BODY", "END", "FAIL"},
   temp: Seq({"newline", "Expect", "Content-Length", "GET", "POST", "/", "/main", "/nowhere"}),
   length: Nat, parsed: Nat, expecting: BOOLEAN, handler: {"none", "page", "data", "catch-all"},
   todo: {"none", "continue", "attach", "handle", "respond", "advance"}, live: BOOLEAN, handled: Nat]
Data == Seq(0..(HeadSize + ContentSize))
AsyncWebServerResponse ==
  [kind: {"none", "basic", "file"}, state: {"SETUP", "HEADERS", "CONTENT", "WAIT_ACK", "END"},
   head: Data, content: Data, length: Nat, sent: Nat, acked: Nat, written: Nat, total: Nat]
NoResponse == [kind |-> "none", state |-> "SETUP", head |-> <<>>, content |-> <<>>,
               length |-> 0, sent |-> 0, acked |-> 0, written |-> 0, total |-> 0]

\* Units are numbered from the head to the last of the content; 0 is the
\* interim "100 Continue".
Units(first, last) == [i \in 1..(last - first + 1) |-> first + i - 1]

TypeOK ==
  /\ request \in Requests
  /\ IsSuffix(rest, Stream(request)) /\ IsSuffix(buf \o rest, Stream(request))
  /\ req \in AsyncWebServerRequest /\ resp \in AsyncWebServerResponse
  /\ tcp \in [open: BOOLEAN, window: Windows, unacked: Nat, busy: BOOLEAN, rxTimeout: BOOLEAN,
               due: Seq(Nat \ {0})]
  /\ tcp.unacked <= tcp.window
  /\ wire \in Data
  /\ failures \in 0..Failures

Init ==
  /\ request \in Requests
  /\ rest = Stream(request) /\ buf = <<>>
  /\ req = [state |-> "START", temp |-> <<>>, length |-> 0, parsed |-> 0, expecting |-> FALSE,
            todo |-> "none", handler |-> "none", live |-> TRUE, handled |-> 0]
  /\ resp = NoResponse
  /\ tcp \in [open: {TRUE}, window: Windows, unacked: {0}, busy: {FALSE}, rxTimeout: {TRUE}, due: {<<>>}]
  /\ wire = <<>> /\ failures = 0

\* The request is deleted, and its response with it.
Deleted(r) == req' = [r EXCEPT !.live = FALSE] /\ resp' = NoResponse

-----------------------------------------------------------------------------
(* The client: what write() may do.                                        *)

Space == IF tcp.open THEN tcp.window - tcp.unacked ELSE 0

Least(m, n) == IF m < n THEN m ELSE n
First(n, s) == SubSeq(s, 1, n)
From(n, s) == SubSeq(s, n + 1, Len(s))

\* Each outcome of write(data): the units it hands to TCP and the number it
\* returns, cut to the room there is.  Without memory nothing is queued, or
\* it is queued but not put out; write then returns 0.
Written(data) ==
  LET sent == First(Least(Space, Len(data)), data)
      put(n, fails) == [sent |-> sent, n |-> n, fails |-> fails]
  IN  IF sent = <<>> THEN {[sent |-> <<>>, n |-> 0, fails |-> 0]}
      ELSE {put(Len(sent), 0)}
           \union (IF failures < Failures THEN {put(0, 1), [sent |-> <<>>, n |-> 0, fails |-> 1]} ELSE {})

Apply(o) ==
  /\ wire' = wire \o o.sent
  /\ tcp' = [tcp EXCEPT !.unacked = @ + Len(o.sent), !.busy = @ \/ o.n > 0]
  /\ failures' = failures + o.fails

-----------------------------------------------------------------------------
(* The request.  _onData works its segment off before another callback.    *)

Working == req.live /\ (buf # <<>> \/ req.todo # "none")
Idle == req.live /\ buf = <<>> /\ req.todo = "none"

Deliver ==
  /\ Idle /\ tcp.open /\ rest # <<>>
  /\ \E n \in 1..Len(rest) : buf' = First(n, rest) /\ rest' = From(n, rest)
  /\ UNCHANGED <<request, req, resp, tcp, wire, failures>>

InLines == Working /\ req.todo = "none" /\ req.state \in {"START", "HEADERS"}

\* No newline in the segment: its words wait in _temp.
KeepPart ==
  /\ InLines /\ \A i \in DOMAIN buf : buf[i] # Newline
  /\ buf' = <<>> /\ req' = [req EXCEPT !.temp = @ \o buf]
  /\ UNCHANGED <<request, rest, resp, tcp, wire, failures>>

\* Takes the rest of a line from the segment, and goes on as next says.
TakeLine(next(_)) ==
  \E i \in DOMAIN buf :
    /\ buf[i] = Newline /\ \A j \in 1..(i - 1) : buf[j] # Newline
    /\ buf' = From(i, buf)
    /\ next(req.temp \o First(i - 1, buf))

\* The first line; an empty one closes the connection, which deletes this.
ReqHead ==
  /\ InLines /\ req.state = "START"
  /\ TakeLine(LAMBDA line :
       IF line = <<>>
       THEN /\ Deleted([req EXCEPT !.state = "FAIL", !.temp = <<>>])
            /\ tcp' = [tcp EXCEPT !.open = FALSE]
       ELSE req' = [req EXCEPT !.state = "HEADERS", !.temp = <<>>] /\ UNCHANGED <<tcp, resp>>)
  /\ UNCHANGED <<request, rest, wire, failures>>

ReqHeader ==
  /\ InLines /\ req.state = "HEADERS"
  /\ TakeLine(LAMBDA line :
       /\ line # <<>>
       /\ req' = [req EXCEPT !.temp = <<>>,
                    !.length = IF line = <<"Content-Length">> THEN request.body ELSE @,
                    !.expecting = @ \/ line = <<"Expect">>])
  /\ UNCHANGED <<request, rest, resp, tcp, wire, failures>>

EndOfHeaders ==
  /\ InLines /\ req.state = "HEADERS"
  /\ TakeLine(LAMBDA line : line = <<>> /\ req' = [req EXCEPT !.temp = <<>>, !.todo = "attach"])
  /\ UNCHANGED <<request, rest, resp, tcp, wire, failures>>

\* Every route of the firmware is for GET; what none takes is the catch-all's.
AttachHandler ==
  /\ req.live /\ req.todo = "attach"
  /\ req' = [req EXCEPT
       !.todo = IF req.expecting THEN "continue" ELSE IF req.length > 0 THEN "none" ELSE "handle",
       !.state = IF req.length > 0 THEN "BODY" ELSE "END",
       !.handler = IF request.method # "GET" THEN "catch-all"
                   ELSE CASE request.url = "/" -> "page"
                          [] request.url = "/main" -> "data"
                          [] OTHER -> "catch-all"]
  /\ UNCHANGED <<request, rest, buf, resp, tcp, wire, failures>>

Continue ==
  /\ req.live /\ req.todo = "continue"
  /\ \E o \in Written(<<0>>) : Apply(o)
  /\ req' = [req EXCEPT !.todo = IF req.length > 0 THEN "none" ELSE "handle"]
  /\ UNCHANGED <<request, rest, buf, resp>>

\* Mutant of Body: compared before it is counted.
BodyLate ==
  /\ Working /\ req.todo = "none" /\ req.state = "BODY"
  /\ buf' = <<>>
  /\ LET done == req.parsed = req.length
     IN  req' = [req EXCEPT !.parsed = @ + Len(buf), !.state = IF done THEN "END" ELSE "BODY",
                            !.todo = IF done THEN "handle" ELSE "none"]
  /\ UNCHANGED <<request, rest, resp, tcp, wire, failures>>

\* The body is counted, a segment at a time, and compared only then.
Body ==
  /\ Working /\ req.todo = "none" /\ req.state = "BODY"
  /\ buf' = <<>>
  /\ LET parsed == req.parsed + Len(buf)
         done == parsed = req.length
     IN  req' = [req EXCEPT !.parsed = parsed, !.state = IF done THEN "END" ELSE "BODY",
                            !.todo = IF done THEN "handle" ELSE "none"]
  /\ UNCHANGED <<request, rest, resp, tcp, wire, failures>>

\* What follows a request is passed over.
PassOver ==
  /\ Working /\ req.todo = "none" /\ req.state = "END"
  /\ buf' = <<>>
  /\ UNCHANGED <<request, rest, req, resp, tcp, wire, failures>>

-----------------------------------------------------------------------------
(* The response.  A plan says what to write and what the response keeps.   *)

Plan(state, data, content, length, sent) ==
  [state |-> state, data |-> data, content |-> content, length |-> length, sent |-> sent]

\* Mutant of BasicStart: what was written stays in the content.
BasicStartKeeps(content) ==
  LET all == Units(1, HeadSize) \o content
  IN  Plan("CONTENT", First(Least(Space, Len(all)), all), all, Len(all), 0)

\* AsyncBasicResponse::_respond.
BasicStart(content) ==
  LET head == Units(1, HeadSize)
      all == head \o content
      n == Len(content)
  IN  CASE n = 0 /\ Space >= HeadSize -> Plan("WAIT_ACK", head, <<>>, 0, 0)
        [] n > 0 /\ Space >= HeadSize + n -> Plan("WAIT_ACK", all, content, n, 0)
        [] Space > 0 /\ Space < HeadSize ->
             Plan("CONTENT", First(Space, head), From(Space, all), n + HeadSize - Space, 0)
        [] Space > HeadSize /\ Space < HeadSize + n ->
             Plan("CONTENT", First(Space, all), From(Space, all), n, Space - HeadSize)
        [] OTHER -> Plan("CONTENT", <<>>, all, n + HeadSize, 0)

\* AsyncBasicResponse::_ack while content is left.
BasicContent ==
  LET available == resp.length - resp.sent IN
  IF Space > available THEN Plan("WAIT_ACK", First(available, resp.content), <<>>, resp.length, resp.sent)
  ELSE Plan("CONTENT", First(Space, resp.content), From(Space, resp.content), resp.length, resp.sent + Space)

\* Mutant of Carry: what write did not take is kept, to be written again.
CarryAgain(plan, head) ==
  \E o \in Written(plan.data) :
    /\ Apply(o)
    /\ resp' = IF o.n = Len(plan.data)
               THEN [resp EXCEPT !.state = plan.state, !.content = plan.content, !.length = plan.length,
                                 !.sent = plan.sent, !.head = head, !.written = @ + o.n]
               ELSE resp

Carry(plan, head) ==
  \E o \in Written(plan.data) :
    /\ Apply(o)
    /\ resp' = [resp EXCEPT !.state = plan.state, !.content = plan.content, !.length = plan.length,
                            !.sent = plan.sent, !.head = head, !.written = @ + o.n]

\* AsyncAbstractResponse::_ack for a file.  The head leaves alone while it
\* does not fit, then together with content; without memory for the buffer
\* nothing happens, but the head counts as fitted from then on.
FileHead ==
  /\ resp.state = "HEADERS" /\ Space < Len(resp.head)
  /\ Carry(Plan("HEADERS", First(Space, resp.head), resp.content, resp.length, 0),
           From(Space, resp.head))

FileContent ==
  /\ resp.state = "CONTENT" \/ (resp.state = "HEADERS" /\ Space >= Len(resp.head))
  /\ LET room == IF resp.state = "HEADERS" THEN Space - Len(resp.head) ELSE Space
         out == Least(resp.length - resp.sent, room)
         sent == resp.sent + out
     IN  \/ Carry(Plan(IF sent = resp.length THEN "WAIT_ACK" ELSE "CONTENT",
                       resp.head \o First(out, resp.content), From(out, resp.content), resp.length, sent),
                  <<>>)
         \/ /\ failures < Failures /\ failures' = failures + 1
            /\ resp' = [resp EXCEPT !.state = "CONTENT"]
            /\ UNCHANGED <<tcp, wire>>

\* Mutant of Finish: what was written is not waited for.
FinishEarly ==
  /\ resp.state = "WAIT_ACK"
  /\ resp' = [resp EXCEPT !.state = "END"]
  /\ UNCHANGED <<tcp, wire, failures>>

Finish ==
  /\ resp.state = "WAIT_ACK"
  /\ resp' = [resp EXCEPT !.state = IF resp.acked >= resp.written THEN "END" ELSE @]
  /\ UNCHANGED <<tcp, wire, failures>>

\* _ack of either kind.
Advance ==
  /\ req.live /\ req.todo = "advance"
  /\ \/ resp.kind = "file" /\ (FileHead \/ FileContent)
     \/ resp.kind = "basic" /\ resp.state = "CONTENT" /\ Carry(BasicContent, <<>>)
     \/ Finish
  /\ req' = [req EXCEPT !.todo = "none"]
  /\ UNCHANGED <<request, rest, buf>>

-----------------------------------------------------------------------------
(* The handlers, and the callbacks that go on with the response.           *)

File == [NoResponse EXCEPT !.kind = "file", !.state = "HEADERS", !.head = Units(1, HeadSize),
           !.content = Units(HeadSize + 1, HeadSize + ContentSize), !.length = ContentSize,
           !.total = HeadSize + ContentSize]
Json == [NoResponse EXCEPT !.kind = "basic", !.content = Units(HeadSize + 1, HeadSize + ContentSize),
           !.length = ContentSize, !.total = HeadSize + ContentSize]
Code == [NoResponse EXCEPT !.kind = "basic", !.total = HeadSize]

\* A page asks for the login, and its file may be missing.
Answers == CASE req.handler = "page" -> IF request.login THEN {File, Code} ELSE {Code}
             [] req.handler = "data" -> {Json}
             [] OTHER -> {Code}

HandleRequest ==
  /\ req.live /\ req.todo = "handle"
  /\ resp' \in Answers
  /\ tcp' = [tcp EXCEPT !.rxTimeout = FALSE]
  /\ req' = [req EXCEPT !.todo = IF resp'.kind = "file" THEN "advance" ELSE "respond", !.handled = @ + 1]
  /\ UNCHANGED <<request, rest, buf, wire, failures>>

Respond ==
  /\ req.live /\ req.todo = "respond"
  /\ Carry(BasicStart(resp.content), <<>>)
  /\ req' = [req EXCEPT !.todo = "none"]
  /\ UNCHANGED <<request, rest, buf>>

\* lwIP's thread: the send buffer has room again, and an event is posted.
PeerAcks ==
  /\ tcp.open
  /\ \E n \in 1..tcp.unacked : tcp' = [tcp EXCEPT !.unacked = @ - n, !.due = Append(@, n)]
  /\ UNCHANGED <<request, rest, buf, req, resp, wire, failures>>

\* The client's callback stops its timeout and hands the acknowledgement on.
Sent == tcp' = [tcp EXCEPT !.due = Tail(@), !.busy = FALSE]

Finished == resp.state = "END"

\* A finished response is deleted when the next acknowledgement comes.
OnAck ==
  /\ Idle /\ tcp.due # <<>> /\ Sent
  /\ CASE resp.kind = "none" -> UNCHANGED <<req, resp>>
       [] resp.kind # "none" /\ Finished -> resp' = NoResponse /\ UNCHANGED req
       [] OTHER -> /\ resp' = [resp EXCEPT !.acked = @ + Head(tcp.due)]
                   /\ req' = [req EXCEPT !.todo = "advance"]
  /\ UNCHANGED <<request, rest, buf, wire, failures>>

\* Mutant of OnPoll: the poll leaves the response alone.
NoPoll == FALSE /\ UNCHANGED vars

OnPoll ==
  /\ Idle /\ tcp.open /\ resp.kind # "none" /\ ~Finished /\ Space > 0
  /\ req' = [req EXCEPT !.todo = "advance"]
  /\ UNCHANGED <<request, rest, buf, resp, tcp, wire, failures>>

\* lwIP's thread takes the control block away; its event comes later.
PeerCloses ==
  /\ tcp.open /\ tcp' = [tcp EXCEPT !.open = FALSE]
  /\ UNCHANGED <<request, rest, buf, req, resp, wire, failures>>

Disconnected ==
  /\ Idle /\ ~tcp.open /\ tcp.due = <<>>
  /\ Deleted(req)
  /\ UNCHANGED <<request, rest, buf, tcp, wire, failures>>

Closes == /\ tcp' = [tcp EXCEPT !.open = FALSE, !.due = <<>>]
          /\ Deleted(req)
          /\ UNCHANGED <<request, rest, buf, wire, failures>>

\* Mutant of RxTimeout: it is given up with the first line.
RxTimeoutAtStart == Idle /\ tcp.open /\ req.state = "START" /\ Closes

\* Nothing was received for three seconds, before the response.
RxTimeout == Idle /\ tcp.open /\ tcp.rxTimeout /\ Closes

\* What was sent is not acknowledged for five seconds.
AckTimeout == Idle /\ tcp.open /\ tcp.busy /\ Closes

-----------------------------------------------------------------------------
Segment == KeepPart \/ ReqHead \/ ReqHeader \/ EndOfHeaders \/ AttachHandler \/ Continue \/ Body
           \/ PassOver \/ HandleRequest \/ Respond \/ Advance

Next == Deliver \/ Segment \/ PeerAcks \/ OnAck \/ OnPoll \/ PeerCloses \/ Disconnected
        \/ RxTimeout \/ AckTimeout

\* The task takes every event of its queue in turn, and polls come every half
\* second; the peer acknowledges what it got while the connection is open.
Spec == /\ Init /\ [][Next]_vars
        /\ WF_vars(Segment) /\ SF_vars(OnAck) /\ SF_vars(Disconnected)
        /\ SF_vars(OnPoll) /\ WF_vars(RxTimeout) /\ WF_vars(PeerAcks)

-----------------------------------------------------------------------------
(* Properties.                                                             *)

\* The interim response apart, which comes first or not at all, the peer gets
\* the response from its first unit, without a gap, as long as no call fails for
\* want of memory.
Payload == IF wire # <<>> /\ Head(wire) = 0 THEN Tail(wire) ELSE wire
PeerGetsInOrder == failures = 0 => Payload = Units(1, Len(Payload))

\* Whatever fails, no unit goes out twice, and none after a later one.
NothingIsDoubled == \A i, j \in DOMAIN Payload : i < j => Payload[i] < Payload[j]

\* As long as no call fails, a response counts as finished when the peer was sent
\* all of it.  After a failing call it may end unsent: content is cut and counted
\* before write answers.
FinishedIsComplete == failures = 0 /\ Finished => Len(Payload) = resp.total

\* Then the peer has acknowledged it, but for as many bytes as the interim
\* response has: acknowledgements of those count as if they were of these.
FinishedIsAcked == failures = 0 /\ Finished => tcp.unacked <= (IF request.expect THEN 1 ELSE 0)

\* Types, and what a finished response is.
FinishedInv == TypeOK /\ FinishedIsComplete /\ FinishedIsAcked

\* However the request was cut into segments, it has been handled once when
\* all of it is there; but one whose body is followed by more is handled only
\* if a segment ends with the body.
CompleteIsHandled ==
  /\ req.handled <= 1
  /\ req.handled = 1 => req.parsed >= req.length
  /\ Idle /\ rest = <<>> => req.handled = 1 \/ (request.body > 0 /\ request.extra > 0)

\* A request that never gets to its handler is given up.
UnhandledEnds == req.live ~> (req.handled = 1 \/ ~req.live)

\* What a handler answered is sent to the end, unless the connection is lost.
AnswerIsSent == req.handled = 1 ~> (Finished \/ resp.kind = "none" \/ ~tcp.open)

=============================================================================
