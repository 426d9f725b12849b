------------------------- MODULE HttpExchangeProofs -------------------------
(***************************************************************************)
(* Proofs about HttpExchange, for every set of requests, every size of     *)
(* heads, pages and windows, and any number of calls that fail.            *)
(***************************************************************************)
EXTENDS HttpExchange, SequenceTheorems, TLAPS

-----------------------------------------------------------------------------
(* The invariant.                                                          *)

Words == {"newline", "Expect", "Content-Length", "GET", "POST", "/", "/main", "/nowhere"}
Tokens == Words \union {"byte"}
Texts == Seq(Tokens)

\* What a request consists of from the lines after the first on, from the
\* announcement of its body on, from its empty line on, and after that.
Bytes(r) == [i \in 1..(r.body + r.extra) |-> "byte"]
FromEnd(r) == <<Newline>> \o Bytes(r)
FromLength(r) == (IF r.body > 0 THEN Line(<<"Content-Length">>) ELSE <<>>) \o FromEnd(r)
FromExpect(r) == (IF r.expect THEN Line(<<"Expect">>) ELSE <<>>) \o FromLength(r)

\* What was not taken as a line or as body yet.
Left == req.temp \o (buf \o rest)

IsPart(s) == \A i \in DOMAIN s : s[i] # Newline

\* What arrives is what was sent: the parser is where it says it is.
SegmentFits ==
  /\ rest \in Texts /\ buf \in Texts
  /\ \E p \in Texts : p \o (buf \o rest) = Stream(request)

HeadersFit ==
  /\ req.parsed = 0
  /\ \/ Left = FromExpect(request) /\ req.length = 0 /\ ~req.expecting
     \/ Left = FromLength(request) /\ req.length = 0 /\ req.expecting = request.expect
     \/ Left = FromEnd(request) /\ req.length = request.body /\ req.expecting = request.expect

LinesFit ==
  /\ IsPart(req.temp)
  /\ req.state \in {"START", "FAIL"} =>
       req.length = 0 /\ req.parsed = 0 /\ ~req.expecting /\ req.todo = "none"
  /\ req.state = "FAIL" => ~req.live
  /\ req.state = "START" => Left = Stream(request)
  /\ req.state = "HEADERS" => req.todo \in {"none", "attach"}
  /\ req.state = "HEADERS" /\ req.todo = "none" => HeadersFit
  /\ req.todo = "attach" =>
       /\ req.state = "HEADERS" /\ req.parsed = 0 /\ req.temp = <<>>
       /\ req.length = request.body /\ req.expecting = request.expect
       /\ buf \o rest = Bytes(request)

BodyFits ==
  /\ req.state \in {"BODY", "END"} =>
       req.temp = <<>> /\ req.length = request.body /\ req.expecting = request.expect
  /\ req.state = "BODY" =>
       /\ req.todo \in {"none", "continue"} /\ req.length > 0 /\ req.parsed # req.length
       /\ req.parsed + Len(buf) + Len(rest) = request.body + request.extra
  /\ req.state = "END" => req.parsed >= req.length /\ req.todo # "attach"

\* A request is handled when it has ended, and answered from then on.
HandlingFits ==
  /\ req.handled \in {0, 1}
  /\ req.handled = 1 => req.state = "END"
  /\ req.todo = "continue" => req.state \in {"BODY", "END"} /\ req.expecting /\ req.handled = 0
  /\ req.todo = "continue" /\ req.state = "END" => req.length = 0
  /\ req.todo = "handle" => req.state = "END" /\ req.handled = 0
  /\ req.state = "END" /\ req.todo = "none" => req.handled = 1
  /\ req.todo \in {"respond", "advance"} => req.handled = 1 /\ resp.kind # "none"
  /\ req.handled = 0 => resp.kind = "none"

RequestInv == SegmentFits /\ LinesFit /\ BodyFits /\ HandlingFits

\* What a response may be at each of its states, whatever fails: what is left
\* of it are the last units of the whole.
ResponseFits ==
  LET left == resp.length - resp.sent
  IN  /\ resp.kind = "none" => resp = NoResponse
      /\ resp.kind # "none" =>
           /\ resp.total \in {HeadSize, HeadSize + ContentSize}
           /\ resp.state = "SETUP" <=> req.todo = "respond"
           /\ resp.state = "SETUP" =>
                resp.content = Units(HeadSize + 1, resp.total) /\ resp.length = resp.total - HeadSize
           /\ resp.state \in {"HEADERS", "CONTENT"} =>
                left \in 0..resp.total /\ resp.content = Units(resp.total - left + 1, resp.total)
      /\ resp.kind = "basic" => resp.state # "HEADERS" /\ resp.head = <<>>
      /\ resp.kind = "file" =>
           /\ resp.state # "SETUP" /\ \E i \in 1..(HeadSize + 1) : resp.head = Units(i, HeadSize)
           /\ resp.state = "HEADERS" => resp.sent = 0

\* The interim response comes first or not at all.
WireFits ==
  /\ req.state \in {"START", "HEADERS", "FAIL"} \/ req.todo = "continue" => wire = <<>>
  /\ req.handled = 0 => wire = <<>> \/ (request.expect /\ wire = <<0>>)

\* While nothing fails, what is left of a response follows what the peer was
\* sent of it.
ContentFits ==
  LET n == Len(Payload)
      left == resp.length - resp.sent
  IN  /\ Payload = Units(1, n)
      /\ ~request.expect => Payload = wire
      /\ resp.kind # "none" =>
           /\ resp.written = n
           /\ resp.state = "SETUP" => n = 0
           /\ resp.state = "HEADERS" =>
                n <= HeadSize /\ resp.head = Units(n + 1, HeadSize) /\ left = resp.total - HeadSize
           /\ resp.state = "CONTENT" => resp.head = <<>> /\ left = resp.total - n
           /\ resp.state \in {"WAIT_ACK", "END"} => n = resp.total
           /\ resp.state = "END" => resp.acked >= resp.written

\* What the acknowledgements that wait have still to add, from each of them on.
IsTotal(f, due) ==
  /\ f \in [0..Len(due) -> Nat] /\ f[Len(due)] = 0
  /\ \A i \in 1..Len(due) : f[i - 1] = f[i] + due[i]

\* What is acknowledged, on its way to be, or open was handed to TCP.
AcksFit ==
  \E f \in [0..Len(tcp.due) -> Nat] :
    IsTotal(f, tcp.due) /\ resp.acked + f[0] + tcp.unacked <= Len(wire)

ResponseInv == ResponseFits /\ WireFits /\ (failures = 0 => ContentFits) /\ AcksFit

TcpType == [open: BOOLEAN, window: Windows, unacked: Nat, busy: BOOLEAN, rxTimeout: BOOLEAN,
            due: Seq(Nat \ {0})]

ResponseTyped ==
  /\ resp \in AsyncWebServerResponse /\ wire \in Data /\ failures \in 0..Failures
  /\ tcp \in TcpType /\ tcp.unacked <= tcp.window

ExchangeInv ==
  /\ request \in Requests /\ req \in AsyncWebServerRequest /\ ResponseTyped
  /\ RequestInv /\ ResponseInv

-----------------------------------------------------------------------------
(* Sequences.                                                              *)

LEMMA FirstFrom ==
  ASSUME NEW S, NEW s \in Seq(S), NEW n \in 0..Len(s)
  PROVE  /\ First(n, s) \in Seq(S) /\ Len(First(n, s)) = n
         /\ \A i \in 1..n : First(n, s)[i] = s[i]
         /\ From(n, s) \in Seq(S) /\ Len(From(n, s)) = Len(s) - n
         /\ \A i \in 1..(Len(s) - n) : From(n, s)[i] = s[n + i]
         /\ First(n, s) \o From(n, s) = s
<1>1. Len(s) \in Nat /\ \A i \in 1..Len(s) : s[i] \in S
  BY LenProperties, ElementOfSeq
<1>2. \A i \in 1..n : s[i] \in S
  BY <1>1
<1>3. /\ SubSeq(s, 1, n) \in Seq(S) /\ Len(SubSeq(s, 1, n)) = IF 1 <= n THEN n - 1 + 1 ELSE 0
      /\ \A i \in 1..(n - 1 + 1) : SubSeq(s, 1, n)[i] = s[1 + i - 1]
  BY <1>1, <1>2, SubSeqProperties
<1>4. \A i \in (n + 1)..Len(s) : s[i] \in S
  BY <1>1
<1>5. /\ SubSeq(s, n + 1, Len(s)) \in Seq(S)
      /\ Len(SubSeq(s, n + 1, Len(s))) = IF n + 1 <= Len(s) THEN Len(s) - (n + 1) + 1 ELSE 0
      /\ \A i \in 1..(Len(s) - (n + 1) + 1) : SubSeq(s, n + 1, Len(s))[i] = s[n + 1 + i - 1]
  BY <1>1, <1>4, SubSeqProperties
<1>6. SubSeq(s, 1, n) \o SubSeq(s, n + 1, Len(s)) = SubSeq(s, 1, Len(s))
  <2>1. 1 \in 1..(Len(s) + 1) /\ n \in (1 - 1)..Len(s) /\ Len(s) \in n..Len(s)
    BY <1>1
  <2> QED BY <2>1, ConcatAdjacentSubSeq
<1>7. SubSeq(s, 1, Len(s)) = s
  BY SubSeqFull
<1>8. /\ First(n, s) \in Seq(S) /\ Len(First(n, s)) = n
      /\ \A i \in 1..n : First(n, s)[i] = s[i]
  BY <1>1, <1>3 DEF First
<1>9. /\ From(n, s) \in Seq(S) /\ Len(From(n, s)) = Len(s) - n
      /\ \A i \in 1..(Len(s) - n) : From(n, s)[i] = s[n + i]
  BY <1>1, <1>5 DEF From
<1>10. First(n, s) \o From(n, s) = s
  BY <1>6, <1>7 DEF First, From
<1> QED BY <1>8, <1>9, <1>10

LEMMA SuffixIs ==
  ASSUME NEW S, NEW p \in Seq(S), NEW s \in Seq(S)
  PROVE  IsSuffix(s, p \o s)
<1> DEFINE t == p \o s
<1>1. Len(s) \in Nat /\ Len(p) \in Nat
  BY LenProperties
<1>2. /\ t \in Seq(S) /\ Len(t) = Len(p) + Len(s)
      /\ \A i \in 1..(Len(p) + Len(s)) : t[i] = IF i <= Len(p) THEN p[i] ELSE s[i - Len(p)]
  BY ConcatProperties
<1> HIDE DEF t
<1>3. \A i \in 1..Len(t) : t[Len(t) - i + 1] \in S
  BY <1>1, <1>2, ElementOfSeq
<1>4. \A i \in 1..Len(s) : s[Len(s) - i + 1] \in S
  BY <1>1, ElementOfSeq
<1>5. /\ Reverse(t) \in Seq(S) /\ Len(Reverse(t)) = Len(t)
      /\ \A i \in 1..Len(t) : Reverse(t)[i] = t[Len(t) - i + 1]
  BY <1>1, <1>2, <1>3, IsASeq DEF Reverse
<1>6. /\ Reverse(s) \in Seq(S) /\ Len(Reverse(s)) = Len(s)
      /\ \A i \in 1..Len(s) : Reverse(s)[i] = s[Len(s) - i + 1]
  BY <1>1, <1>4, IsASeq DEF Reverse
<1>7. \A i \in 1..Len(s) : Reverse(t)[i] = Reverse(s)[i]
  <2> SUFFICES ASSUME NEW i \in 1..Len(s) PROVE Reverse(t)[i] = Reverse(s)[i]
    OBVIOUS
  <2>1. i \in 1..Len(t) /\ Len(t) - i + 1 \in 1..(Len(p) + Len(s)) /\ ~(Len(t) - i + 1 <= Len(p))
    BY <1>1, <1>2
  <2>2. Reverse(t)[i] = t[Len(t) - i + 1] /\ Reverse(s)[i] = s[Len(s) - i + 1]
    BY <1>5, <1>6, <2>1
  <2>3. t[Len(t) - i + 1] = s[Len(t) - i + 1 - Len(p)]
    BY <1>2, <2>1
  <2>4. Len(t) - i + 1 - Len(p) = Len(s) - i + 1
    BY <1>1, <1>2
  <2> QED BY <2>2, <2>3, <2>4
<1>8. /\ First(Len(s), Reverse(s)) \in Seq(S) /\ Len(First(Len(s), Reverse(s))) = Len(s)
      /\ \A i \in 1..Len(s) : First(Len(s), Reverse(s))[i] = Reverse(s)[i]
  <2>1. Len(s) \in 0..Len(Reverse(s))
    BY <1>1, <1>6
  <2> QED BY <1>6, <2>1, FirstFrom
<1>9. /\ First(Len(s), Reverse(t)) \in Seq(S) /\ Len(First(Len(s), Reverse(t))) = Len(s)
      /\ \A i \in 1..Len(s) : First(Len(s), Reverse(t))[i] = Reverse(t)[i]
  <2>1. Len(s) \in 0..Len(Reverse(t))
    BY <1>1, <1>2, <1>5
  <2> QED BY <1>5, <2>1, FirstFrom
<1>10. First(Len(s), Reverse(s)) = First(Len(s), Reverse(t))
  BY <1>1, <1>7, <1>8, <1>9, SeqEqual
<1> QED BY <1>1, <1>2, <1>5, <1>6, <1>10 DEF IsSuffix, IsPrefix, First, t

\* A line is found the same however it was cut: what waits of it and what is
\* taken from the segment are the line, what stays is what follows it.
TakesAt(t, b, r, w, R, i) ==
  /\ t \in Seq(Tokens) /\ b \in Seq(Tokens) /\ r \in Seq(Tokens) /\ w \in Seq(Tokens) /\ R \in Seq(Tokens)
  /\ IsPart(t) /\ IsPart(w) /\ t \o (b \o r) = w \o (<<Newline>> \o R)
  /\ i \in 1..Len(b) /\ b[i] = Newline /\ \A j \in 1..(i - 1) : b[j] # Newline

LEMMA LineIsTaken ==
  ASSUME NEW t, NEW b, NEW r, NEW w, NEW R, NEW i, TakesAt(t, b, r, w, R, i)
  PROVE  t \o First(i - 1, b) = w /\ From(i, b) \o r = R
<1> DEFINE S == Tokens
<1>s. Newline \in S
  BY DEF Newline, Tokens, Words
<1>q. /\ t \in Seq(S) /\ b \in Seq(S) /\ r \in Seq(S) /\ w \in Seq(S) /\ R \in Seq(S)
      /\ IsPart(t) /\ IsPart(w) /\ t \o (b \o r) = w \o (<<Newline>> \o R)
      /\ i \in 1..Len(b) /\ b[i] = Newline /\ \A j \in 1..(i - 1) : b[j] # Newline
  BY DEF TakesAt
<1> HIDE DEF S
<1> DEFINE l == t \o (b \o r)
           m == <<Newline>> \o R
           n == First(i - 1, b)
           o == From(i, b)
<1>i. i \in 1..Len(b)
  BY <1>q
<1>1. Len(t) \in Nat /\ Len(b) \in Nat /\ Len(r) \in Nat /\ Len(w) \in Nat /\ Len(R) \in Nat
  BY <1>q, LenProperties
<1>2. DOMAIN t = 1..Len(t) /\ DOMAIN w = 1..Len(w)
  BY <1>q, LenProperties
<1>3. /\ b \o r \in Seq(S) /\ Len(b \o r) = Len(b) + Len(r)
      /\ \A j \in 1..(Len(b) + Len(r)) : (b \o r)[j] = IF j <= Len(b) THEN b[j] ELSE r[j - Len(b)]
  BY <1>q, ConcatProperties
<1>4. /\ l \in Seq(S) /\ Len(l) = Len(t) + Len(b) + Len(r)
      /\ \A j \in 1..Len(t) : l[j] = t[j]
      /\ \A j \in (Len(t) + 1)..(Len(t) + Len(b)) : l[j] = b[j - Len(t)]
      /\ \A j \in (Len(t) + Len(b) + 1)..Len(l) : l[j] = r[j - Len(t) - Len(b)]
  <2>1. /\ l \in Seq(S) /\ Len(l) = Len(t) + Len(b \o r)
        /\ \A j \in 1..(Len(t) + Len(b \o r)) : l[j] = IF j <= Len(t) THEN t[j] ELSE (b \o r)[j - Len(t)]
    BY <1>q, <1>3, ConcatProperties
  <2> HIDE DEF l
  <2>2. l \in Seq(S) /\ Len(l) = Len(t) + Len(b) + Len(r) /\ \A j \in 1..Len(t) : l[j] = t[j]
    BY <1>q, <1>1, <1>3, <2>1
  <2>3. ASSUME NEW j \in (Len(t) + 1)..(Len(t) + Len(b)) PROVE l[j] = b[j - Len(t)]
    <3>1. j \in 1..(Len(t) + Len(b \o r)) /\ ~(j <= Len(t)) /\ j - Len(t) \in 1..(Len(b) + Len(r))
          /\ j - Len(t) <= Len(b)
      BY <1>q, <1>1, <1>3
    <3> QED BY <1>q, <1>3, <2>1, <3>1
  <2>4. ASSUME NEW j \in (Len(t) + Len(b) + 1)..Len(l) PROVE l[j] = r[j - Len(t) - Len(b)]
    <3>1. j \in 1..(Len(t) + Len(b \o r)) /\ ~(j <= Len(t)) /\ j - Len(t) \in 1..(Len(b) + Len(r))
          /\ ~(j - Len(t) <= Len(b))
      BY <1>q, <1>1, <1>3, <2>2
    <3> QED BY <1>q, <1>3, <2>1, <3>1
  <2> QED BY <1>q, <2>2, <2>3, <2>4
<1>5. <<Newline>> \in Seq(S) /\ Len(<<Newline>>) = 1 /\ <<Newline>>[1] = Newline
  BY <1>s
<1>6. /\ m \in Seq(S) /\ Len(m) = 1 + Len(R) /\ m[1] = Newline
      /\ \A j \in 1..Len(R) : m[1 + j] = R[j]
  <2>1. /\ m \in Seq(S) /\ Len(m) = Len(<<Newline>>) + Len(R)
        /\ \A j \in 1..(Len(<<Newline>>) + Len(R)) :
             m[j] = IF j <= Len(<<Newline>>) THEN <<Newline>>[j] ELSE R[j - Len(<<Newline>>)]
    BY <1>q, <1>5, ConcatProperties
  <2> HIDE DEF m
  <2> QED BY <1>q, <1>1, <1>5, <2>1
<1>7. /\ Len(l) = Len(w) + 1 + Len(R) /\ l[Len(w) + 1] = Newline
      /\ \A j \in 1..Len(w) : l[j] = w[j]
      /\ \A j \in (Len(w) + 2)..Len(l) : l[j] = R[j - Len(w) - 1]
  <2>1. l = w \o m
    BY <1>q
  <2> HIDE DEF l, m
  <2>2. /\ Len(w \o m) = Len(w) + Len(m)
        /\ \A j \in 1..(Len(w) + Len(m)) : (w \o m)[j] = IF j <= Len(w) THEN w[j] ELSE m[j - Len(w)]
    BY <1>q, <1>6, ConcatProperties, ZenonT(60)
  <2>3. Len(l) = Len(w) + 1 + Len(R) /\ l[Len(w) + 1] = Newline /\ \A j \in 1..Len(w) : l[j] = w[j]
    BY <1>q, <1>1, <1>6, <2>1, <2>2
  <2>4. ASSUME NEW j \in (Len(w) + 2)..Len(l) PROVE l[j] = R[j - Len(w) - 1]
    <3>1. j \in 1..(Len(w) + Len(m)) /\ ~(j <= Len(w)) /\ j - Len(w) - 1 \in 1..Len(R)
          /\ 1 + (j - Len(w) - 1) = j - Len(w)
      BY <1>q, <1>1, <1>6, <2>3, SMTT(30)
    <3> QED BY <1>q, <1>6, <2>1, <2>2, <3>1
  <2> QED BY <1>q, <2>3, <2>4
<1>8. /\ n \in Seq(S) /\ Len(n) = i - 1 /\ \A j \in 1..(i - 1) : n[j] = b[j]
      /\ o \in Seq(S) /\ Len(o) = Len(b) - i /\ \A j \in 1..(Len(b) - i) : o[j] = b[i + j]
  <2>1. i - 1 \in 0..Len(b) /\ i \in 0..Len(b)
    BY <1>q, <1>1
  <2>2. /\ n \in Seq(S) /\ Len(n) = i - 1 /\ \A j \in 1..(i - 1) : n[j] = b[j]
    BY <1>q, <2>1, FirstFrom, ZenonT(60)
  <2>3. /\ o \in Seq(S) /\ Len(o) = Len(b) - i /\ \A j \in 1..(Len(b) - i) : o[j] = b[i + j]
    BY <1>q, <2>1, FirstFrom
  <2> QED BY <1>q, <2>2, <2>3
<1> HIDE DEF l, m, n, o
<1>9. Len(w) = Len(t) + i - 1
  <2>1. l[Len(t) + i] = Newline
    <3>1. PICK k \in (Len(t) + 1)..(Len(t) + Len(b)) : k = Len(t) + i
      BY ONLY <1>1, <1>i
    <3>2. l[k] = b[k - Len(t)]
      BY <1>q, <1>4
    <3>3. k - Len(t) = i
      BY <1>q, <1>1, <3>1
    <3> QED BY <1>q, <3>1, <3>2, <3>3
  <2>2. \A j \in 1..(Len(t) + i - 1) : l[j] # Newline
    <3>1. \A j \in 1..Len(t) : l[j] # Newline
      BY <1>q, <1>2, <1>4 DEF IsPart
    <3>2. ASSUME NEW j \in (Len(t) + 1)..(Len(t) + i - 1) PROVE l[j] # Newline
      <4>1. j \in (Len(t) + 1)..(Len(t) + Len(b)) /\ j - Len(t) \in 1..(i - 1)
        BY <1>q, <1>1
      <4> QED BY <1>q, <1>4, <4>1
    <3> QED BY <1>q, <1>1, <3>1, <3>2
  <2>3. \A j \in 1..Len(w) : l[j] # Newline
    BY <1>q, <1>2, <1>7 DEF IsPart
  <2> QED BY <1>q, <1>1, <1>7, <2>1, <2>2, <2>3
<1>10. /\ t \o n \in Seq(S) /\ Len(t \o n) = Len(t) + Len(n)
       /\ \A j \in 1..(Len(t) + Len(n)) : (t \o n)[j] = IF j <= Len(t) THEN t[j] ELSE n[j - Len(t)]
  BY <1>q, <1>8, ConcatProperties, ZenonT(60)
<1>11. \A j \in 1..Len(w) : (t \o n)[j] = w[j]
  <2> SUFFICES ASSUME NEW j \in 1..Len(w) PROVE (t \o n)[j] = w[j]
    OBVIOUS
  <2>1. CASE j <= Len(t)
    BY <1>i, <1>1, <1>4, <1>7, <1>8, <1>9, <1>10, <2>1
  <2>2. CASE ~(j <= Len(t))
    <3>1. j \in (Len(t) + 1)..(Len(t) + Len(b)) /\ j - Len(t) \in 1..(i - 1) /\ j \in 1..(Len(t) + Len(n))
      BY <1>i, <1>1, <1>8, <1>9, <2>2
    <3>2. (t \o n)[j] = n[j - Len(t)] /\ n[j - Len(t)] = b[j - Len(t)]
      BY <1>q, <1>8, <1>10, <2>2, <3>1
    <3> QED BY <1>q, <1>4, <1>7, <3>1, <3>2
  <2> QED BY <1>q, <2>1, <2>2
<1>12. t \o n = w
  <2>1. Len(t \o n) = Len(w) /\ \A j \in 1..Len(t \o n) : (t \o n)[j] = w[j]
    BY <1>q, <1>1, <1>8, <1>9, <1>10, <1>11
  <2> QED BY <1>q, <1>10, <2>1, SeqEqual
<1>13. /\ o \o r \in Seq(S) /\ Len(o \o r) = Len(o) + Len(r)
       /\ \A j \in 1..(Len(o) + Len(r)) : (o \o r)[j] = IF j <= Len(o) THEN o[j] ELSE r[j - Len(o)]
  BY <1>q, <1>8, ConcatProperties, ZenonT(60)
<1>14. Len(o \o r) = Len(R)
  <2>1. Len(w) + 1 + Len(R) = Len(t) + Len(b) + Len(r)
    BY <1>q, <1>4, <1>7
  <2>2. Len(o \o r) = Len(b) - i + Len(r)
    BY <1>q, <1>8, <1>13
  <2> QED BY ONLY <1>1, <1>9, <2>1, <2>2, <1>i
<1>15. \A j \in 1..Len(R) : (o \o r)[j] = R[j]
  <2> SUFFICES ASSUME NEW j \in 1..Len(R) PROVE (o \o r)[j] = R[j]
    OBVIOUS
  <2> DEFINE k == Len(t) + i + j
  <2>1. k \in (Len(w) + 2)..Len(l) /\ k - Len(w) - 1 = j /\ j \in 1..(Len(o) + Len(r))
    BY <1>i, <1>1, <1>7, <1>9, <1>13, <1>14
  <2>2. l[k] = R[j]
    BY <1>q, <1>7, <2>1
  <2>3. CASE j <= Len(o)
    <3>1. k \in (Len(t) + 1)..(Len(t) + Len(b)) /\ k - Len(t) = i + j /\ j \in 1..(Len(b) - i)
      BY <1>q, <1>1, <1>8, <2>3
    <3>2. (o \o r)[j] = o[j] /\ o[j] = b[i + j]
      BY <1>q, <1>8, <1>13, <2>1, <2>3, <3>1
    <3>3. l[k] = b[k - Len(t)]
      BY <1>q, <1>4, <3>1
    <3> QED BY <1>q, <2>2, <3>1, <3>2, <3>3
  <2>4. CASE ~(j <= Len(o))
    <3>1. k \in (Len(t) + Len(b) + 1)..Len(l) /\ k - Len(t) - Len(b) = j - Len(o)
      BY <1>q, <1>1, <1>8, <2>1, <2>4
    <3>2. (o \o r)[j] = r[j - Len(o)]
      BY <1>q, <1>13, <2>1, <2>4
    <3>3. l[k] = r[k - Len(t) - Len(b)]
      BY <1>q, <1>4, <3>1
    <3> QED BY <1>q, <2>2, <3>1, <3>2, <3>3
  <2> QED BY <1>q, <2>3, <2>4
<1>16. o \o r = R
  BY <1>q, <1>13, <1>14, <1>15, SeqEqual
<1> QED BY <1>q, <1>12, <1>16 DEF n, o

\* While no newline has come, what waits is a part of the line.
LEMMA PartOfLine ==
  ASSUME NEW S, NEW t \in Seq(S), NEW r \in Seq(S), NEW w \in Seq(S), NEW R \in Seq(S),
         Newline \in S, IsPart(t), t \o r = w \o (<<Newline>> \o R)
  PROVE  Len(t) <= Len(w) /\ \A i \in 1..Len(t) : t[i] = w[i]
<1> DEFINE m == <<Newline>> \o R
<1>1. Len(t) \in Nat /\ Len(r) \in Nat /\ Len(w) \in Nat /\ Len(R) \in Nat /\ DOMAIN t = 1..Len(t)
  BY LenProperties
<1>2. <<Newline>> \in Seq(S) /\ Len(<<Newline>>) = 1 /\ <<Newline>>[1] = Newline
  OBVIOUS
<1>3. m \in Seq(S) /\ Len(m) = 1 + Len(R) /\ m[1] = Newline
  <2>1. /\ m \in Seq(S) /\ Len(m) = Len(<<Newline>>) + Len(R)
        /\ \A j \in 1..(Len(<<Newline>>) + Len(R)) :
             m[j] = IF j <= Len(<<Newline>>) THEN <<Newline>>[j] ELSE R[j - Len(<<Newline>>)]
    BY <1>2, ConcatProperties
  <2> HIDE DEF m
  <2> QED BY <1>1, <1>2, <2>1
<1>4. t \o r = w \o m
  OBVIOUS
<1> HIDE DEF m
<1>5. /\ Len(w \o m) = Len(w) + Len(m)
      /\ \A j \in 1..(Len(w) + Len(m)) : (w \o m)[j] = IF j <= Len(w) THEN w[j] ELSE m[j - Len(w)]
  <2>1. m \in Seq(S)
    BY <1>3
  <2> QED BY ONLY <2>1, w \in Seq(S), ConcatProperties
<1>6. /\ Len(t \o r) = Len(t) + Len(r)
      /\ \A j \in 1..(Len(t) + Len(r)) : (t \o r)[j] = IF j <= Len(t) THEN t[j] ELSE r[j - Len(t)]
  BY ConcatProperties
<1>7. (w \o m)[Len(w) + 1] = Newline
  BY <1>1, <1>3, <1>5
<1>8. Len(t) <= Len(w)
  <2> SUFFICES ASSUME Len(w) < Len(t) PROVE FALSE
    BY <1>1
  <2>1. t[Len(w) + 1] = Newline /\ Len(w) + 1 \in 1..Len(t)
    BY <1>1, <1>4, <1>6, <1>7
  <2> QED BY <1>1, <2>1 DEF IsPart
<1>9. \A i \in 1..Len(t) : t[i] = w[i]
  BY <1>1, <1>3, <1>4, <1>5, <1>6, <1>8
<1> QED BY <1>8, <1>9

-----------------------------------------------------------------------------
(* What a request consists of.                                             *)

LEMMA TokensJoin == \A x, y \in Texts : x \o y \in Texts
BY ConcatProperties DEF Texts

LEMMA TokensAssoc == \A x, y, z \in Texts : (x \o y) \o z = x \o (y \o z)
BY ConcatAssociative DEF Texts

Join(x, y) == x \o y

LEMMA JoinAssoc ==
  /\ \A x, y \in Texts : Join(x, y) \in Texts
  /\ \A x, y, z \in Texts : Join(Join(x, y), z) = Join(x, Join(y, z))
BY TokensJoin, TokensAssoc, Zenon DEF Join

LEMMA SixJoin ==
  ASSUME NEW a \in Texts, NEW b \in Texts, NEW c \in Texts, NEW d \in Texts, NEW e \in Texts, NEW f \in Texts
  PROVE  Join(Join(Join(Join(Join(a, b), c), d), e), f) = Join(a, Join(b, Join(c, Join(d, Join(e, f)))))
<1> DEFINE ab == Join(a, b)
           abc == Join(ab, c)
           abcd == Join(abc, d)
           ef == Join(e, f)
           def == Join(d, ef)
           cdef == Join(c, def)
<1>1. /\ ab \in Texts /\ abc \in Texts /\ abcd \in Texts
      /\ ef \in Texts /\ def \in Texts /\ cdef \in Texts
  BY JoinAssoc
<1> HIDE DEF ab, abc, abcd, ef, def, cdef
<1>2. Join(Join(abcd, e), f) = Join(abcd, Join(e, f))
  BY <1>1, JoinAssoc
<1>3. Join(Join(abc, d), ef) = Join(abc, Join(d, ef))
  BY <1>1, JoinAssoc
<1>4. Join(Join(ab, c), def) = Join(ab, Join(c, def))
  BY <1>1, JoinAssoc
<1>5. Join(Join(a, b), cdef) = Join(a, Join(b, cdef))
  BY <1>1, JoinAssoc
<1> QED BY <1>2, <1>3, <1>4, <1>5 DEF ab, abc, abcd, ef, def, cdef

LEMMA TokensEmpty == <<>> \in Texts /\ \A x \in Texts : x \o <<>> = x /\ <<>> \o x = x
BY ConcatEmptySeq DEF Texts

LEMMA RequestParts ==
  ASSUME request \in Requests
  PROVE  /\ request \in Request /\ request.body \in Nat /\ request.extra \in Nat
         /\ request.expect \in BOOLEAN /\ request.blank \in BOOLEAN /\ request.login \in BOOLEAN
         /\ request.method \in {"GET", "POST"} /\ request.url \in {"/", "/main", "/nowhere"}
BY HttpAssumption DEF Request

LEMMA WordsOfLines ==
  /\ Newline \in Words /\ Newline \in Tokens
  /\ <<>> \in Texts /\ IsPart(<<>>)
  /\ <<Newline>> \in Texts
  /\ <<"Expect">> \in Texts /\ IsPart(<<"Expect">>) /\ <<"Expect">> # <<>>
  /\ <<"Content-Length">> \in Texts /\ IsPart(<<"Content-Length">>) /\ <<"Content-Length">> # <<>>
  /\ <<"Expect">> # <<"Content-Length">>
BY DEF Words, Tokens, Texts, Newline, IsPart

LEMMA FirstLine ==
  ASSUME NEW r \in Request
  PROVE  <<r.method, r.url>> \in Texts /\ IsPart(<<r.method, r.url>>) /\ <<r.method, r.url>> # <<>>
<1>1. r.method \in {"GET", "POST"} /\ r.url \in {"/", "/main", "/nowhere"}
  BY DEF Request
<1> QED BY <1>1 DEF Words, Tokens, Texts, Newline, IsPart

LEMMA BytesFit ==
  ASSUME NEW r \in Request
  PROVE  Bytes(r) \in Texts /\ Len(Bytes(r)) = r.body + r.extra
<1>1. r.body + r.extra \in Nat
  BY DEF Request
<1>2. "byte" \in Tokens
  BY DEF Tokens
<1> QED BY <1>1, <1>2, IsASeq DEF Bytes, Texts

\* A line is its words, the newline, and what follows it.
LEMMA LineThen ==
  \A w, R \in Texts :
    Line(w) \in Texts /\ Line(w) \o R \in Texts /\ Line(w) \o R = w \o (<<Newline>> \o R)
<1> SUFFICES ASSUME NEW w \in Texts, NEW R \in Texts
             PROVE  /\ Line(w) \in Texts /\ Line(w) \o R \in Texts
                    /\ Line(w) \o R = w \o (<<Newline>> \o R)
  BY Zenon
<1>1. <<Newline>> \in Texts
  BY WordsOfLines
<1>2. w \o <<Newline>> \in Texts
  BY <1>1, TokensJoin, Zenon
<1>3. (w \o <<Newline>>) \o R \in Texts
  BY <1>2, TokensJoin, Zenon
<1>4. (w \o <<Newline>>) \o R = w \o (<<Newline>> \o R)
  BY <1>1, TokensAssoc, Zenon
<1> QED BY <1>2, <1>3, <1>4, Zenon DEF Line

LEMMA HeadersAre ==
  ASSUME NEW r \in Request
  PROVE  /\ FromEnd(r) \in Texts /\ FromLength(r) \in Texts /\ FromExpect(r) \in Texts
         /\ FromEnd(r) = <<>> \o (<<Newline>> \o Bytes(r))
         /\ r.body > 0 => FromLength(r) = <<"Content-Length">> \o (<<Newline>> \o FromEnd(r))
         /\ ~(r.body > 0) => FromLength(r) = FromEnd(r)
         /\ r.expect => FromExpect(r) = <<"Expect">> \o (<<Newline>> \o FromLength(r))
         /\ ~r.expect => FromExpect(r) = FromLength(r)
<1>1. FromEnd(r) \in Texts /\ FromEnd(r) = <<>> \o (<<Newline>> \o Bytes(r))
  BY BytesFit, WordsOfLines, TokensJoin, TokensEmpty DEF FromEnd
<1>2. /\ FromLength(r) \in Texts
      /\ r.body > 0 => FromLength(r) = <<"Content-Length">> \o (<<Newline>> \o FromEnd(r))
      /\ ~(r.body > 0) => FromLength(r) = FromEnd(r)
  BY <1>1, WordsOfLines, LineThen, TokensEmpty DEF FromLength
<1>3. /\ FromExpect(r) \in Texts
      /\ r.expect => FromExpect(r) = <<"Expect">> \o (<<Newline>> \o FromLength(r))
      /\ ~r.expect => FromExpect(r) = FromLength(r)
  BY <1>2, WordsOfLines, LineThen, TokensEmpty DEF FromExpect
<1> QED BY <1>1, <1>2, <1>3

LEMMA StreamIs ==
  ASSUME NEW r \in Request
  PROVE  /\ Stream(r) \in Texts
         /\ ~r.blank => Stream(r) = <<r.method, r.url>> \o (<<Newline>> \o FromExpect(r))
         /\ r.blank => Stream(r) = <<>> \o (<<Newline>> \o (Line(<<r.method, r.url>>) \o FromExpect(r)))
<1> DEFINE a == IF r.blank THEN <<Newline>> ELSE <<>>
           b == Line(<<r.method, r.url>>)
           c == IF r.expect THEN Line(<<"Expect">>) ELSE <<>>
           d == IF r.body > 0 THEN Line(<<"Content-Length">>) ELSE <<>>
           e == <<Newline>>
           f == Bytes(r)
<1>1. a \in Texts /\ e \in Texts /\ f \in Texts
  BY WordsOfLines, BytesFit
<1>2. b \in Texts
  BY FirstLine, LineThen, WordsOfLines
<1>3. c \in Texts /\ d \in Texts
  BY LineThen, WordsOfLines
<1>4. /\ Stream(r) = ((((a \o b) \o c) \o d) \o e) \o f
      /\ FromExpect(r) = c \o (d \o (e \o f))
  BY DEF Stream, FromExpect, FromLength, FromEnd, Bytes
<1> HIDE DEF a, b, c, d, e, f
<1>5. b \o (c \o (d \o (e \o f))) \in Texts
  BY <1>1, <1>2, <1>3, TokensJoin, Zenon
<1>6. Stream(r) = a \o (b \o FromExpect(r))
  <2>1. Join(Join(Join(Join(Join(a, b), c), d), e), f) = Join(a, Join(b, Join(c, Join(d, Join(e, f)))))
    BY <1>1, <1>2, <1>3, SixJoin
  <2> QED BY <1>4, <2>1, Zenon DEF Join
<1>7. b \o FromExpect(r) \in Texts
  BY <1>4, <1>5
<1>8. Stream(r) \in Texts
  BY <1>1, <1>6, <1>7, TokensJoin
<1>9. CASE r.blank
  <2>1. a = <<Newline>>
    BY <1>9 DEF a
  <2>2. <<Newline>> \o (b \o FromExpect(r)) \in Texts
    BY <1>6, <1>8, <2>1
  <2>3. Stream(r) = <<>> \o (<<Newline>> \o (b \o FromExpect(r)))
    BY <1>6, <2>1, <2>2, TokensEmpty
  <2> QED BY <1>8, <1>9, <2>3 DEF b
<1>10. CASE ~r.blank
  <2>1. Stream(r) = b \o FromExpect(r)
    BY <1>6, <1>7, <1>10, TokensEmpty DEF a
  <2>2. b \o FromExpect(r) = <<r.method, r.url>> \o (<<Newline>> \o FromExpect(r))
    <3>1. FromExpect(r) \in Texts /\ <<r.method, r.url>> \in Texts /\ Newline \in Tokens
      BY HeadersAre, FirstLine, WordsOfLines
    <3> QED BY <3>1, LineThen, Zenon DEF b
  <2> QED BY <1>8, <1>10, <2>1, <2>2
<1> QED BY <1>9, <1>10

\* At each point of the headers a line waits to be taken.
LEMMA HeaderIsNext ==
  ASSUME request \in Requests, req.expecting \in BOOLEAN, HeadersFit
  PROVE  \/ /\ Left = <<"Expect">> \o (<<Newline>> \o FromLength(request))
            /\ request.expect /\ req.length = 0 /\ ~req.expecting
         \/ /\ Left = <<"Content-Length">> \o (<<Newline>> \o FromEnd(request))
            /\ req.length = 0 /\ req.expecting = request.expect
         \/ /\ Left = <<>> \o (<<Newline>> \o Bytes(request))
            /\ req.length = request.body /\ req.expecting = request.expect
<1>1. request \in Request /\ request.body \in Nat /\ request.expect \in BOOLEAN
  BY RequestParts
<1>2. CASE Left = FromEnd(request) /\ req.length = request.body /\ req.expecting = request.expect
  BY <1>1, <1>2, HeadersAre
<1>3. CASE Left = FromLength(request) /\ req.length = 0 /\ req.expecting = request.expect
  <2>1. CASE request.body > 0
    BY <1>1, <1>3, <2>1, HeadersAre
  <2>2. CASE ~(request.body > 0)
    <3>1. request.body = 0 /\ Left = FromEnd(request)
      BY <1>1, <1>3, <2>2, HeadersAre
    <3> QED BY <1>2, <1>3, <3>1
  <2> QED BY <2>1, <2>2
<1>4. CASE Left = FromExpect(request) /\ req.length = 0 /\ req.expecting = FALSE /\ ~request.expect
  <2>1. Left = FromLength(request) /\ req.expecting = request.expect
    BY <1>1, <1>4, HeadersAre
  <2> QED BY <1>3, <1>4, <2>1
<1>5. CASE Left = FromExpect(request) /\ req.length = 0 /\ ~req.expecting /\ request.expect
  BY <1>1, <1>5, HeadersAre
<1> QED BY <1>2, <1>3, <1>4, <1>5 DEF HeadersFit

-----------------------------------------------------------------------------
(* The segment.                                                            *)

LEMMA SuffixesFit ==
  ASSUME request \in Requests, SegmentFits
  PROVE  IsSuffix(rest, Stream(request)) /\ IsSuffix(buf \o rest, Stream(request))
<1>1. PICK p \in Texts : p \o (buf \o rest) = Stream(request)
  BY DEF SegmentFits
<1>2. rest \in Texts /\ buf \in Texts
  BY DEF SegmentFits
<1>3. buf \o rest \in Texts /\ p \o buf \in Texts /\ (p \o buf) \o rest = p \o (buf \o rest)
  BY <1>2, TokensJoin, TokensAssoc
<1>4. IsSuffix(buf \o rest, p \o (buf \o rest))
  BY <1>3, SuffixIs DEF Texts
<1>5. IsSuffix(rest, (p \o buf) \o rest)
  BY <1>2, <1>3, SuffixIs DEF Texts
<1> QED BY <1>1, <1>3, <1>4, <1>5

LEMMA SegmentShrinks ==
  ASSUME SegmentFits, NEW q \in Texts, buf' \in Texts, buf = q \o buf',
         rest' = rest, request' = request
  PROVE  SegmentFits' /\ buf \o rest = q \o (buf' \o rest')
<1>1. PICK p \in Texts : p \o (buf \o rest) = Stream(request)
  BY DEF SegmentFits
<1>2. rest \in Texts
  BY DEF SegmentFits
<1>3. buf' \o rest \in Texts /\ (q \o buf') \o rest = q \o (buf' \o rest)
  BY <1>2, TokensJoin, TokensAssoc
<1>4. p \o q \in Texts /\ (p \o q) \o (buf' \o rest) = p \o (q \o (buf' \o rest))
  BY <1>3, TokensJoin, TokensAssoc
<1>5. (p \o q) \o (buf' \o rest) = Stream(request)
  BY <1>1, <1>3, <1>4
<1> QED BY <1>2, <1>3, <1>4, <1>5 DEF SegmentFits

\* A line that is taken is the next line of the request.
LEMMA TakesNextLine ==
  ASSUME SegmentFits, req.temp \in Texts, IsPart(req.temp),
         NEW w \in Texts, NEW R \in Texts, IsPart(w), Left = w \o (<<Newline>> \o R),
         NEW i \in DOMAIN buf, buf[i] = Newline, \A j \in 1..(i - 1) : buf[j] # Newline,
         buf' = From(i, buf), rest' = rest, request' = request
  PROVE  req.temp \o First(i - 1, buf) = w /\ buf' \o rest' = R /\ SegmentFits'
<1>1. rest \in Texts /\ buf \in Texts
  BY DEF SegmentFits
<1>2. i \in 1..Len(buf) /\ i \in 0..Len(buf) /\ Len(buf) \in Nat
  BY <1>1, LenProperties DEF Texts
<1>3. req.temp \o First(i - 1, buf) = w /\ From(i, buf) \o rest = R
  <2>1. TakesAt(req.temp, buf, rest, w, R, i)
    BY <1>1, <1>2 DEF Left, TakesAt, Texts
  <2> QED BY <2>1, LineIsTaken
<1>4. First(i, buf) \in Texts /\ From(i, buf) \in Texts /\ buf = First(i, buf) \o From(i, buf)
  BY <1>1, <1>2, FirstFrom DEF Texts
<1>5. SegmentFits'
  BY <1>4, SegmentShrinks
<1> QED BY <1>3, <1>5

-----------------------------------------------------------------------------
(* The request.                                                            *)

LEMMA RequestTypes ==
  ASSUME TypeOK
  PROVE  /\ req.state \in {"START", "HEADERS", "BODY", "END", "FAIL"}
         /\ req.temp \in Seq(Words) /\ req.temp \in Texts
         /\ req.length \in Nat /\ req.parsed \in Nat /\ req.handled \in Nat
         /\ req.expecting \in BOOLEAN /\ req.live \in BOOLEAN
         /\ req.handler \in {"none", "page", "data", "catch-all"}
         /\ req.todo \in {"none", "continue", "attach", "handle", "respond", "advance"}
         /\ request \in Requests
<1>1. req \in AsyncWebServerRequest /\ request \in Requests
  BY DEF TypeOK
<1>2. req.temp \in Seq(Words)
  BY <1>1 DEF AsyncWebServerRequest, Words
<1>3. req.temp \in Texts
  BY <1>2, SeqMonotonic DEF Texts, Tokens
<1> QED BY <1>1, <1>2, <1>3 DEF AsyncWebServerRequest

\* A request whose line was taken is one still.
LEMMA TempTaken ==
  ASSUME NEW r \in AsyncWebServerRequest, NEW n \in Nat, NEW e \in BOOLEAN
  PROVE  /\ [[r EXCEPT !.state = "FAIL", !.temp = <<>>] EXCEPT !.live = FALSE] \in AsyncWebServerRequest
         /\ [r EXCEPT !.state = "HEADERS", !.temp = <<>>] \in AsyncWebServerRequest
         /\ [r EXCEPT !.temp = <<>>, !.length = n, !.expecting = e] \in AsyncWebServerRequest
         /\ [r EXCEPT !.temp = <<>>, !.todo = "attach"] \in AsyncWebServerRequest
<1>1. <<>> \in Seq(Words)
  OBVIOUS
<1> QED BY <1>1 DEF AsyncWebServerRequest, Words

\* Before the end of the headers a line is next, of words that are known.
LEMMA LineIsNext ==
  ASSUME TypeOK, RequestInv, req.state \in {"START", "HEADERS"}, req.todo = "none"
  PROVE  \E w \in Seq(Words) : \E R \in Texts : w \in Texts /\ IsPart(w) /\ Left = w \o (<<Newline>> \o R)
<1>1. request \in Requests /\ request \in Request /\ req.expecting \in BOOLEAN
  BY RequestTypes, RequestParts
<1>2. \A w \in Texts, R \in Texts :
        w \in Seq(Words) /\ IsPart(w) /\ Left = w \o (<<Newline>> \o R) =>
          \E v \in Seq(Words) : \E Q \in Texts : v \in Texts /\ IsPart(v) /\ Left = v \o (<<Newline>> \o Q)
  BY Zenon
<1>3. /\ <<>> \in Seq(Words) /\ <<"Expect">> \in Seq(Words) /\ <<"Content-Length">> \in Seq(Words)
      /\ <<request.method, request.url>> \in Seq(Words)
  BY <1>1, RequestParts DEF Words
<1>4. CASE req.state = "START"
  <2>1. Left = Stream(request)
    BY <1>4 DEF RequestInv, LinesFit
  <2>2. CASE request.blank
    <3>1. Line(<<request.method, request.url>>) \o FromExpect(request) \in Texts
      BY <1>1, FirstLine, HeadersAre, LineThen, Zenon
    <3>2. Left = <<>> \o (<<Newline>> \o (Line(<<request.method, request.url>>) \o FromExpect(request)))
      BY <1>1, <2>1, <2>2, StreamIs
    <3> QED BY <1>2, <1>3, <3>1, <3>2, WordsOfLines, Zenon
  <2>3. CASE ~request.blank
    <3>1. Left = <<request.method, request.url>> \o (<<Newline>> \o FromExpect(request))
      BY <1>1, <2>1, <2>3, StreamIs
    <3>2. FromExpect(request) \in Texts /\ <<request.method, request.url>> \in Texts
          /\ IsPart(<<request.method, request.url>>)
      BY <1>1, FirstLine, HeadersAre
    <3> QED BY <1>2, <1>3, <3>1, <3>2, Zenon
  <2> QED BY <2>2, <2>3
<1>5. CASE req.state = "HEADERS"
  <2>1. HeadersFit
    BY <1>5 DEF RequestInv, LinesFit
  <2>2. /\ FromLength(request) \in Texts /\ FromEnd(request) \in Texts /\ Bytes(request) \in Texts
    BY <1>1, HeadersAre, BytesFit
  <2>3. \/ Left = <<"Expect">> \o (<<Newline>> \o FromLength(request))
        \/ Left = <<"Content-Length">> \o (<<Newline>> \o FromEnd(request))
        \/ Left = <<>> \o (<<Newline>> \o Bytes(request))
    BY <1>1, <2>1, HeaderIsNext
  <2> QED BY <1>2, <1>3, <2>2, <2>3, WordsOfLines, Zenon
<1> QED BY <1>4, <1>5

LEMMA DeliverRequest ==
  ASSUME TypeOK, RequestInv, Deliver
  PROVE  RequestInv'
<1> USE DEF RequestInv
<1>1. PICK n \in 1..Len(rest) : buf' = First(n, rest) /\ rest' = From(n, rest)
  BY DEF Deliver
<1>2. buf = <<>> /\ rest \in Texts /\ UNCHANGED <<request, req, resp>>
  BY DEF Deliver, Idle, SegmentFits
<1>3. n \in 0..Len(rest) /\ Len(rest) \in Nat
  BY <1>2, LenProperties DEF Texts
<1>4. /\ buf' \in Texts /\ rest' \in Texts /\ buf' \o rest' = rest
      /\ Len(buf') + Len(rest') = Len(rest)
  <2>1. /\ First(n, rest) \in Texts /\ From(n, rest) \in Texts /\ First(n, rest) \o From(n, rest) = rest
        /\ Len(First(n, rest)) = n /\ Len(From(n, rest)) = Len(rest) - n
    BY <1>2, <1>3, FirstFrom DEF Texts
  <2> HIDE DEF First, From
  <2> QED BY ONLY <1>1, <1>3, <2>1
<1>5. buf \o rest = buf' \o rest' /\ Len(buf) = 0
  BY <1>2, <1>4, TokensEmpty
<1>6. SegmentFits'
  BY <1>2, <1>4, <1>5, Zenon DEF SegmentFits
<1>7. Left' = Left
  BY <1>2, <1>5, Zenon DEF Left
<1>8. LinesFit'
  <2>1. HeadersFit => HeadersFit'
    BY <1>2, <1>7, Zenon DEF HeadersFit
  <2>2. req.todo # "attach"
    BY DEF Deliver, Idle
  <2> QED BY <1>2, <1>7, <2>1, <2>2, Zenon DEF LinesFit
<1>9. BodyFits'
  <2>1. Len(buf') + Len(rest') = Len(buf) + Len(rest) /\ Len(buf) = 0 /\ Len(rest) \in Nat
        /\ Len(buf') \in Nat /\ Len(rest') \in Nat
    BY <1>3, <1>4, <1>5, LenProperties DEF Texts
  <2>2. req.parsed \in Nat
    BY RequestTypes
  <2>3. req.parsed + Len(buf') + Len(rest') = req.parsed + Len(buf) + Len(rest)
    BY ONLY <2>1, <2>2
  <2> QED BY <1>2, <2>3, Zenon DEF BodyFits
<1>10. HandlingFits'
  BY <1>2, Zenon DEF HandlingFits
<1> QED BY <1>6, <1>8, <1>9, <1>10

LEMMA KeepPartRequest ==
  ASSUME TypeOK, RequestInv, KeepPart
  PROVE  RequestInv' /\ req' \in AsyncWebServerRequest
<1> USE DEF RequestInv
<1>1. /\ req.state \in {"START", "HEADERS"} /\ req.todo = "none" /\ req.live
      /\ buf' = <<>> /\ req' = [req EXCEPT !.temp = req.temp \o buf]
      /\ UNCHANGED <<request, rest, resp>> /\ \A i \in DOMAIN buf : buf[i] # Newline
  BY DEF KeepPart, InLines, Working
<1>2. req \in AsyncWebServerRequest /\ req.temp \in Texts /\ buf \in Texts /\ rest \in Texts
  BY RequestTypes DEF TypeOK, SegmentFits
<1>3. /\ req'.temp = req.temp \o buf /\ req'.state = req.state /\ req'.todo = req.todo
      /\ req'.length = req.length /\ req'.parsed = req.parsed /\ req'.expecting = req.expecting
      /\ req'.live = req.live /\ req'.handled = req.handled /\ req'.handler = req.handler
  BY <1>1, <1>2 DEF AsyncWebServerRequest
<1>4. req'.temp \in Texts /\ buf' \in Texts /\ buf = buf \o buf' /\ buf' \o rest' = rest
  BY <1>1, <1>2, <1>3, TokensJoin, TokensEmpty, Zenon
<1>5. SegmentFits'
  BY <1>1, <1>2, <1>4, SegmentShrinks
<1>6. Left' = Left
  <2>1. (req.temp \o buf) \o rest = req.temp \o (buf \o rest)
    BY <1>2, TokensAssoc, Zenon
  <2> QED BY <1>3, <1>4, <2>1, Zenon DEF Left
<1>7. IsPart(req'.temp)
  <2>1. /\ Len(req.temp \o buf) = Len(req.temp) + Len(buf)
        /\ \A i \in 1..(Len(req.temp) + Len(buf)) :
             (req.temp \o buf)[i] = IF i <= Len(req.temp) THEN req.temp[i] ELSE buf[i - Len(req.temp)]
    BY <1>2, ConcatProperties DEF Texts
  <2>2. /\ DOMAIN (req.temp \o buf) = 1..Len(req.temp \o buf) /\ DOMAIN req.temp = 1..Len(req.temp)
        /\ DOMAIN buf = 1..Len(buf) /\ Len(buf) \in Nat /\ Len(req.temp) \in Nat
    BY <1>2, <1>3, <1>4, LenProperties DEF Texts
  <2>3. IsPart(req.temp)
    BY DEF LinesFit
  <2>4. \A i \in DOMAIN (req.temp \o buf) : (req.temp \o buf)[i] # Newline
    <3> SUFFICES ASSUME NEW i \in DOMAIN (req.temp \o buf) PROVE (req.temp \o buf)[i] # Newline
      OBVIOUS
    <3>1. i \in 1..(Len(req.temp) + Len(buf))
      BY <2>1, <2>2
    <3>2. CASE i <= Len(req.temp)
      BY <2>1, <2>2, <2>3, <3>1, <3>2 DEF IsPart
    <3>3. CASE ~(i <= Len(req.temp))
      <4>1. i - Len(req.temp) \in DOMAIN buf
        BY ONLY <2>2, <3>1, <3>3
      <4> QED BY <1>1, <2>1, <3>1, <3>3, <4>1
    <3> QED BY <3>2, <3>3
  <2> QED BY <1>3, <2>4 DEF IsPart
<1>8. req'.temp \in Seq(Words)
  <2>1. PICK w \in Seq(Words), R \in Texts : w \in Texts /\ IsPart(w) /\ Left = w \o (<<Newline>> \o R)
    BY <1>1, LineIsNext
  <2>2. req'.temp \o rest = w \o (<<Newline>> \o R)
    BY <1>4, <1>6, <2>1, Zenon DEF Left
  <2>3. Newline \in Tokens
    BY WordsOfLines
  <2>4. Len(req'.temp) <= Len(w) /\ \A i \in 1..Len(req'.temp) : req'.temp[i] = w[i]
    BY <1>2, <1>4, <1>7, <2>1, <2>2, <2>3, PartOfLine, ZenonT(60) DEF Texts
  <2>5. Len(w) \in Nat /\ Len(req'.temp) \in Nat /\ \A i \in 1..Len(w) : w[i] \in Words
    BY <1>4, LenProperties, ElementOfSeq DEF Texts
  <2>6. \A i \in 1..Len(req'.temp) : req'.temp[i] \in Words
    BY <2>4, <2>5
  <2>7. req'.temp = [i \in 1..Len(req'.temp) |-> req'.temp[i]]
    BY <1>4, LenProperties DEF Texts
  <2> QED BY <2>5, <2>6, <2>7, IsASeq
<1>9. req' \in AsyncWebServerRequest
  BY <1>1, <1>2, <1>3, <1>8 DEF AsyncWebServerRequest, Words
<1>10. LinesFit'
  <2>1. HeadersFit => HeadersFit'
    BY <1>1, <1>3, <1>6, Zenon DEF HeadersFit
  <2> QED BY <1>1, <1>3, <1>6, <1>7, <2>1 DEF LinesFit
<1>11. BodyFits'
  BY <1>1, <1>3 DEF BodyFits
<1>12. HandlingFits'
  BY <1>1, <1>3, Zenon DEF HandlingFits
<1> QED BY <1>5, <1>9, <1>10, <1>11, <1>12

LEMMA ReqHeadRequest ==
  ASSUME TypeOK, RequestInv, ReqHead
  PROVE  RequestInv' /\ req' \in AsyncWebServerRequest
<1> USE DEF RequestInv
<1>1. /\ req.state = "START" /\ req.todo = "none" /\ req.live
      /\ UNCHANGED <<request, rest>>
  BY DEF ReqHead, InLines, Working
<1>2. PICK i \in DOMAIN buf :
        /\ buf[i] = Newline /\ \A j \in 1..(i - 1) : buf[j] # Newline
        /\ buf' = From(i, buf)
        /\ IF req.temp \o First(i - 1, buf) = <<>>
           THEN /\ req' = [[req EXCEPT !.state = "FAIL", !.temp = <<>>] EXCEPT !.live = FALSE]
                /\ resp' = NoResponse
           ELSE req' = [req EXCEPT !.state = "HEADERS", !.temp = <<>>] /\ UNCHANGED resp
  BY DEF ReqHead, TakeLine, Deleted
<1>3. /\ req \in AsyncWebServerRequest /\ req.temp \in Texts /\ request \in Request
      /\ IsPart(req.temp) /\ Left = Stream(request)
      /\ req.length = 0 /\ req.parsed = 0 /\ ~req.expecting /\ req.handled = 0 /\ resp.kind = "none"
  BY <1>1, RequestTypes, RequestParts DEF TypeOK, LinesFit, HandlingFits
<1>5. CASE request.blank
  <2> DEFINE R == Line(<<request.method, request.url>>) \o FromExpect(request)
  <2>1. R \in Texts /\ Left = <<>> \o (<<Newline>> \o R)
    BY <1>3, <1>5, StreamIs, FirstLine, HeadersAre, LineThen, Zenon
  <2> HIDE DEF R
  <2>2. req.temp \o First(i - 1, buf) = <<>> /\ SegmentFits'
    BY <1>1, <1>2, <1>3, <2>1, WordsOfLines, TakesNextLine
  <2>3. /\ req'.temp = <<>> /\ req'.state = "FAIL" /\ req'.todo = "none" /\ req'.length = 0
        /\ req'.parsed = 0 /\ req'.expecting = req.expecting /\ req'.live = FALSE /\ req'.handled = 0
        /\ req' \in AsyncWebServerRequest /\ resp'.kind = "none"
    <3>1. /\ req' = [[req EXCEPT !.state = "FAIL", !.temp = <<>>] EXCEPT !.live = FALSE]
          /\ resp' = NoResponse
      BY <1>2, <2>2
    <3>2. req' \in AsyncWebServerRequest
      BY <1>3, <3>1, TempTaken, Zenon
    <3>3. NoResponse.kind = "none"
      BY DEF NoResponse
    <3>4. /\ req.length = 0 /\ req.parsed = 0 /\ req.handled = 0 /\ req.todo = "none"
          /\ req \in AsyncWebServerRequest
      BY <1>1, <1>3
    <3> QED BY ONLY <3>1, <3>2, <3>3, <3>4 DEF AsyncWebServerRequest
  <2>4. LinesFit'
    BY <1>3, <2>3, WordsOfLines DEF LinesFit
  <2>5. BodyFits' /\ HandlingFits'
    BY <2>3 DEF BodyFits, HandlingFits
  <2> QED BY <2>2, <2>3, <2>4, <2>5
<1>6. CASE ~request.blank
  <2> DEFINE w == <<request.method, request.url>>
  <2>1. /\ w \in Texts /\ IsPart(w) /\ w # <<>> /\ FromExpect(request) \in Texts
        /\ Left = w \o (<<Newline>> \o FromExpect(request))
    BY <1>3, <1>6, StreamIs, FirstLine, HeadersAre, Zenon
  <2> HIDE DEF w
  <2>2. req.temp \o First(i - 1, buf) = w /\ buf' \o rest' = FromExpect(request) /\ SegmentFits'
    BY <1>1, <1>2, <1>3, <2>1, WordsOfLines, TakesNextLine
  <2>3. /\ req'.temp = <<>> /\ req'.state = "HEADERS" /\ req'.todo = "none" /\ req'.length = 0
        /\ req'.parsed = 0 /\ req'.expecting = req.expecting /\ req'.live = req.live /\ req'.handled = 0
        /\ req' \in AsyncWebServerRequest /\ resp' = resp
    <3>1. req' = [req EXCEPT !.state = "HEADERS", !.temp = <<>>] /\ resp' = resp
      BY <1>2, <2>1, <2>2, Zenon
    <3>2. req' \in AsyncWebServerRequest
      BY <1>3, <3>1, TempTaken, Zenon
    <3>3. /\ req.length = 0 /\ req.parsed = 0 /\ req.handled = 0 /\ req.todo = "none"
          /\ req \in AsyncWebServerRequest
      BY <1>1, <1>3
    <3> QED BY ONLY <3>1, <3>2, <3>3 DEF AsyncWebServerRequest
  <2>4. Left' = FromExpect(request')
    BY <1>1, <2>1, <2>2, <2>3, TokensEmpty DEF Left
  <2>5. LinesFit'
    BY <1>3, <2>3, <2>4, WordsOfLines DEF LinesFit, HeadersFit
  <2>6. BodyFits' /\ HandlingFits'
    BY <1>3, <2>3 DEF BodyFits, HandlingFits
  <2> QED BY <2>2, <2>3, <2>5, <2>6
<1> QED BY <1>5, <1>6

LEMMA ReqHeaderRequest ==
  ASSUME TypeOK, RequestInv, ReqHeader
  PROVE  RequestInv' /\ req' \in AsyncWebServerRequest
<1> USE DEF RequestInv
<1>1. /\ req.state = "HEADERS" /\ req.todo = "none" /\ req.live
      /\ UNCHANGED <<request, rest, resp>>
  BY DEF ReqHeader, InLines, Working
<1>2. PICK i \in DOMAIN buf :
        /\ buf[i] = Newline /\ \A j \in 1..(i - 1) : buf[j] # Newline
        /\ buf' = From(i, buf)
        /\ req.temp \o First(i - 1, buf) # <<>>
        /\ req' = [req EXCEPT !.temp = <<>>,
                     !.length = IF req.temp \o First(i - 1, buf) = <<"Content-Length">> THEN request.body ELSE @,
                     !.expecting = @ \/ req.temp \o First(i - 1, buf) = <<"Expect">>]
  BY DEF ReqHeader, TakeLine
<1>3. /\ req \in AsyncWebServerRequest /\ req.temp \in Texts /\ req.expecting \in BOOLEAN
      /\ request \in Requests /\ request \in Request /\ request.body \in Nat
      /\ IsPart(req.temp) /\ HeadersFit /\ req.parsed = 0 /\ req.handled = 0
  BY <1>1, RequestTypes, RequestParts DEF TypeOK, LinesFit, HeadersFit, HandlingFits
<1> DEFINE line == req.temp \o First(i - 1, buf)
<1>4. /\ req'.temp = <<>> /\ req'.state = "HEADERS" /\ req'.todo = "none" /\ req'.parsed = 0
      /\ req'.length = (IF line = <<"Content-Length">> THEN request.body ELSE req.length)
      /\ req'.expecting = (req.expecting \/ line = <<"Expect">>)
      /\ req'.live = req.live /\ req'.handled = 0 /\ req'.handler = req.handler
  BY <1>1, <1>2, <1>3 DEF AsyncWebServerRequest
<1>5. req' \in AsyncWebServerRequest
  <2>1. PICK n \in Nat, e \in BOOLEAN : req' = [req EXCEPT !.temp = <<>>, !.length = n, !.expecting = e]
    <3>1. (IF line = <<"Content-Length">> THEN request.body ELSE req.length) \in Nat
      BY <1>3, RequestTypes
    <3>2. (req.expecting \/ line = <<"Expect">>) \in BOOLEAN
      OBVIOUS
    <3> QED BY <1>2, <3>1, <3>2, Zenon
  <2> QED BY <1>3, <2>1, TempTaken, Zenon
<1>6. line # <<>>
  BY <1>2
<1> HIDE DEF line
<1>7. /\ FromLength(request) \in Texts /\ FromEnd(request) \in Texts /\ Bytes(request) \in Texts
  BY <1>3, HeadersAre, BytesFit
<1>8. ASSUME NEW w \in Texts, NEW R \in Texts, IsPart(w), Left = w \o (<<Newline>> \o R)
      PROVE  line = w /\ SegmentFits' /\ Left' = R
  <2>1. line = w /\ buf' \o rest' = R /\ SegmentFits'
    BY <1>1, <1>2, <1>3, <1>8, TakesNextLine DEF line
  <2> QED BY <1>4, <1>8, <2>1, TokensEmpty DEF Left
<1>9. SegmentFits' /\ HeadersFit'
  <2>1. CASE /\ Left = <<"Expect">> \o (<<Newline>> \o FromLength(request))
             /\ request.expect /\ req.length = 0 /\ ~req.expecting
    <3>1. line = <<"Expect">> /\ SegmentFits' /\ Left' = FromLength(request)
      BY <1>7, <1>8, <2>1, WordsOfLines
    <3> QED BY <1>1, <1>3, <1>4, <2>1, <3>1, WordsOfLines, RequestParts DEF HeadersFit
  <2>2. CASE /\ Left = <<"Content-Length">> \o (<<Newline>> \o FromEnd(request))
             /\ req.length = 0 /\ req.expecting = request.expect
    <3>1. line = <<"Content-Length">> /\ SegmentFits' /\ Left' = FromEnd(request)
      BY <1>7, <1>8, <2>2, WordsOfLines
    <3> QED BY <1>1, <1>3, <1>4, <2>2, <3>1, WordsOfLines DEF HeadersFit
  <2>3. CASE Left = <<>> \o (<<Newline>> \o Bytes(request))
    BY <1>6, <1>7, <1>8, <2>3, WordsOfLines
  <2> QED BY <1>3, <2>1, <2>2, <2>3, HeaderIsNext
<1>10. LinesFit'
  BY <1>4, <1>9, WordsOfLines DEF LinesFit
<1>11. BodyFits' /\ HandlingFits'
  BY <1>1, <1>4 DEF BodyFits, HandlingFits
<1> QED BY <1>5, <1>9, <1>10, <1>11

LEMMA EndOfHeadersRequest ==
  ASSUME TypeOK, RequestInv, EndOfHeaders
  PROVE  RequestInv' /\ req' \in AsyncWebServerRequest
<1> USE DEF RequestInv
<1>1. /\ req.state = "HEADERS" /\ req.todo = "none" /\ req.live
      /\ UNCHANGED <<request, rest, resp>>
  BY DEF EndOfHeaders, InLines, Working
<1>2. PICK i \in DOMAIN buf :
        /\ buf[i] = Newline /\ \A j \in 1..(i - 1) : buf[j] # Newline
        /\ buf' = From(i, buf)
        /\ req.temp \o First(i - 1, buf) = <<>>
        /\ req' = [req EXCEPT !.temp = <<>>, !.todo = "attach"]
  BY DEF EndOfHeaders, TakeLine
<1>3. /\ req \in AsyncWebServerRequest /\ req.temp \in Texts /\ req.expecting \in BOOLEAN
      /\ request \in Requests /\ request \in Request
      /\ IsPart(req.temp) /\ HeadersFit /\ req.parsed = 0 /\ req.handled = 0 /\ resp.kind = "none"
  BY <1>1, RequestTypes, RequestParts DEF TypeOK, LinesFit, HeadersFit, HandlingFits
<1>4. /\ req'.temp = <<>> /\ req'.state = "HEADERS" /\ req'.todo = "attach" /\ req'.parsed = 0
      /\ req'.length = req.length /\ req'.expecting = req.expecting
      /\ req'.live = req.live /\ req'.handled = 0
  BY <1>1, <1>2, <1>3 DEF AsyncWebServerRequest
<1>5. req' \in AsyncWebServerRequest
  BY <1>2, <1>3, TempTaken, Zenon
<1>7. /\ FromLength(request) \in Texts /\ FromEnd(request) \in Texts /\ Bytes(request) \in Texts
  BY <1>3, HeadersAre, BytesFit
<1>8. ASSUME NEW w \in Texts, NEW R \in Texts, IsPart(w), Left = w \o (<<Newline>> \o R)
      PROVE  <<>> = w /\ SegmentFits' /\ buf' \o rest' = R
  BY <1>1, <1>2, <1>3, <1>8, TakesNextLine
<1>9. /\ SegmentFits' /\ buf' \o rest' = Bytes(request)
      /\ req.length = request.body /\ req.expecting = request.expect
  <2>1. CASE Left = <<"Expect">> \o (<<Newline>> \o FromLength(request))
    BY <1>7, <1>8, <2>1, WordsOfLines
  <2>2. CASE Left = <<"Content-Length">> \o (<<Newline>> \o FromEnd(request))
    BY <1>7, <1>8, <2>2, WordsOfLines
  <2>3. CASE /\ Left = <<>> \o (<<Newline>> \o Bytes(request))
             /\ req.length = request.body /\ req.expecting = request.expect
    BY <1>7, <1>8, <2>3, WordsOfLines
  <2> QED BY <1>3, <2>1, <2>2, <2>3, HeaderIsNext
<1>10. LinesFit'
  BY <1>1, <1>4, <1>9, WordsOfLines DEF LinesFit
<1>11. BodyFits' /\ HandlingFits'
  BY <1>1, <1>3, <1>4 DEF BodyFits, HandlingFits
<1> QED BY <1>5, <1>9, <1>10, <1>11

LEMMA AttachRequest ==
  ASSUME TypeOK, RequestInv, AttachHandler
  PROVE  RequestInv' /\ req' \in AsyncWebServerRequest
<1> USE DEF RequestInv
<1>1. /\ req.todo = "attach" /\ req.live /\ UNCHANGED <<request, rest, buf, resp>>
  BY DEF AttachHandler
<1>2. PICK h \in {"page", "data", "catch-all"} :
        req' = [req EXCEPT
                 !.todo = IF req.expecting THEN "continue" ELSE IF req.length > 0 THEN "none" ELSE "handle",
                 !.state = IF req.length > 0 THEN "BODY" ELSE "END", !.handler = h]
  BY Zenon DEF AttachHandler
<1>3. /\ req \in AsyncWebServerRequest /\ request \in Requests /\ request \in Request
      /\ request.body \in Nat /\ request.extra \in Nat
      /\ req.state = "HEADERS" /\ req.parsed = 0 /\ req.temp = <<>> /\ req.handled = 0
      /\ req.length = request.body /\ req.expecting = request.expect /\ req.length \in Nat
      /\ buf \o rest = Bytes(request) /\ resp.kind = "none"
  BY <1>1, RequestTypes, RequestParts DEF TypeOK, LinesFit, HandlingFits
<1>4. /\ req'.temp = <<>> /\ req'.parsed = 0 /\ req'.length = req.length /\ req'.expecting = req.expecting
      /\ req'.state = (IF req.length > 0 THEN "BODY" ELSE "END")
      /\ req'.todo = (IF req.expecting THEN "continue" ELSE IF req.length > 0 THEN "none" ELSE "handle")
      /\ req'.live = req.live /\ req'.handled = 0
  BY <1>2, <1>3 DEF AsyncWebServerRequest
<1>5. req' \in AsyncWebServerRequest
  BY <1>2, <1>3, ZenonT(60) DEF AsyncWebServerRequest
<1>6. SegmentFits'
  BY <1>1, Zenon DEF SegmentFits
<1>7. Len(buf) + Len(rest) = request.body + request.extra /\ Len(buf) \in Nat /\ Len(rest) \in Nat
  <2>1. buf \in Texts /\ rest \in Texts
    BY DEF SegmentFits
  <2>2. Len(buf \o rest) = Len(buf) + Len(rest)
    BY <2>1, ConcatProperties DEF Texts
  <2>3. Len(Bytes(request)) = request.body + request.extra
    BY <1>3, BytesFit
  <2> QED BY <1>3, <2>1, <2>2, <2>3, LenProperties DEF Texts
<1>8. LinesFit'
  BY <1>4, WordsOfLines DEF LinesFit
<1>9. BodyFits'
  <2>1. 0 + Len(buf) + Len(rest) = request.body + request.extra
    BY <1>7
  <2> QED BY <1>1, <1>3, <1>4, <2>1 DEF BodyFits
<1>10. HandlingFits'
  BY <1>1, <1>3, <1>4 DEF HandlingFits
<1> QED BY <1>5, <1>6, <1>8, <1>9, <1>10

\* What is taken of the body, or after the request, is the whole segment.
LEMMA SegmentIsTaken ==
  ASSUME SegmentFits, buf' = <<>>, rest' = rest, request' = request
  PROVE  SegmentFits' /\ Len(buf) \in Nat /\ Len(rest) \in Nat /\ Len(buf') = 0
<1>1. buf \in Texts /\ rest \in Texts
  BY DEF SegmentFits
<1>2. buf' \in Texts /\ buf = buf \o buf'
  BY <1>1, TokensEmpty
<1>3. SegmentFits'
  BY <1>1, <1>2, SegmentShrinks
<1> QED BY <1>1, <1>3, LenProperties DEF Texts

LEMMA BodyRequest ==
  ASSUME TypeOK, RequestInv, Body
  PROVE  RequestInv' /\ req' \in AsyncWebServerRequest
<1> USE DEF RequestInv
<1>1. /\ req.todo = "none" /\ req.state = "BODY" /\ req.live /\ buf' = <<>>
      /\ UNCHANGED <<request, rest, resp>>
      /\ req' = [req EXCEPT !.parsed = req.parsed + Len(buf),
                            !.state = IF req.parsed + Len(buf) = req.length THEN "END" ELSE "BODY",
                            !.todo = IF req.parsed + Len(buf) = req.length THEN "handle" ELSE "none"]
  BY DEF Body, Working
<1>2. /\ req \in AsyncWebServerRequest /\ req.parsed \in Nat /\ req.length \in Nat /\ req.length > 0
      /\ req.temp = <<>> /\ req.length = request.body /\ req.expecting = request.expect
      /\ req.parsed + Len(buf) + Len(rest) = request.body + request.extra
      /\ req.handled = 0 /\ resp.kind = "none"
  BY <1>1, RequestTypes DEF TypeOK, BodyFits, HandlingFits
<1>3. SegmentFits' /\ Len(buf) \in Nat /\ Len(rest) \in Nat /\ Len(buf') = 0
  BY <1>1, SegmentIsTaken
<1>4. PICK n \in Nat : n = req.parsed + Len(buf)
  BY <1>2, <1>3
<1>5. /\ req'.parsed = n /\ req'.temp = <<>> /\ req'.length = req.length /\ req'.expecting = req.expecting
      /\ req'.state = (IF n = req.length THEN "END" ELSE "BODY")
      /\ req'.todo = (IF n = req.length THEN "handle" ELSE "none")
      /\ req'.live = req.live /\ req'.handled = 0
      /\ req' \in AsyncWebServerRequest
  BY <1>1, <1>2, <1>4 DEF AsyncWebServerRequest
<1>6. n + 0 + Len(rest) = request.body + request.extra
  BY <1>2, <1>3, <1>4
<1>7. LinesFit'
  BY <1>5, WordsOfLines DEF LinesFit
<1>8. BodyFits'
  BY <1>1, <1>2, <1>3, <1>5, <1>6 DEF BodyFits
<1>9. HandlingFits'
  BY <1>1, <1>2, <1>5 DEF HandlingFits
<1> QED BY <1>3, <1>5, <1>7, <1>8, <1>9

LEMMA PassOverRequest ==
  ASSUME TypeOK, RequestInv, PassOver
  PROVE  RequestInv'
<1> USE DEF RequestInv
<1>1. /\ req.todo = "none" /\ req.state = "END" /\ buf' = <<>>
      /\ UNCHANGED <<request, rest, req, resp>>
  BY DEF PassOver
<1>2. SegmentFits'
  BY <1>1, SegmentIsTaken
<1>3. LinesFit'
  BY <1>1, Zenon DEF LinesFit
<1>4. BodyFits' /\ HandlingFits'
  BY <1>1, Zenon DEF BodyFits, HandlingFits
<1> QED BY <1>2, <1>3, <1>4

-----------------------------------------------------------------------------
(* A request while its response goes on.                                   *)

LEMMA RequestGoesOn ==
  ASSUME RequestInv, req.state \in {"BODY", "END"}, UNCHANGED <<request, rest, buf>>,
         req'.state = req.state, req'.temp = req.temp, req'.length = req.length,
         req'.parsed = req.parsed, req'.expecting = req.expecting,
         req'.todo # "attach", req.state = "BODY" => req'.todo \in {"none", "continue"}
  PROVE  SegmentFits' /\ LinesFit' /\ BodyFits'
<1>1. SegmentFits'
  BY Zenon DEF RequestInv, SegmentFits
<1>2. LinesFit'
  BY Zenon DEF RequestInv, LinesFit
<1>3. BodyFits'
  BY Zenon DEF RequestInv, BodyFits
<1> QED BY <1>1, <1>2, <1>3

LEMMA RequestStays ==
  ASSUME RequestInv, UNCHANGED <<request, rest, buf>>,
         req'.state = req.state, req'.temp = req.temp, req'.length = req.length,
         req'.parsed = req.parsed, req'.expecting = req.expecting,
         req'.todo = req.todo, req'.live \in {req.live, FALSE}
  PROVE  SegmentFits' /\ LinesFit' /\ BodyFits'
<1>1. SegmentFits'
  BY Zenon DEF RequestInv, SegmentFits
<1>2. Left' = Left
  BY Zenon DEF Left
<1>3. HeadersFit => HeadersFit'
  BY <1>2, Zenon DEF HeadersFit
<1>4. LinesFit'
  BY <1>2, <1>3 DEF RequestInv, LinesFit
<1>5. BodyFits'
  BY Zenon DEF RequestInv, BodyFits
<1> QED BY <1>1, <1>4, <1>5

-----------------------------------------------------------------------------
(* Units, and what is written of them.                                     *)

LEMMA SizesFit ==
  /\ HeadSize \in Nat /\ HeadSize > 0 /\ ContentSize \in Nat /\ ContentSize > 0
  /\ Failures \in Nat /\ \A w \in Windows : w \in Nat
BY HttpAssumption

LEMMA UnitsAre ==
  ASSUME NEW a \in Nat, NEW b \in Nat, a <= b + 1
  PROVE  /\ Units(a, b) \in Seq(Nat) /\ Len(Units(a, b)) = b + 1 - a
         /\ \A i \in 1..(b + 1 - a) : Units(a, b)[i] = a + i - 1
         /\ b <= HeadSize + ContentSize => Units(a, b) \in Data
<1> DEFINE n == b - a + 1
<1>1. n \in Nat /\ n = b + 1 - a
  OBVIOUS
<1>2. \A i \in 1..n : a + i - 1 \in Nat
  OBVIOUS
<1>3. b <= HeadSize + ContentSize => \A i \in 1..n : a + i - 1 \in 0..(HeadSize + ContentSize)
  BY SizesFit
<1>4. Units(a, b) = [i \in 1..n |-> a + i - 1]
  BY DEF Units
<1> HIDE DEF n
<1>5. [i \in 1..n |-> a + i - 1] \in Seq(Nat)
  BY <1>1, <1>2, IsASeq
<1>6. b <= HeadSize + ContentSize => [i \in 1..n |-> a + i - 1] \in Data
  BY <1>1, <1>3, IsASeq DEF Data
<1>7. Len([i \in 1..n |-> a + i - 1]) = n
  BY <1>1
<1> QED BY <1>1, <1>4, <1>5, <1>6, <1>7

LEMMA UnitsEmpty ==
  ASSUME NEW a \in Nat
  PROVE  Units(a + 1, a) = <<>>
<1>1. Units(a + 1, a) \in Seq(Nat) /\ Len(Units(a + 1, a)) = 0
  <2>1. a + 1 \in Nat /\ a + 1 <= a + 1 /\ a + 1 - (a + 1) = 0
    OBVIOUS
  <2> QED BY <2>1, UnitsAre
<1> QED BY <1>1, EmptySeq

LEMMA UnitsCut ==
  ASSUME NEW a \in Nat \ {0}, NEW b \in Nat, a <= b + 1, NEW k \in 0..(b + 1 - a)
  PROVE  First(k, Units(a, b)) = Units(a, a + k - 1) /\ From(k, Units(a, b)) = Units(a + k, b)
<1> DEFINE u == Units(a, b)
           v == Units(a, a + k - 1)
           w == Units(a + k, b)
<1>1. /\ u \in Seq(Nat) /\ Len(u) = b + 1 - a /\ \A i \in 1..(b + 1 - a) : u[i] = a + i - 1
  BY UnitsAre
<1>2. /\ v \in Seq(Nat) /\ Len(v) = k /\ \A i \in 1..k : v[i] = a + i - 1
  <2>1. a + k - 1 \in Nat /\ a <= a + k - 1 + 1 /\ a + k - 1 + 1 - a = k
    OBVIOUS
  <2> QED BY <2>1, UnitsAre
<1>3. /\ w \in Seq(Nat) /\ Len(w) = b + 1 - a - k /\ \A i \in 1..(b + 1 - a - k) : w[i] = a + k + i - 1
  <2>1. a + k \in Nat /\ a + k <= b + 1 /\ b + 1 - (a + k) = b + 1 - a - k
    OBVIOUS
  <2> QED BY <2>1, UnitsAre
<1> HIDE DEF u, v, w
<1>4. /\ First(k, u) \in Seq(Nat) /\ Len(First(k, u)) = k /\ \A i \in 1..k : First(k, u)[i] = u[i]
      /\ From(k, u) \in Seq(Nat) /\ Len(From(k, u)) = Len(u) - k
      /\ \A i \in 1..(Len(u) - k) : From(k, u)[i] = u[k + i]
  <2>1. k \in 0..Len(u)
    BY <1>1
  <2> QED BY <1>1, <2>1, FirstFrom
<1>5. First(k, u) = v
  <2>1. \A i \in 1..k : First(k, u)[i] = v[i]
    <3> SUFFICES ASSUME NEW i \in 1..k PROVE First(k, u)[i] = v[i]
      OBVIOUS
    <3>1. i \in 1..(b + 1 - a)
      OBVIOUS
    <3> QED BY <1>1, <1>2, <1>4, <3>1
  <2> QED BY <1>2, <1>4, <2>1, SeqEqual
<1>6. From(k, u) = w
  <2>1. \A i \in 1..(b + 1 - a - k) : From(k, u)[i] = w[i]
    <3> SUFFICES ASSUME NEW i \in 1..(b + 1 - a - k) PROVE From(k, u)[i] = w[i]
      OBVIOUS
    <3>1. k + i \in 1..(b + 1 - a) /\ i \in 1..(Len(u) - k) /\ a + (k + i) - 1 = a + k + i - 1
      BY <1>1
    <3> QED BY <1>1, <1>3, <1>4, <3>1
  <2>2. Len(From(k, u)) = Len(w) /\ Len(w) = b + 1 - a - k
    BY <1>1, <1>3, <1>4
  <2> QED BY <1>3, <1>4, <2>1, <2>2, SeqEqual
<1> QED BY <1>5, <1>6 DEF u, v, w

LEMMA UnitsJoin ==
  ASSUME NEW a \in Nat \ {0}, NEW b \in Nat, NEW c \in Nat, a <= b + 1, b <= c
  PROVE  Units(a, b) \o Units(b + 1, c) = Units(a, c)
<1>1. a <= c + 1 /\ b + 1 - a \in 0..(c + 1 - a) /\ a + (b + 1 - a) - 1 = b /\ a + (b + 1 - a) = b + 1
  OBVIOUS
<1>2. Units(a, c) \in Seq(Nat) /\ Len(Units(a, c)) = c + 1 - a
  BY <1>1, UnitsAre
<1>3. First(b + 1 - a, Units(a, c)) = Units(a, b) /\ From(b + 1 - a, Units(a, c)) = Units(b + 1, c)
  BY <1>1, UnitsCut
<1>4. First(b + 1 - a, Units(a, c)) \o From(b + 1 - a, Units(a, c)) = Units(a, c)
  BY <1>1, <1>2, FirstFrom
<1> QED BY <1>3, <1>4

\* Data in opaque form.
LEMMA DataFacts ==
  /\ <<>> \in Data /\ <<0>> \in Data
  /\ \A x \in Data : Len(x) \in Nat /\ x \o <<>> = x /\ <<>> \o x = x /\ (Len(x) = 0 <=> x = <<>>)
  /\ \A x, y \in Data : x \o y \in Data /\ Len(x \o y) = Len(x) + Len(y)
<1>1. 0 \in 0..(HeadSize + ContentSize)
  BY SizesFit
<1>2. <<>> \in Data /\ <<0>> \in Data
  BY <1>1 DEF Data
<1>3. \A x \in Data : Len(x) \in Nat /\ x \o <<>> = x /\ <<>> \o x = x /\ (Len(x) = 0 <=> x = <<>>)
  BY LenProperties, ConcatEmptySeq, EmptySeq DEF Data
<1>4. \A x, y \in Data : x \o y \in Data /\ Len(x \o y) = Len(x) + Len(y)
  BY ConcatProperties DEF Data
<1> QED BY <1>2, <1>3, <1>4

LEMMA DataCut ==
  ASSUME NEW x \in Data, NEW k \in 0..Len(x)
  PROVE  First(k, x) \in Data /\ Len(First(k, x)) = k /\ From(k, x) \in Data /\ Len(From(k, x)) = Len(x) - k
         /\ (k = Len(x) => First(k, x) = x)
BY FirstFrom, SubSeqFull, ZenonT(60) DEF Data, First

LEMMA PayloadTypes ==
  ASSUME wire \in Data
  PROVE  Payload \in Data /\ Len(Payload) \in Nat
<1>1. wire # <<>> => Tail(wire) \in Data
  BY HeadTailProperties DEF Data
<1> QED BY <1>1, DataFacts DEF Payload

LEMMA TailGrows ==
  ASSUME NEW S, NEW x \in Seq(S), NEW y \in Seq(S), x # <<>>
  PROVE  x \o y # <<>> /\ (x \o y)[1] = x[1] /\ Tail(x \o y) = Tail(x) \o y
<1> DEFINE z == x \o y
           t == Tail(x)
<1>1. Len(x) \in Nat /\ Len(y) \in Nat /\ Len(x) > 0
  BY LenProperties, EmptySeq
<1>2. /\ z \in Seq(S) /\ Len(z) = Len(x) + Len(y)
      /\ \A i \in 1..(Len(x) + Len(y)) : z[i] = IF i <= Len(x) THEN x[i] ELSE y[i - Len(x)]
  BY ConcatProperties
<1>3. t \in Seq(S) /\ Len(t) = Len(x) - 1 /\ \A i \in 1..Len(t) : t[i] = x[i + 1]
  BY HeadTailProperties
<1> HIDE DEF z, t
<1>4. z # <<>> /\ z[1] = x[1]
  BY <1>1, <1>2, EmptySeq
<1>5. Tail(z) \in Seq(S) /\ Len(Tail(z)) = Len(z) - 1 /\ \A i \in 1..Len(Tail(z)) : Tail(z)[i] = z[i + 1]
  BY <1>2, <1>4, HeadTailProperties
<1>6. /\ t \o y \in Seq(S) /\ Len(t \o y) = Len(t) + Len(y)
      /\ \A i \in 1..(Len(t) + Len(y)) : (t \o y)[i] = IF i <= Len(t) THEN t[i] ELSE y[i - Len(t)]
  BY <1>3, ConcatProperties
<1>7. Len(t \o y) = Len(Tail(z))
  BY ONLY <1>1, <1>2, <1>3, <1>5, <1>6
<1>8. \A i \in 1..Len(Tail(z)) : Tail(z)[i] = (t \o y)[i]
  <2> SUFFICES ASSUME NEW i \in 1..Len(Tail(z)) PROVE Tail(z)[i] = (t \o y)[i]
    OBVIOUS
  <2>1. /\ i \in 1..(Len(t) + Len(y)) /\ i + 1 \in 1..(Len(x) + Len(y)) /\ (i <= Len(t) <=> i + 1 <= Len(x))
        /\ i + 1 - Len(x) = i - Len(t) /\ (i <= Len(t) => i \in 1..Len(t))
    BY <1>1, <1>2, <1>3, <1>5
  <2>2. Tail(z)[i] = z[i + 1]
    BY <1>5
  <2>3. CASE i <= Len(t)
    BY <1>2, <1>3, <1>6, <2>1, <2>2, <2>3
  <2>4. CASE ~(i <= Len(t))
    BY <1>2, <1>6, <2>1, <2>2, <2>4
  <2> QED BY <2>3, <2>4
<1>9. Tail(z) = t \o y
  BY <1>5, <1>6, <1>7, <1>8, SeqEqual
<1> QED BY <1>4, <1>9 DEF z, t

\* What is put out after the interim response is added to what the peer gets.
LEMMA PayloadGrows ==
  ASSUME wire \in Data, NEW d \in Data, wire' = wire \o d, d # <<>> => d[1] # 0
  PROVE  Payload' = Payload \o d /\ (Payload = wire => Payload' = wire')
<1>1. CASE wire = <<>>
  <2>1. wire' = d /\ Payload = <<>>
    BY <1>1, DataFacts DEF Payload
  <2>2. Payload' = d
    BY <2>1 DEF Payload
  <2> QED BY <1>1, <2>1, <2>2, DataFacts
<1>2. CASE wire # <<>>
  <2> DEFINE S == 0..(HeadSize + ContentSize)
  <2>1. wire \in Seq(S) /\ d \in Seq(S)
    BY DEF Data
  <2> HIDE DEF S
  <2>2. wire' # <<>> /\ Head(wire') = Head(wire) /\ Tail(wire') = Tail(wire) \o d
    BY <1>2, <2>1, TailGrows
  <2>3. CASE Head(wire) = 0
    <3>1. Payload = Tail(wire) /\ Payload' = Tail(wire) \o d
      BY <1>2, <2>2, <2>3, Zenon DEF Payload
    <3>2. Tail(wire) # wire
      <4>1. Len(Tail(wire)) = Len(wire) - 1 /\ Len(wire) \in Nat
        BY <1>2, <2>1, HeadTailProperties, LenProperties
      <4> QED BY <4>1
    <3> QED BY <3>1, <3>2
  <2>4. CASE Head(wire) # 0
    BY <1>2, <2>2, <2>4, Zenon DEF Payload
  <2> QED BY <2>3, <2>4
<1> QED BY <1>1, <1>2

LEMMA TcpTypes ==
  ASSUME TypeOK
  PROVE  /\ tcp \in TcpType /\ tcp.open \in BOOLEAN /\ tcp.window \in Windows /\ tcp.window \in Nat
         /\ tcp.unacked \in Nat /\ tcp.unacked <= tcp.window
         /\ tcp.busy \in BOOLEAN /\ tcp.rxTimeout \in BOOLEAN /\ tcp.due \in Seq(Nat \ {0})
         /\ wire \in Data /\ failures \in 0..Failures /\ failures \in Nat
         /\ Space \in Nat /\ tcp.unacked + Space <= tcp.window
<1>1. tcp \in TcpType /\ tcp.unacked <= tcp.window /\ wire \in Data /\ failures \in 0..Failures
  BY DEF TypeOK, TcpType
<1>2. /\ tcp.open \in BOOLEAN /\ tcp.window \in Windows /\ tcp.unacked \in Nat
      /\ tcp.busy \in BOOLEAN /\ tcp.rxTimeout \in BOOLEAN /\ tcp.due \in Seq(Nat \ {0})
  BY <1>1 DEF TcpType
<1>3. tcp.window \in Nat
  BY <1>2, SizesFit, Zenon
<1>4. Space \in Nat /\ tcp.unacked + Space <= tcp.window
  BY <1>1, <1>2, <1>3 DEF Space
<1>5. failures \in Nat
  BY <1>1, SizesFit
<1> QED BY <1>1, <1>2, <1>3, <1>4, <1>5

Queued(t, n, b) == [t EXCEPT !.unacked = n, !.busy = b]

LEMMA WithTcp ==
  ASSUME NEW t \in TcpType, NEW n \in Nat, NEW b \in BOOLEAN
  PROVE  /\ Queued(t, n, b) \in TcpType /\ Queued(t, n, b).unacked = n
         /\ Queued(t, n, b).window = t.window /\ Queued(t, n, b).due = t.due
BY DEF TcpType, Queued

\* A write hands on the first of its data, all that there is room for unless it
\* fails, and returns how many.
LEMMA WriteIs ==
  ASSUME TypeOK, NEW d \in Data, NEW o \in Written(d), Apply(o)
  PROVE  /\ wire' \in Data /\ failures' \in 0..Failures
         /\ tcp' \in TcpType /\ tcp'.unacked <= tcp'.window /\ tcp'.due = tcp.due
         /\ o.n \in Nat
         /\ \E k \in 0..Len(d) :
              wire' = wire \o First(k, d) /\ Len(wire') = Len(wire) + k /\ tcp'.unacked = tcp.unacked + k
         /\ failures' = 0 => failures = 0
         /\ failures' = 0 /\ Len(d) <= Space => wire' = wire \o d /\ o.n = Len(d)
<1>1. Len(d) \in Nat
  BY DataFacts
<1> DEFINE m == Least(Space, Len(d))
<1>2. m \in 0..Len(d) /\ m <= Space /\ (Len(d) <= Space => m = Len(d))
  BY <1>1, TcpTypes DEF Least
<1>3. First(m, d) \in Data /\ Len(First(m, d)) = m /\ (m = Len(d) => First(m, d) = d)
  BY <1>2, DataCut
<1>4. First(0, d) = <<>>
  <2>1. 0 \in 0..Len(d)
    BY <1>1
  <2>2. First(0, d) \in Data /\ Len(First(0, d)) = 0
    BY <2>1, DataCut
  <2> QED BY <2>2, DataFacts
<1>5. \/ o = [sent |-> First(m, d), n |-> m, fails |-> 0]
      \/ o = [sent |-> First(m, d), n |-> 0, fails |-> 1] /\ failures < Failures
      \/ o = [sent |-> First(0, d), n |-> 0, fails |-> 1] /\ failures < Failures
  <2>1. CASE First(m, d) = <<>>
    <3>1. o = [sent |-> <<>>, n |-> 0, fails |-> 0]
      BY <2>1 DEF Written
    <3>2. m = 0
      BY <1>3, <2>1, DataFacts
    <3> QED BY <2>1, <3>1, <3>2
  <2>2. CASE First(m, d) # <<>>
    BY <1>3, <1>4, <2>2 DEF Written
  <2> QED BY <2>1, <2>2
<1> HIDE DEF m
<1>6. PICK k \in 0..Len(d) :
        /\ o.sent = First(k, d) /\ k <= Space /\ o.n \in Nat
        /\ o.fails = 0 \/ (o.fails = 1 /\ failures < Failures)
        /\ o.fails = 0 /\ Len(d) <= Space => o.sent = d /\ o.n = Len(d)
  <2>1. CASE o = [sent |-> First(m, d), n |-> m, fails |-> 0]
    BY <1>2, <1>3, <2>1
  <2>2. CASE o = [sent |-> First(m, d), n |-> 0, fails |-> 1] /\ failures < Failures
    BY <1>2, <2>2
  <2>3. CASE o = [sent |-> First(0, d), n |-> 0, fails |-> 1] /\ failures < Failures
    <3>1. 0 \in 0..Len(d) /\ 0 <= Space
      BY <1>1, TcpTypes
    <3> QED BY <2>3, <3>1
  <2> QED BY <1>5, <2>1, <2>2, <2>3
<1>7. First(k, d) \in Data /\ Len(First(k, d)) = k
  BY <1>6, DataCut
<1>8. wire \in Data /\ tcp.unacked \in Nat /\ tcp.busy \in BOOLEAN /\ tcp \in TcpType /\ failures \in 0..Failures
      /\ tcp.window \in Nat /\ tcp.unacked + Space <= tcp.window /\ Space \in Nat /\ failures \in Nat
  BY TcpTypes
<1>9. wire' = wire \o First(k, d) /\ wire' \in Data /\ Len(wire') = Len(wire) + k
  <2>1. wire' = wire \o First(k, d)
    BY <1>6, Zenon DEF Apply
  <2> QED BY <1>7, <1>8, <2>1, DataFacts
<1>10. PICK u \in Nat, b \in BOOLEAN :
         tcp' = Queued(tcp, u, b) /\ u = tcp.unacked + k /\ u <= tcp.window
  <2>1. tcp' = Queued(tcp, tcp.unacked + k, tcp.busy \/ o.n > 0)
    BY <1>6, <1>7 DEF Apply, Queued
  <2>2. tcp.unacked + k \in Nat /\ tcp.unacked + k <= tcp.window
    BY <1>6, <1>8
  <2>3. (tcp.busy \/ o.n > 0) \in BOOLEAN
    OBVIOUS
  <2> QED BY <2>1, <2>2, <2>3, Zenon
<1>11. tcp' \in TcpType /\ tcp'.unacked = tcp.unacked + k /\ tcp'.unacked <= tcp'.window /\ tcp'.due = tcp.due
  <2>1. tcp' \in TcpType /\ tcp'.unacked = u /\ tcp'.window = tcp.window /\ tcp'.due = tcp.due
    BY <1>8, <1>10, WithTcp, ZenonT(60)
  <2> QED BY <1>10, <2>1
<1>12. failures' = failures + o.fails
  BY DEF Apply
<1>13. failures' \in 0..Failures /\ (failures' = 0 => failures = 0 /\ o.fails = 0)
  BY <1>6, <1>8, <1>12, SizesFit
<1>14. o.fails = 0 /\ Len(d) <= Space => wire' = wire \o d /\ o.n = Len(d)
  BY <1>6, <1>9
<1> QED BY <1>6, <1>9, <1>11, <1>13, <1>14

LEMMA ResponseTypes ==
  ASSUME TypeOK
  PROVE  /\ resp \in AsyncWebServerResponse /\ resp.kind \in {"none", "basic", "file"}
         /\ resp.state \in {"SETUP", "HEADERS", "CONTENT", "WAIT_ACK", "END"}
         /\ resp.head \in Data /\ resp.content \in Data
         /\ resp.length \in Nat /\ resp.sent \in Nat /\ resp.acked \in Nat /\ resp.written \in Nat
         /\ resp.total \in Nat
BY DEF TypeOK, AsyncWebServerResponse

ResponseStates == {"SETUP", "HEADERS", "CONTENT", "WAIT_ACK", "END"}

\* What a plan carried out leaves.
LEMMA CarryIs ==
  ASSUME TypeOK, NEW st \in ResponseStates, NEW d \in Data, NEW c \in Data,
         NEW l \in Nat, NEW s \in Nat, NEW h \in Data, Carry(Plan(st, d, c, l, s), h),
         d # <<>> => d[1] # 0
  PROVE  /\ resp' \in AsyncWebServerResponse
         /\ resp'.state = st /\ resp'.content = c /\ resp'.length = l /\ resp'.sent = s /\ resp'.head = h
         /\ resp'.kind = resp.kind /\ resp'.acked = resp.acked /\ resp'.total = resp.total
         /\ wire' \in Data /\ failures' \in 0..Failures
         /\ tcp' \in TcpType /\ tcp'.unacked <= tcp'.window /\ tcp'.due = tcp.due
         /\ \E k \in Nat : Len(wire') = Len(wire) + k /\ tcp'.unacked = tcp.unacked + k
         /\ failures' = 0 => failures = 0
         /\ failures' = 0 /\ Len(d) <= Space =>
              /\ Payload' = Payload \o d /\ (Payload = wire => Payload' = wire')
              /\ resp'.written = resp.written + Len(d)
<1>1. PICK o \in Written(d) :
        /\ Apply(o)
        /\ resp' = [resp EXCEPT !.state = st, !.content = c, !.length = l, !.sent = s, !.head = h,
                                !.written = resp.written + o.n]
  BY DEF Carry, Plan
<1>2. /\ wire' \in Data /\ failures' \in 0..Failures
      /\ tcp' \in TcpType /\ tcp'.unacked <= tcp'.window /\ tcp'.due = tcp.due
      /\ o.n \in Nat
      /\ \E k \in 0..Len(d) :
           wire' = wire \o First(k, d) /\ Len(wire') = Len(wire) + k /\ tcp'.unacked = tcp.unacked + k
      /\ failures' = 0 => failures = 0
      /\ failures' = 0 /\ Len(d) <= Space => wire' = wire \o d /\ o.n = Len(d)
  BY <1>1, WriteIs
<1>3. resp \in AsyncWebServerResponse /\ resp.written + o.n \in Nat
  <2>1. o.n \in Nat
    BY <1>2
  <2>2. resp \in AsyncWebServerResponse /\ resp.written \in Nat
    BY ResponseTypes
  <2> QED BY ONLY <2>1, <2>2
<1>4. /\ resp' \in AsyncWebServerResponse
      /\ resp'.state = st /\ resp'.content = c /\ resp'.length = l /\ resp'.sent = s /\ resp'.head = h
      /\ resp'.kind = resp.kind /\ resp'.acked = resp.acked /\ resp'.total = resp.total
      /\ resp'.written = resp.written + o.n
  <2>1. PICK w \in Nat : w = resp.written + o.n
    BY <1>3
  <2>2. resp' = [resp EXCEPT !.state = st, !.content = c, !.length = l, !.sent = s, !.head = h, !.written = w]
    BY <1>1, <2>1
  <2>3. st \in ResponseStates /\ c \in Data /\ l \in Nat /\ s \in Nat /\ h \in Data /\ w \in Nat
    OBVIOUS
  <2> QED BY ONLY <1>3, <2>1, <2>2, <2>3 DEF AsyncWebServerResponse, ResponseStates
<1>5. \E k \in Nat : Len(wire') = Len(wire) + k /\ tcp'.unacked = tcp.unacked + k
  BY <1>2, DataFacts
<1>6. failures' = 0 /\ Len(d) <= Space =>
        Payload' = Payload \o d /\ (Payload = wire => Payload' = wire')
  <2>1. wire \in Data
    BY TcpTypes
  <2> QED BY <1>2, <2>1, PayloadGrows
<1> QED BY <1>2, <1>4, <1>5, <1>6

-----------------------------------------------------------------------------
(* The response.                                                           *)

LEMMA TodoChanges ==
  ASSUME TypeOK, NEW t \in {"none", "continue", "attach", "handle", "respond", "advance"},
         req' = [req EXCEPT !.todo = t]
  PROVE  /\ req' \in AsyncWebServerRequest /\ req'.todo = t
         /\ req'.state = req.state /\ req'.temp = req.temp /\ req'.length = req.length
         /\ req'.parsed = req.parsed /\ req'.expecting = req.expecting /\ req'.live = req.live
         /\ req'.handled = req.handled
BY DEF TypeOK, AsyncWebServerRequest

\* The response is gone on with: it was handled, and the request has ended.
LEMMA GoesOnRequest ==
  ASSUME TypeOK, RequestInv, req.todo \in {"respond", "advance"}, req' = [req EXCEPT !.todo = "none"],
         UNCHANGED <<request, rest, buf>>
  PROVE  /\ RequestInv' /\ req' \in AsyncWebServerRequest
         /\ req.handled = 1 /\ req'.handled = 1 /\ req'.state = "END" /\ req'.todo = "none"
         /\ resp.kind # "none"
<1>1. /\ req' \in AsyncWebServerRequest /\ req'.todo = "none"
      /\ req'.state = req.state /\ req'.temp = req.temp /\ req'.length = req.length
      /\ req'.parsed = req.parsed /\ req'.expecting = req.expecting /\ req'.live = req.live
      /\ req'.handled = req.handled
  BY TodoChanges
<1>2. req.handled = 1 /\ req.state = "END" /\ resp.kind # "none"
  BY DEF RequestInv, HandlingFits
<1>3. SegmentFits' /\ LinesFit' /\ BodyFits'
  BY <1>1, <1>2, RequestGoesOn
<1>4. HandlingFits'
  BY <1>1, <1>2 DEF HandlingFits
<1> QED BY <1>1, <1>2, <1>3, <1>4 DEF RequestInv

\* What was written more is open.
LEMMA AcksAfterWrite ==
  ASSUME TypeOK, AcksFit, resp'.acked \in Nat, resp'.acked <= resp.acked, tcp'.due = tcp.due,
         NEW k \in Nat, Len(wire') = Len(wire) + k, tcp'.unacked = tcp.unacked + k
  PROVE  AcksFit'
<1>1. PICK f : /\ f \in [0..Len(tcp.due) -> Nat] /\ IsTotal(f, tcp.due)
               /\ resp.acked + f[0] + tcp.unacked <= Len(wire)
  BY DEF AcksFit
<1>2. resp.acked \in Nat /\ tcp.unacked \in Nat /\ f[0] \in Nat /\ Len(wire) \in Nat
  <2>1. 0 \in 0..Len(tcp.due)
    BY TcpTypes, LenProperties
  <2> QED BY <1>1, <2>1, TcpTypes, ResponseTypes, DataFacts
<1>3. PICK a \in Nat, b \in Nat, c \in Nat, d \in Nat, e \in Nat :
        a = resp.acked /\ b = f[0] /\ c = tcp.unacked /\ d = Len(wire) /\ e = resp'.acked
  BY <1>2, Zenon
<1>4. a + b + c <= d /\ e <= a
  BY <1>1, <1>3
<1>5. e + b + (c + k) <= d + k
  BY <1>4
<1>6. tcp'.unacked = c + k /\ Len(wire') = d + k
  BY <1>3
<1>7. resp'.acked + f[0] + tcp'.unacked <= Len(wire')
  BY <1>3, <1>5, <1>6, Zenon
<1> QED BY <1>1, <1>7, Zenon DEF AcksFit

\* An acknowledgement that is thrown away is waited for no more.
LEMMA AcksForgotten ==
  ASSUME TypeOK, AcksFit, resp'.acked \in Nat, resp'.acked <= resp.acked, tcp'.due \in {tcp.due, <<>>},
         tcp'.unacked = tcp.unacked, wire' = wire
  PROVE  AcksFit'
<1>1. CASE tcp'.due = tcp.due
  <2>1. 0 \in Nat /\ Len(wire') = Len(wire) + 0 /\ tcp'.unacked = tcp.unacked + 0
    BY TcpTypes, DataFacts
  <2> QED BY <1>1, <2>1, AcksAfterWrite
<1>2. CASE tcp'.due = <<>>
  <2>1. PICK f : /\ f \in [0..Len(tcp.due) -> Nat] /\ IsTotal(f, tcp.due)
                 /\ resp.acked + f[0] + tcp.unacked <= Len(wire)
    BY DEF AcksFit
  <2>2. f[0] \in Nat
    <3>1. 0 \in 0..Len(tcp.due)
      BY TcpTypes, LenProperties
    <3> QED BY <2>1, <3>1
  <2>3. PICK a \in Nat, b \in Nat, c \in Nat, d \in Nat, e \in Nat :
          a = resp.acked /\ b = f[0] /\ c = tcp.unacked /\ d = Len(wire) /\ e = resp'.acked
    BY <2>2, TcpTypes, ResponseTypes, DataFacts, Zenon
  <2>4. e + 0 + c <= d
    <3>1. a + b + c <= d /\ e <= a
      BY <2>1, <2>3
    <3> QED BY <3>1
  <2> DEFINE g == [i \in 0..0 |-> 0]
  <2>5. g \in [0..Len(<<>>) -> Nat] /\ g[0] = 0 /\ IsTotal(g, <<>>)
    BY DEF IsTotal
  <2> HIDE DEF g
  <2>6. resp'.acked + g[0] + tcp'.unacked <= Len(wire')
    BY <2>3, <2>4, <2>5
  <2> QED BY <1>2, <2>5, <2>6 DEF AcksFit
<1> QED BY <1>1, <1>2

\* The place in the whole of a response where what is left of it begins.
LEMMA LeftIs ==
  ASSUME TypeOK, ResponseInv, resp.kind # "none", resp.state \in {"HEADERS", "CONTENT"}
  PROVE  \E m \in 0..resp.total :
           /\ resp.length - resp.sent = resp.total - m /\ resp.content = Units(m + 1, resp.total)
           /\ Len(resp.content) = resp.total - m
           /\ failures = 0 /\ resp.state = "CONTENT" => Len(Payload) = m
           /\ failures = 0 /\ resp.state = "HEADERS" => m = HeadSize
<1>1. /\ resp.length - resp.sent \in 0..resp.total
      /\ resp.content = Units(resp.total - (resp.length - resp.sent) + 1, resp.total)
  BY DEF ResponseInv, ResponseFits
<1>2. resp.total \in Nat /\ resp.length \in Nat /\ resp.sent \in Nat
  BY ResponseTypes
<1>3. PICK m \in 0..resp.total : m = resp.total - (resp.length - resp.sent)
  BY <1>1, <1>2
<1>4. resp.content = Units(m + 1, resp.total) /\ resp.length - resp.sent = resp.total - m
  BY <1>1, <1>2, <1>3
<1>5. Len(resp.content) = resp.total - m
  <2>1. m + 1 \in Nat /\ m + 1 <= resp.total + 1 /\ resp.total + 1 - (m + 1) = resp.total - m
    BY <1>2
  <2> QED BY <1>2, <1>4, <2>1, UnitsAre, ZenonT(60)
<1>6. failures = 0 /\ resp.state = "CONTENT" => Len(Payload) = m
  <2> SUFFICES ASSUME failures = 0, resp.state = "CONTENT" PROVE Len(Payload) = m
    OBVIOUS
  <2>1. resp.length - resp.sent = resp.total - Len(Payload)
    BY DEF ResponseInv, ContentFits
  <2>2. Len(Payload) \in Nat
    BY TcpTypes, PayloadTypes
  <2> QED BY ONLY <1>2, <1>3, <2>1, <2>2
<1>7. failures = 0 /\ resp.state = "HEADERS" => m = HeadSize
  <2> SUFFICES ASSUME failures = 0, resp.state = "HEADERS" PROVE m = HeadSize
    OBVIOUS
  <2>1. resp.length - resp.sent = resp.total - HeadSize
    BY DEF ResponseInv, ContentFits
  <2> QED BY ONLY <1>2, <1>3, <2>1, SizesFit
<1> QED BY <1>4, <1>5, <1>6, <1>7

\* What follows on from what the peer has is added to it.
LEMMA PayloadJoins ==
  ASSUME TypeOK, ContentFits, NEW k \in Nat,
         Payload' = Payload \o Units(Len(Payload) + 1, Len(Payload) + k)
  PROVE  Payload' = Units(1, Len(Payload) + k) /\ Len(Payload') = Len(Payload) + k
<1>1. PICK n \in Nat : n = Len(Payload)
  BY TcpTypes, PayloadTypes
<1>2. Payload = Units(1, n)
  BY <1>1 DEF ContentFits
<1>3. PICK c \in Nat : c = n + k
  OBVIOUS
<1>4. 1 \in Nat \ {0} /\ 1 <= n + 1 /\ n <= c /\ 1 <= c + 1 /\ c + 1 - 1 = c
  BY <1>3
<1>5. Units(1, n) \o Units(n + 1, c) = Units(1, c)
  BY <1>3, <1>4, UnitsJoin
<1>6. Len(Units(1, c)) = c
  BY <1>3, <1>4, UnitsAre
<1> QED BY <1>1, <1>2, <1>3, <1>5, <1>6

\* A plan is carried out that starts where the last one stopped and leaves the
\* rest: k units are written, and the content goes on after the first m of all.
PlanFits(st, d, c, l, s, h, m, k) ==
  /\ st \in {"HEADERS", "CONTENT", "WAIT_ACK"} /\ d \in Data /\ c \in Data /\ l \in Nat /\ s \in Nat /\ h \in Data
  /\ Carry(Plan(st, d, c, l, s), h)
  /\ d # <<>> => d[1] # 0
  /\ m \in 0..resp.total /\ k \in Nat
  /\ st \in {"HEADERS", "CONTENT"} => l - s = resp.total - m /\ c = Units(m + 1, resp.total)
  /\ resp.kind = "basic" => st # "HEADERS" /\ h = <<>>
  /\ resp.kind = "file" =>
       (\E i \in 1..(HeadSize + 1) : h = Units(i, HeadSize)) /\ (st = "HEADERS" => s = 0)
  /\ failures = 0 =>
       /\ k <= Space /\ d = Units(Len(Payload) + 1, Len(Payload) + k)
       /\ st = "HEADERS" =>
            Len(Payload) + k <= HeadSize /\ h = Units(Len(Payload) + k + 1, HeadSize) /\ m = HeadSize
       /\ st = "CONTENT" => h = <<>> /\ m = Len(Payload) + k
       /\ st = "WAIT_ACK" => Len(Payload) + k = resp.total

LEMMA ResponseGoesOn ==
  ASSUME TypeOK, RequestInv, ResponseInv,
         req.todo \in {"respond", "advance"}, req' = [req EXCEPT !.todo = "none"],
         UNCHANGED <<request, rest, buf>>,
         NEW st, NEW d, NEW c, NEW l, NEW s, NEW h, NEW m, NEW k, PlanFits(st, d, c, l, s, h, m, k)
  PROVE  RequestInv' /\ ResponseInv' /\ req' \in AsyncWebServerRequest /\ ResponseTyped'
<1>p. /\ st \in {"HEADERS", "CONTENT", "WAIT_ACK"} /\ d \in Data /\ c \in Data
      /\ l \in Nat /\ s \in Nat /\ h \in Data /\ Carry(Plan(st, d, c, l, s), h)
      /\ d # <<>> => d[1] # 0
      /\ m \in 0..resp.total /\ k \in Nat
      /\ st \in {"HEADERS", "CONTENT"} => l - s = resp.total - m /\ c = Units(m + 1, resp.total)
      /\ resp.kind = "basic" => st # "HEADERS" /\ h = <<>>
      /\ resp.kind = "file" =>
           (\E i \in 1..(HeadSize + 1) : h = Units(i, HeadSize)) /\ (st = "HEADERS" => s = 0)
      /\ failures = 0 =>
           /\ k <= Space /\ d = Units(Len(Payload) + 1, Len(Payload) + k)
           /\ st = "HEADERS" =>
                Len(Payload) + k <= HeadSize /\ h = Units(Len(Payload) + k + 1, HeadSize) /\ m = HeadSize
           /\ st = "CONTENT" => h = <<>> /\ m = Len(Payload) + k
           /\ st = "WAIT_ACK" => Len(Payload) + k = resp.total
  BY DEF PlanFits
<1>1. /\ RequestInv' /\ req' \in AsyncWebServerRequest
      /\ req.handled = 1 /\ req'.handled = 1 /\ req'.state = "END" /\ req'.todo = "none"
      /\ resp.kind # "none"
  BY GoesOnRequest
<1>2. /\ resp' \in AsyncWebServerResponse
      /\ resp'.state = st /\ resp'.content = c /\ resp'.length = l /\ resp'.sent = s /\ resp'.head = h
      /\ resp'.kind = resp.kind /\ resp'.acked = resp.acked /\ resp'.total = resp.total
      /\ wire' \in Data /\ failures' \in 0..Failures
      /\ tcp' \in TcpType /\ tcp'.unacked <= tcp'.window /\ tcp'.due = tcp.due
      /\ \E j \in Nat : Len(wire') = Len(wire) + j /\ tcp'.unacked = tcp.unacked + j
      /\ failures' = 0 => failures = 0
      /\ failures' = 0 /\ Len(d) <= Space =>
           /\ Payload' = Payload \o d /\ (Payload = wire => Payload' = wire')
           /\ resp'.written = resp.written + Len(d)
  <2>1. st \in ResponseStates
    BY <1>p DEF ResponseStates
  <2> QED BY ONLY TypeOK, <2>1, <1>p, CarryIs
<1>3. ResponseFits'
  <2>1. l - s = resp.total - m => l - s \in 0..resp.total /\ resp.total - (l - s) = m
    <3>1. resp.total \in Nat /\ m \in 0..resp.total /\ l \in Nat /\ s \in Nat
      BY <1>p, ResponseTypes
    <3> QED BY ONLY <3>1
  <2>2. resp.kind \in {"basic", "file"} /\ resp.total \in {HeadSize, HeadSize + ContentSize}
    BY <1>1, ResponseTypes DEF ResponseInv, ResponseFits
  <2>3. st \in {"HEADERS", "CONTENT"} =>
          l - s \in 0..resp.total /\ c = Units(resp.total - (l - s) + 1, resp.total)
    BY <1>p, <2>1
  <2> QED BY <1>p, <1>1, <1>2, <2>2, <2>3 DEF ResponseFits
<1>4. WireFits'
  BY <1>1 DEF WireFits
<1>5. ASSUME failures' = 0 PROVE ContentFits'
  <2>1. PICK n \in Nat : n = Len(Payload)
    BY TcpTypes, PayloadTypes
  <2>2. PICK p \in Nat : p = n + k
    BY <1>p
  <2>3. failures = 0 /\ ContentFits /\ k <= Space /\ d = Units(n + 1, p)
    BY <1>p, <1>2, <1>5, <2>1, <2>2 DEF ResponseInv
  <2>4. Len(d) = k
    <3>1. n + 1 \in Nat /\ n + 1 <= p + 1 /\ p + 1 - (n + 1) = k
      BY <1>p, <2>2
    <3> QED BY <2>3, <3>1, UnitsAre
  <2>5. /\ Payload' = Payload \o d /\ (Payload = wire => Payload' = wire')
        /\ resp'.written = resp.written + k
    BY <1>2, <1>5, <2>3, <2>4
  <2>6. Payload' = Units(1, p) /\ Len(Payload') = p
    BY <1>p, <2>1, <2>2, <2>3, <2>5, PayloadJoins
  <2>7. resp'.written = p
    <3>1. resp.written = n
      BY <1>1, <2>1, <2>3 DEF ContentFits
    <3> QED BY <2>2, <2>5, <3>1
  <2>8. ~request'.expect => Payload' = wire'
    BY <2>3, <2>5 DEF ContentFits
  <2>9. /\ st = "HEADERS" => p <= HeadSize /\ h = Units(p + 1, HeadSize) /\ l - s = resp.total - HeadSize
        /\ st = "CONTENT" => h = <<>> /\ l - s = resp.total - p
        /\ st = "WAIT_ACK" => p = resp.total
    BY <1>p, <2>1, <2>2, <2>3
  <2> QED BY <1>p, <1>2, <2>6, <2>7, <2>8, <2>9 DEF ContentFits
<1>6. AcksFit'
  <2>1. AcksFit /\ resp'.acked \in Nat /\ resp'.acked <= resp.acked
    BY <1>2, ResponseTypes DEF ResponseInv
  <2>2. PICK j \in Nat : Len(wire') = Len(wire) + j /\ tcp'.unacked = tcp.unacked + j
    BY <1>2
  <2> QED BY <1>2, <2>1, <2>2, AcksAfterWrite
<1> QED BY <1>1, <1>2, <1>3, <1>4, <1>5, <1>6 DEF ResponseInv, ResponseTyped

\* The first of a basic response: its head and as much of its content as there
\* is room for, or nothing at all.
LEMMA BasicStartIs ==
  ASSUME TypeOK, NEW t \in {HeadSize, HeadSize + ContentSize}, NEW x, x = Units(HeadSize + 1, t)
  PROVE  \E k \in 0..t, c \in Data, l \in Nat, s \in Nat, st \in {"CONTENT", "WAIT_ACK"} :
           /\ BasicStart(x) = Plan(st, Units(1, k), c, l, s) /\ k <= Space /\ Units(1, k) \in Data
           /\ st = "WAIT_ACK" => k = t
           /\ st = "CONTENT" => l - s = t - k /\ c = Units(k + 1, t)
<1>1. HeadSize \in Nat \ {0} /\ t \in Nat /\ HeadSize <= t /\ t <= HeadSize + ContentSize /\ Space \in Nat
  BY SizesFit, TcpTypes
<1> DEFINE all == Units(1, HeadSize) \o x
           n == Len(x)
<1>2. n = t - HeadSize /\ x \in Data
  <2>1. HeadSize + 1 \in Nat /\ HeadSize + 1 <= t + 1 /\ t + 1 - (HeadSize + 1) = t - HeadSize
    BY <1>1
  <2> QED BY <1>1, <2>1, UnitsAre
<1>3. all = Units(1, t) /\ Len(all) = t
  <2>1. 1 \in Nat \ {0} /\ 1 <= HeadSize + 1 /\ 1 <= t + 1 /\ t + 1 - 1 = t
    BY <1>1
  <2>2. Units(1, HeadSize) \o Units(HeadSize + 1, t) = Units(1, t)
    BY <1>1, <2>1, UnitsJoin
  <2> QED BY <1>1, <2>1, <2>2, UnitsAre
<1>4. \A k \in 0..t : /\ First(k, all) = Units(1, k) /\ From(k, all) = Units(k + 1, t)
                      /\ Units(1, k) \in Data /\ Units(k + 1, t) \in Data
  <2> SUFFICES ASSUME NEW k \in 0..t
               PROVE  /\ First(k, Units(1, t)) = Units(1, k) /\ From(k, Units(1, t)) = Units(k + 1, t)
                      /\ Units(1, k) \in Data /\ Units(k + 1, t) \in Data
    BY <1>3
  <2>1. /\ 1 \in Nat \ {0} /\ 1 <= t + 1 /\ k \in 0..(t + 1 - 1) /\ 1 + k - 1 = k /\ 1 + k = k + 1
        /\ k \in Nat /\ k + 1 \in Nat /\ 1 <= k + 1 /\ k + 1 <= t + 1 /\ k <= HeadSize + ContentSize
    BY <1>1, SizesFit
  <2>2. First(k, Units(1, t)) = Units(1, k) /\ From(k, Units(1, t)) = Units(k + 1, t)
    <3>1. First(k, Units(1, t)) = Units(1, 1 + k - 1) /\ From(k, Units(1, t)) = Units(1 + k, t)
      BY <1>1, <2>1, UnitsCut
    <3> QED BY <2>1, <3>1
  <2>3. Units(1, k) \in Data /\ Units(k + 1, t) \in Data
    BY <1>1, <2>1, UnitsAre
  <2> QED BY <2>2, <2>3
<1> DEFINE Found(k, c, l, s, st) ==
             /\ BasicStart(x) = Plan(st, Units(1, k), c, l, s) /\ k <= Space /\ Units(1, k) \in Data
             /\ st = "WAIT_ACK" => k = t
             /\ st = "CONTENT" => l - s = t - k /\ c = Units(k + 1, t)
<1>5. BasicStart(x) =
        CASE n = 0 /\ Space >= HeadSize -> Plan("WAIT_ACK", Units(1, HeadSize), <<>>, 0, 0)
          [] n > 0 /\ Space >= HeadSize + n -> Plan("WAIT_ACK", all, x, n, 0)
          [] Space > 0 /\ Space < HeadSize ->
               Plan("CONTENT", First(Space, Units(1, HeadSize)), From(Space, all), n + HeadSize - Space, 0)
          [] Space > HeadSize /\ Space < HeadSize + n ->
               Plan("CONTENT", First(Space, all), From(Space, all), n, Space - HeadSize)
          [] OTHER -> Plan("CONTENT", <<>>, all, n + HeadSize, 0)
  BY DEF BasicStart
<1> HIDE DEF all, n
<1>6. CASE n = 0 /\ Space >= HeadSize
  <2>1. BasicStart(x) = Plan("WAIT_ACK", Units(1, HeadSize), <<>>, 0, 0)
    BY <1>1, <1>5, <1>6
  <2>2. t = HeadSize /\ t \in 0..t
    BY <1>1, <1>2, <1>6
  <2>3. Found(t, <<>>, 0, 0, "WAIT_ACK") /\ <<>> \in Data /\ 0 \in Nat
    BY <1>1, <1>4, <1>6, <2>1, <2>2, DataFacts
  <2> QED BY <2>2, <2>3
<1>7. CASE n > 0 /\ Space >= HeadSize + n
  <2>1. BasicStart(x) = Plan("WAIT_ACK", all, x, n, 0)
    BY <1>1, <1>2, <1>5, <1>7
  <2>2. t \in 0..t /\ t <= Space /\ n \in Nat
    BY <1>1, <1>2, <1>7
  <2>3. Found(t, x, n, 0, "WAIT_ACK")
    BY <1>3, <1>4, <2>1, <2>2
  <2> QED BY <1>2, <2>2, <2>3
<1>8. CASE Space > 0 /\ Space < HeadSize
  <2>1. BasicStart(x) = Plan("CONTENT", First(Space, Units(1, HeadSize)), From(Space, all), n + HeadSize - Space, 0)
    BY <1>1, <1>2, <1>5, <1>8
  <2>2. Space \in 0..t /\ n + HeadSize - Space \in Nat /\ n + HeadSize - Space - 0 = t - Space
    BY <1>1, <1>2, <1>8
  <2>3. First(Space, Units(1, HeadSize)) = Units(1, Space)
    <3>1. 1 \in Nat \ {0} /\ 1 <= HeadSize + 1 /\ Space \in 0..(HeadSize + 1 - 1) /\ 1 + Space - 1 = Space
      BY <1>1, <1>8
    <3>2. First(Space, Units(1, HeadSize)) = Units(1, 1 + Space - 1)
      BY <1>1, <3>1, UnitsCut
    <3> QED BY <3>1, <3>2
  <2>4. Found(Space, From(Space, all), n + HeadSize - Space, 0, "CONTENT") /\ From(Space, all) \in Data
    BY <1>1, <1>4, <2>1, <2>2, <2>3
  <2> QED BY <2>2, <2>4
<1>9. CASE Space > HeadSize /\ Space < HeadSize + n
  <2>1. BasicStart(x) = Plan("CONTENT", First(Space, all), From(Space, all), n, Space - HeadSize)
    BY <1>1, <1>2, <1>5, <1>9
  <2>2. Space \in 0..t /\ n \in Nat /\ Space - HeadSize \in Nat /\ n - (Space - HeadSize) = t - Space
    BY <1>1, <1>2, <1>9
  <2>3. Found(Space, From(Space, all), n, Space - HeadSize, "CONTENT") /\ From(Space, all) \in Data
    BY <1>1, <1>4, <2>1, <2>2
  <2> QED BY <2>2, <2>3
<1>10. CASE /\ ~(n = 0 /\ Space >= HeadSize) /\ ~(n > 0 /\ Space >= HeadSize + n)
            /\ ~(Space > 0 /\ Space < HeadSize) /\ ~(Space > HeadSize /\ Space < HeadSize + n)
  <2>1. BasicStart(x) = Plan("CONTENT", <<>>, all, n + HeadSize, 0)
    BY <1>5, <1>10
  <2>2. 0 \in 0..t /\ n + HeadSize \in Nat /\ n + HeadSize - 0 = t - 0 /\ 0 <= Space
    BY <1>1, <1>2
  <2>3. Units(1, 0) = <<>>
    <3>1. Units(0 + 1, 0) = <<>>
      BY UnitsEmpty
    <3> QED BY <3>1
  <2>4. Found(0, all, n + HeadSize, 0, "CONTENT") /\ all \in Data
    <3>1. Units(1, 0) \in Data /\ Units(0 + 1, t) \in Data /\ Units(0 + 1, t) = Units(1, t)
      BY <1>4, <2>2
    <3>2. all = Units(0 + 1, t) /\ all \in Data
      BY <1>3, <3>1
    <3>3. BasicStart(x) = Plan("CONTENT", Units(1, 0), all, n + HeadSize, 0)
      BY <2>1, <2>3
    <3>4. PICK k \in 0..t, l \in Nat : k = 0 /\ l = n + HeadSize /\ l = t
      BY <1>1, <2>2
    <3>5. /\ BasicStart(x) = Plan("CONTENT", Units(1, k), all, l, 0) /\ Units(1, k) \in Data
          /\ all = Units(k + 1, t)
      BY <3>1, <3>2, <3>3, <3>4
    <3>6. l - 0 = t - k /\ k <= Space
      BY <1>1, <2>2, <3>4
    <3>7. Found(k, all, l, 0, "CONTENT")
      BY <3>5, <3>6
    <3> QED BY <3>2, <3>4, <3>7
  <2> QED BY <2>2, <2>4
<1> QED BY <1>6, <1>7, <1>8, <1>9, <1>10

LEMMA FirstUnit ==
  ASSUME NEW a \in Nat \ {0}, NEW b \in Nat, a <= b + 1, Units(a, b) # <<>>
  PROVE  Units(a, b)[1] # 0
<1>1. Units(a, b) \in Seq(Nat) /\ Len(Units(a, b)) = b + 1 - a /\ \A i \in 1..(b + 1 - a) : Units(a, b)[i] = a + i - 1
  BY UnitsAre
<1>2. Len(Units(a, b)) # 0
  BY <1>1, EmptySeq
<1>3. 1 \in 1..(b + 1 - a)
  BY <1>1, <1>2
<1> QED BY <1>1, <1>3

LEMMA RespondKeeps ==
  ASSUME TypeOK, RequestInv, ResponseInv, Respond
  PROVE  RequestInv' /\ ResponseInv' /\ req' \in AsyncWebServerRequest /\ ResponseTyped'
<1>1. /\ req.todo = "respond" /\ Carry(BasicStart(resp.content), <<>>)
      /\ req' = [req EXCEPT !.todo = "none"] /\ UNCHANGED <<request, rest, buf>>
  BY DEF Respond
<1>2. resp.kind # "none" /\ resp.kind \in {"none", "basic", "file"}
  BY <1>1, ResponseTypes DEF RequestInv, HandlingFits
<1>3. /\ resp.kind = "basic" /\ resp.state = "SETUP"
      /\ resp.total \in {HeadSize, HeadSize + ContentSize} /\ resp.content = Units(HeadSize + 1, resp.total)
  BY <1>1, <1>2 DEF ResponseInv, ResponseFits
<1>4. PICK t \in {HeadSize, HeadSize + ContentSize}, x \in {resp.content} : t = resp.total
  BY <1>3
<1>5. PICK k \in 0..t, c \in Data, l \in Nat, s \in Nat, st \in {"CONTENT", "WAIT_ACK"} :
        /\ BasicStart(x) = Plan(st, Units(1, k), c, l, s) /\ k <= Space /\ Units(1, k) \in Data
        /\ st = "WAIT_ACK" => k = t
        /\ st = "CONTENT" => l - s = t - k /\ c = Units(k + 1, t)
  BY <1>3, <1>4, BasicStartIs
<1>6. Carry(Plan(st, Units(1, k), c, l, s), <<>>)
  BY <1>1, <1>4, <1>5
<1>7. t \in Nat /\ k \in Nat
  BY SizesFit
<1>8. Units(1, k) # <<>> => Units(1, k)[1] # 0
  BY <1>7, FirstUnit
<1>9. failures = 0 => Len(Payload) = 0
  BY <1>2, <1>3 DEF ResponseInv, ContentFits
<1>10. failures = 0 =>
         /\ k <= Space /\ Units(1, k) = Units(Len(Payload) + 1, Len(Payload) + k)
         /\ st = "CONTENT" => k = Len(Payload) + k
         /\ st = "WAIT_ACK" => Len(Payload) + k = resp.total
  <2>1. 0 + 1 = 1 /\ 0 + k = k
    BY <1>7
  <2> QED BY <1>4, <1>5, <1>9, <2>1
<1>11. k \in 0..resp.total /\ <<>> \in Data /\ st \in {"HEADERS", "CONTENT", "WAIT_ACK"} /\ st # "HEADERS"
  BY <1>4, DataFacts
<1>12. PlanFits(st, Units(1, k), c, l, s, <<>>, k, k)
  BY <1>1, <1>3, <1>4, <1>5, <1>6, <1>7, <1>8, <1>10, <1>11 DEF PlanFits
<1> QED BY <1>1, <1>12, ResponseGoesOn

LEMMA BasicContentKeeps ==
  ASSUME TypeOK, RequestInv, ResponseInv, req.todo = "advance", req' = [req EXCEPT !.todo = "none"],
         UNCHANGED <<request, rest, buf>>,
         resp.kind = "basic", resp.state = "CONTENT", Carry(BasicContent, <<>>)
  PROVE  RequestInv' /\ ResponseInv' /\ req' \in AsyncWebServerRequest /\ ResponseTyped'
<1>1. PICK t \in Nat, v \in Nat : t = resp.total /\ v = Space
  BY ResponseTypes, TcpTypes
<1>2. PICK m \in 0..t :
        /\ resp.length - resp.sent = t - m /\ resp.content = Units(m + 1, t) /\ Len(resp.content) = t - m
        /\ failures = 0 => Len(Payload) = m
  BY <1>1, LeftIs
<1>3. /\ resp.content \in Data /\ resp.length \in Nat /\ resp.sent \in Nat
      /\ <<>> \in Data /\ resp.sent + v \in Nat
  BY <1>1, ResponseTypes, DataFacts
<1>4. \A k \in 0..(t - m) :
        /\ First(k, resp.content) = Units(m + 1, m + k) /\ From(k, resp.content) = Units(m + k + 1, t)
        /\ First(k, resp.content) \in Data /\ From(k, resp.content) \in Data
        /\ First(k, resp.content) # <<>> => First(k, resp.content)[1] # 0
  <2> SUFFICES ASSUME NEW k \in 0..(t - m)
               PROVE  /\ First(k, resp.content) = Units(m + 1, m + k)
                      /\ From(k, resp.content) = Units(m + k + 1, t)
                      /\ First(k, resp.content) \in Data /\ From(k, resp.content) \in Data
                      /\ First(k, resp.content) # <<>> => First(k, resp.content)[1] # 0
    OBVIOUS
  <2>1. /\ m + 1 \in Nat \ {0} /\ m + 1 <= t + 1 /\ k \in 0..(t + 1 - (m + 1)) /\ m + 1 + k - 1 = m + k
        /\ m + 1 + k = m + k + 1 /\ m + k \in Nat /\ m + 1 <= m + k + 1 /\ k \in 0..(t - m)
    BY <1>1, SMTT(30)
  <2>2. First(k, Units(m + 1, t)) = Units(m + 1, m + 1 + k - 1) /\ From(k, Units(m + 1, t)) = Units(m + 1 + k, t)
    BY <1>1, <2>1, UnitsCut
  <2>3. First(k, resp.content) \in Data /\ From(k, resp.content) \in Data
    BY <1>2, <1>3, <2>1, DataCut
  <2>4. Units(m + 1, m + k) # <<>> => Units(m + 1, m + k)[1] # 0
    BY <2>1, FirstUnit
  <2> QED BY <1>2, <2>1, <2>2, <2>3, <2>4
<1>5. CASE v > t - m
  <2>1. BasicContent = Plan("WAIT_ACK", First(t - m, resp.content), <<>>, resp.length, resp.sent)
    BY <1>1, <1>2, <1>5 DEF BasicContent
  <2>2. t - m \in 0..(t - m) /\ t - m \in Nat /\ m + (t - m) = t /\ t - m <= v
    BY <1>1, <1>5
  <2>3. /\ First(t - m, resp.content) = Units(m + 1, t) /\ First(t - m, resp.content) \in Data
        /\ First(t - m, resp.content) # <<>> => First(t - m, resp.content)[1] # 0
    BY <1>4, <2>2
  <2>4. failures = 0 =>
          /\ t - m <= Space /\ First(t - m, resp.content) = Units(Len(Payload) + 1, Len(Payload) + (t - m))
          /\ Len(Payload) + (t - m) = resp.total
    BY <1>1, <1>2, <2>2, <2>3
  <2>5. PlanFits("WAIT_ACK", First(t - m, resp.content), <<>>, resp.length, resp.sent, <<>>, m, t - m)
    BY <1>1, <1>3, <2>1, <2>2, <2>3, <2>4 DEF PlanFits
  <2> QED BY <2>5, ResponseGoesOn
<1>6. CASE ~(v > t - m)
  <2>1. BasicContent = Plan("CONTENT", First(v, resp.content), From(v, resp.content), resp.length, resp.sent + v)
    BY <1>1, <1>2, <1>6 DEF BasicContent
  <2>2. v \in 0..(t - m) /\ m + v \in 0..t /\ resp.length - (resp.sent + v) = t - (m + v)
    <3>1. resp.length - resp.sent = t - m /\ resp.length \in Nat /\ resp.sent \in Nat
      BY <1>2, <1>3
    <3>2. PICK a \in Nat, b \in Nat : a = resp.length /\ b = resp.sent
      BY <3>1
    <3> QED BY <1>6, <3>1, <3>2, SMTT(30)
  <2>3. /\ First(v, resp.content) = Units(m + 1, m + v) /\ From(v, resp.content) = Units(m + v + 1, t)
        /\ First(v, resp.content) \in Data /\ From(v, resp.content) \in Data
        /\ First(v, resp.content) # <<>> => First(v, resp.content)[1] # 0
    BY <1>4, <2>2
  <2>4. failures = 0 =>
          /\ v <= Space /\ First(v, resp.content) = Units(Len(Payload) + 1, Len(Payload) + v)
          /\ m + v = Len(Payload) + v
    BY <1>1, <1>2, <2>2, <2>3
  <2>5. PlanFits("CONTENT", First(v, resp.content), From(v, resp.content), resp.length, resp.sent + v, <<>>, m + v, v)
    BY <1>1, <1>3, <2>1, <2>2, <2>3, <2>4 DEF PlanFits
  <2> QED BY <2>5, ResponseGoesOn
<1> QED BY <1>5, <1>6

\* The head of a page goes on where it was left.
LEMMA HeadIs ==
  ASSUME TypeOK, ResponseInv, resp.kind = "file"
  PROVE  \E i \in 1..(HeadSize + 1) :
           /\ resp.head = Units(i, HeadSize) /\ Len(resp.head) = HeadSize + 1 - i
           /\ failures = 0 /\ resp.state = "HEADERS" => i = Len(Payload) + 1
<1>1. \A i \in 1..(HeadSize + 1) : Len(Units(i, HeadSize)) = HeadSize + 1 - i
  <2> SUFFICES ASSUME NEW i \in 1..(HeadSize + 1) PROVE Len(Units(i, HeadSize)) = HeadSize + 1 - i
    OBVIOUS
  <2>1. i \in Nat /\ HeadSize \in Nat /\ i <= HeadSize + 1
    BY SizesFit
  <2> QED BY <2>1, UnitsAre
<1>2. CASE failures = 0 /\ resp.state = "HEADERS"
  <2>1. Len(Payload) <= HeadSize /\ resp.head = Units(Len(Payload) + 1, HeadSize)
    BY <1>2 DEF ResponseInv, ContentFits
  <2>2. Len(Payload) + 1 \in 1..(HeadSize + 1)
    BY <2>1, TcpTypes, PayloadTypes, SizesFit
  <2> QED BY <1>1, <2>1, <2>2
<1>3. CASE ~(failures = 0 /\ resp.state = "HEADERS")
  <2>1. \E i \in 1..(HeadSize + 1) : resp.head = Units(i, HeadSize)
    BY DEF ResponseInv, ResponseFits
  <2> QED BY <1>1, <1>3, <2>1
<1> QED BY <1>2, <1>3

LEMMA FileHeadKeeps ==
  ASSUME TypeOK, RequestInv, ResponseInv, req.todo = "advance", req' = [req EXCEPT !.todo = "none"],
         UNCHANGED <<request, rest, buf>>, resp.kind = "file", FileHead
  PROVE  RequestInv' /\ ResponseInv' /\ req' \in AsyncWebServerRequest /\ ResponseTyped'
<1>1. /\ resp.state = "HEADERS" /\ Space < Len(resp.head)
      /\ Carry(Plan("HEADERS", First(Space, resp.head), resp.content, resp.length, 0), From(Space, resp.head))
  BY DEF FileHead
<1>2. PICK v \in Nat : v = Space
  BY TcpTypes
<1>3. PICK i \in 1..(HeadSize + 1) :
        /\ resp.head = Units(i, HeadSize) /\ Len(resp.head) = HeadSize + 1 - i
        /\ failures = 0 => i = Len(Payload) + 1
  BY <1>1, HeadIs
<1>4. PICK m \in 0..resp.total :
        /\ resp.length - resp.sent = resp.total - m /\ resp.content = Units(m + 1, resp.total)
        /\ failures = 0 => m = HeadSize
  BY <1>1, LeftIs
<1>5. resp.sent = 0 /\ resp.length \in Nat /\ resp.content \in Data /\ resp.head \in Data /\ HeadSize \in Nat
  BY <1>1, ResponseTypes, SizesFit DEF ResponseInv, ResponseFits
<1>6. /\ v \in 0..(HeadSize + 1 - i) /\ v < HeadSize + 1 - i /\ i + v \in 1..(HeadSize + 1)
      /\ i \in Nat \ {0} /\ i <= HeadSize + 1 /\ i + v - 1 \in Nat /\ i <= i + v - 1 + 1
  BY <1>1, <1>2, <1>3, <1>5, SMTT(30)
<1>7. /\ First(v, resp.head) = Units(i, i + v - 1) /\ From(v, resp.head) = Units(i + v, HeadSize)
      /\ First(v, resp.head) \in Data /\ From(v, resp.head) \in Data
      /\ First(v, resp.head) # <<>> => First(v, resp.head)[1] # 0
  <2>1. First(v, resp.head) = Units(i, i + v - 1) /\ From(v, resp.head) = Units(i + v, HeadSize)
    BY <1>3, <1>5, <1>6, UnitsCut
  <2>2. First(v, resp.head) \in Data /\ From(v, resp.head) \in Data
    BY <1>3, <1>5, <1>6, DataCut
  <2>3. Units(i, i + v - 1) # <<>> => Units(i, i + v - 1)[1] # 0
    BY <1>6, FirstUnit
  <2> QED BY <2>1, <2>2, <2>3
<1>8. failures = 0 =>
        /\ First(v, resp.head) = Units(Len(Payload) + 1, Len(Payload) + v)
        /\ Len(Payload) + v <= HeadSize /\ From(v, resp.head) = Units(Len(Payload) + v + 1, HeadSize)
        /\ m = HeadSize
  <2> SUFFICES ASSUME failures = 0
               PROVE  /\ First(v, resp.head) = Units(Len(Payload) + 1, Len(Payload) + v)
                      /\ Len(Payload) + v <= HeadSize
                      /\ From(v, resp.head) = Units(Len(Payload) + v + 1, HeadSize)
                      /\ m = HeadSize
    OBVIOUS
  <2>1. PICK n \in Nat : n = Len(Payload)
    BY TcpTypes, PayloadTypes
  <2>2. i = n + 1 /\ i + v - 1 = n + v /\ i + v = n + v + 1 /\ n + v <= HeadSize
    <3>1. i = n + 1
      BY <1>3, <2>1
    <3> QED BY ONLY <1>6, <3>1, n \in Nat, v \in Nat, SizesFit
  <2> QED BY <1>4, <1>7, <2>1, <2>2
<1>9. resp.length - 0 = resp.total - m
  BY <1>4, <1>5
<1>10. PlanFits("HEADERS", First(v, resp.head), resp.content, resp.length, 0, From(v, resp.head), m, v)
  BY <1>1, <1>2, <1>4, <1>5, <1>6, <1>7, <1>8, <1>9, SMTT(30) DEF PlanFits
<1> QED BY <1>10, ResponseGoesOn

LEMMA FileContentKeeps ==
  ASSUME TypeOK, RequestInv, ResponseInv, req.todo = "advance", req' = [req EXCEPT !.todo = "none"],
         UNCHANGED <<request, rest, buf>>, resp.kind = "file", FileContent
  PROVE  RequestInv' /\ ResponseInv' /\ req' \in AsyncWebServerRequest /\ ResponseTyped'
<1>1. PICK t \in Nat, v \in Nat, g \in Nat :
        t = resp.total /\ v = Space /\ g = Len(resp.head)
  BY ResponseTypes, TcpTypes, DataFacts
<1>2. resp.state = "CONTENT" \/ (resp.state = "HEADERS" /\ v >= g)
  BY <1>1 DEF FileContent
<1>3. PICK m \in 0..t :
        /\ resp.length - resp.sent = t - m /\ resp.content = Units(m + 1, t) /\ Len(resp.content) = t - m
        /\ failures = 0 /\ resp.state = "CONTENT" => Len(Payload) = m
        /\ failures = 0 /\ resp.state = "HEADERS" => m = HeadSize
  BY <1>1, <1>2, LeftIs
<1>4. PICK i \in 1..(HeadSize + 1) :
        /\ resp.head = Units(i, HeadSize) /\ g = HeadSize + 1 - i
        /\ failures = 0 /\ resp.state = "HEADERS" => i = Len(Payload) + 1
  BY <1>1, HeadIs
<1>5. /\ resp.length \in Nat /\ resp.sent \in Nat /\ resp.content \in Data /\ resp.head \in Data
      /\ HeadSize \in Nat /\ <<>> \in Data
  BY ResponseTypes, SizesFit, DataFacts
<1> DEFINE room == IF resp.state = "HEADERS" THEN v - g ELSE v
<1>6. room \in Nat
  BY <1>2
<1>7. PICK out \in 0..(t - m) : out = Least(resp.length - resp.sent, room) /\ out <= room
  BY <1>3, <1>6 DEF Least
<1>8. PICK sent \in Nat : sent = resp.sent + out
  BY <1>5
<1>9. \/ Carry(Plan(IF sent = resp.length THEN "WAIT_ACK" ELSE "CONTENT", resp.head \o First(out, resp.content),
                    From(out, resp.content), resp.length, sent), <<>>)
      \/ /\ failures < Failures /\ failures' = failures + 1
         /\ resp' = [resp EXCEPT !.state = "CONTENT"]
         /\ UNCHANGED <<tcp, wire>>
  BY <1>1, <1>7, <1>8 DEF FileContent
<1>10. resp.length - sent = t - (m + out) /\ m + out \in 0..t /\ (sent = resp.length => m + out = t)
  <2>1. PICK a \in Nat, b \in Nat : a = resp.length /\ b = resp.sent
    BY <1>5
  <2>2. a - b = t - m /\ sent = b + out
    BY <1>3, <1>8, <2>1
  <2>3. a - sent = t - (m + out) /\ m + out \in 0..t /\ (sent = a => m + out = t)
    BY ONLY <2>2, a \in Nat, b \in Nat, t \in Nat, m \in 0..t, out \in 0..(t - m)
  <2> QED BY <2>1, <2>3
<1> HIDE DEF room
<1>11. /\ First(out, resp.content) = Units(m + 1, m + out) /\ From(out, resp.content) = Units(m + out + 1, t)
       /\ First(out, resp.content) \in Data /\ From(out, resp.content) \in Data
       /\ Len(First(out, resp.content)) = out
       /\ First(out, resp.content) # <<>> => First(out, resp.content)[1] # 0
  <2>1. /\ m + 1 \in Nat \ {0} /\ m + 1 <= t + 1 /\ out \in 0..(t + 1 - (m + 1)) /\ m + 1 + out - 1 = m + out
        /\ m + 1 + out = m + out + 1 /\ m + out \in Nat /\ m + 1 <= m + out + 1
    BY ONLY t \in Nat, m \in 0..t, out \in 0..(t - m)
  <2>2. First(out, Units(m + 1, t)) = Units(m + 1, m + 1 + out - 1)
        /\ From(out, Units(m + 1, t)) = Units(m + 1 + out, t)
    BY <1>1, <2>1, UnitsCut
  <2>3. /\ First(out, resp.content) \in Data /\ From(out, resp.content) \in Data
        /\ Len(First(out, resp.content)) = out
    BY <1>3, <1>5, DataCut
  <2>4. Units(m + 1, m + out) # <<>> => Units(m + 1, m + out)[1] # 0
    BY <2>1, FirstUnit
  <2> QED BY <1>3, <2>1, <2>2, <2>3, <2>4
<1> DEFINE d == resp.head \o First(out, resp.content)
<1>12. d \in Data /\ (d # <<>> => d[1] # 0)
  <2>1. d \in Data
    BY <1>5, <1>11, DataFacts
  <2>2. CASE resp.head = <<>>
    BY <1>11, <2>1, <2>2, DataFacts
  <2>3. CASE resp.head # <<>>
    <3>1. d[1] = resp.head[1]
      BY <1>5, <1>11, <2>3, TailGrows DEF Data
    <3>2. i \in Nat \ {0} /\ i <= HeadSize + 1
      BY <1>5
    <3>3. resp.head[1] # 0
      BY <1>4, <1>5, <2>3, <3>2, FirstUnit
    <3> QED BY <2>1, <3>1, <3>3
  <2> QED BY <2>2, <2>3
<1>13. CASE Carry(Plan(IF sent = resp.length THEN "WAIT_ACK" ELSE "CONTENT", d,
                       From(out, resp.content), resp.length, sent), <<>>)
  <2>1. PICK st \in {"CONTENT", "WAIT_ACK"} :
          st = (IF sent = resp.length THEN "WAIT_ACK" ELSE "CONTENT")
    OBVIOUS
  <2>2. PICK k \in Nat : k = (IF resp.state = "HEADERS" THEN g + out ELSE out)
    BY <1>7
  <2>3. failures = 0 =>
          /\ k <= Space /\ d = Units(Len(Payload) + 1, Len(Payload) + k)
          /\ m + out = Len(Payload) + k
    <3> SUFFICES ASSUME failures = 0
                 PROVE  k <= v /\ d = Units(Len(Payload) + 1, Len(Payload) + k) /\ m + out = Len(Payload) + k
      BY <1>1
    <3>1. PICK n \in Nat : n = Len(Payload)
      BY TcpTypes, PayloadTypes
    <3>2. CASE resp.state = "CONTENT"
      <4>1. resp.head = <<>> /\ n = m
        BY <1>3, <3>1, <3>2, HeadIs DEF ResponseInv, ContentFits
      <4>2. d = First(out, resp.content) /\ k = out
        BY <1>11, <2>2, <3>2, <4>1, DataFacts
      <4>3. out <= v
        BY <1>7, <3>2 DEF room
      <4> QED BY <1>11, <3>1, <4>1, <4>2, <4>3
    <3>3. CASE resp.state = "HEADERS"
      <4>1. m = HeadSize /\ i = n + 1 /\ k = g + out /\ g = HeadSize - n
        BY <1>3, <1>4, <1>5, <2>2, <3>1, <3>3
      <4>2. g + out <= v /\ m + out = n + k /\ n <= HeadSize
        <5>1. v >= g /\ out <= v - g /\ i \in 1..(HeadSize + 1)
          BY <1>2, <1>7, <3>3 DEF room
        <5> QED BY ONLY <4>1, <5>1, SizesFit, n \in Nat, k \in Nat, g \in Nat, v \in Nat, t \in Nat,
                        out \in 0..(t - m), m \in 0..t
      <4>3. PICK c \in Nat : c = HeadSize + out
        BY <1>5
      <4>4. n + 1 \in Nat \ {0} /\ n + 1 <= HeadSize + 1 /\ HeadSize <= c
        BY ONLY <4>2, <4>3, SizesFit, n \in Nat, c \in Nat, t \in Nat, m \in 0..t, out \in 0..(t - m)
      <4>5. Units(n + 1, HeadSize) \o Units(HeadSize + 1, c) = Units(n + 1, c)
        BY <1>5, <4>3, <4>4, UnitsJoin
      <4>6. d = Units(n + 1, HeadSize) \o Units(HeadSize + 1, c)
        BY <1>4, <1>11, <4>1, <4>3
      <4>7. c = n + k
        BY <4>1, <4>2, <4>3
      <4> QED BY <3>1, <4>1, <4>2, <4>5, <4>6, <4>7
    <3> QED BY <1>2, <3>2, <3>3
  <2>4. \E j \in 1..(HeadSize + 1) : <<>> = Units(j, HeadSize)
    <3>1. Units(HeadSize + 1, HeadSize) = <<>> /\ HeadSize + 1 \in 1..(HeadSize + 1)
      BY ONLY SizesFit, UnitsEmpty
    <3> QED BY <3>1
  <2> HIDE DEF d
  <2>5. PlanFits(st, d, From(out, resp.content), resp.length, sent, <<>>, m + out, k)
    BY <1>1, <1>5, <1>8, <1>10, <1>11, <1>12, <1>13, <2>1, <2>3, <2>4 DEF PlanFits
  <2> QED BY <2>5, ResponseGoesOn
<1>14. CASE /\ failures < Failures /\ failures' = failures + 1
            /\ resp' = [resp EXCEPT !.state = "CONTENT"]
            /\ UNCHANGED <<tcp, wire>>
  <2>1. /\ resp' \in AsyncWebServerResponse /\ resp'.state = "CONTENT"
        /\ resp'.kind = resp.kind /\ resp'.head = resp.head /\ resp'.content = resp.content
        /\ resp'.length = resp.length /\ resp'.sent = resp.sent /\ resp'.acked = resp.acked
        /\ resp'.total = resp.total /\ resp'.written = resp.written
    BY <1>14, ResponseTypes DEF AsyncWebServerResponse
  <2>2. /\ RequestInv' /\ req' \in AsyncWebServerRequest
        /\ req.handled = 1 /\ req'.handled = 1 /\ req'.state = "END" /\ req'.todo = "none"
    BY GoesOnRequest
  <2>3. failures' \in 0..Failures /\ failures' # 0
    <3>1. failures \in Nat /\ Failures \in Nat
      BY TcpTypes, SizesFit
    <3> QED BY ONLY <1>14, <3>1
  <2>4. ResponseTyped'
    BY <1>14, <2>1, <2>3, TcpTypes DEF ResponseTyped
  <2>5. ResponseFits'
    <3>1. resp.total \in {HeadSize, HeadSize + ContentSize}
          /\ \E j \in 1..(HeadSize + 1) : resp.head = Units(j, HeadSize)
      BY DEF ResponseInv, ResponseFits
    <3>2. resp.length - resp.sent \in 0..resp.total
          /\ resp.content = Units(resp.total - (resp.length - resp.sent) + 1, resp.total)
      BY <1>2 DEF ResponseInv, ResponseFits
    <3> QED BY <2>1, <2>2, <3>1, <3>2 DEF ResponseFits
  <2>6. WireFits'
    BY <2>2 DEF WireFits
  <2>7. AcksFit'
    <3>1. AcksFit /\ resp'.acked \in Nat /\ resp'.acked <= resp.acked
      BY <2>1, ResponseTypes DEF ResponseInv
    <3> QED BY <1>14, <3>1, AcksForgotten
  <2> QED BY <2>2, <2>3, <2>4, <2>5, <2>6, <2>7 DEF ResponseInv
<1> QED BY <1>9, <1>13, <1>14

LEMMA FinishKeeps ==
  ASSUME TypeOK, RequestInv, ResponseInv, req.todo = "advance", req' = [req EXCEPT !.todo = "none"],
         UNCHANGED <<request, rest, buf>>, Finish
  PROVE  RequestInv' /\ ResponseInv' /\ req' \in AsyncWebServerRequest /\ ResponseTyped'
<1>1. /\ RequestInv' /\ req' \in AsyncWebServerRequest
      /\ req.handled = 1 /\ req'.handled = 1 /\ req'.state = "END" /\ req'.todo = "none"
      /\ resp.kind # "none"
  BY GoesOnRequest
<1>2. PICK st \in {"WAIT_ACK", "END"} :
        /\ resp' = [resp EXCEPT !.state = st] /\ (st = "END" => resp.acked >= resp.written)
        /\ resp.state = "WAIT_ACK" /\ UNCHANGED <<tcp, wire, failures>>
  BY ResponseTypes DEF Finish
<1>3. /\ resp' \in AsyncWebServerResponse /\ resp'.state = st
      /\ resp'.kind = resp.kind /\ resp'.head = resp.head /\ resp'.content = resp.content
      /\ resp'.length = resp.length /\ resp'.sent = resp.sent /\ resp'.acked = resp.acked
      /\ resp'.total = resp.total /\ resp'.written = resp.written
  BY <1>2, ResponseTypes DEF AsyncWebServerResponse
<1>4. ResponseTyped'
  BY <1>2, <1>3, TcpTypes DEF ResponseTyped
<1>5. ResponseFits'
  BY <1>1, <1>2, <1>3, Zenon DEF ResponseInv, ResponseFits
<1>6. WireFits'
  BY <1>1 DEF WireFits
<1>7. failures' = 0 => ContentFits'
  <2> SUFFICES ASSUME failures' = 0 PROVE ContentFits'
    OBVIOUS
  <2>1. Payload' = Payload
    BY <1>2, Zenon DEF Payload
  <2>2. ContentFits
    BY <1>2 DEF ResponseInv
  <2>3. /\ Payload = Units(1, Len(Payload)) /\ (~request.expect => Payload = wire)
        /\ resp.written = Len(Payload) /\ Len(Payload) = resp.total
    BY <1>1, <1>2, <2>2, Zenon DEF ContentFits
  <2> QED BY <1>2, <1>3, <2>1, <2>3 DEF ContentFits
<1>8. AcksFit'
  <2>1. AcksFit /\ resp'.acked \in Nat /\ resp'.acked <= resp.acked
    BY <1>3, ResponseTypes DEF ResponseInv
  <2> QED BY <1>2, <2>1, AcksForgotten
<1> QED BY <1>1, <1>4, <1>5, <1>6, <1>7, <1>8 DEF ResponseInv

LEMMA AdvanceKeeps ==
  ASSUME TypeOK, RequestInv, ResponseInv, Advance
  PROVE  RequestInv' /\ ResponseInv' /\ req' \in AsyncWebServerRequest /\ ResponseTyped'
<1>1. /\ req.todo = "advance" /\ req' = [req EXCEPT !.todo = "none"] /\ UNCHANGED <<request, rest, buf>>
      /\ \/ resp.kind = "file" /\ FileHead
         \/ resp.kind = "file" /\ FileContent
         \/ resp.kind = "basic" /\ resp.state = "CONTENT" /\ Carry(BasicContent, <<>>)
         \/ Finish
  BY DEF Advance
<1> QED BY <1>1, FileHeadKeeps, FileContentKeeps, BasicContentKeeps, FinishKeeps

LEMMA NoPayload ==
  ASSUME NEW w \in {<<>>, << 0 >>}
  PROVE  (IF w # <<>> /\ Head(w) = 0 THEN Tail(w) ELSE w) = <<>>
<1>1. <<0>> \in Seq({0}) /\ <<0>> # <<>> /\ Len(<<0>>) = 1
  OBVIOUS
<1>2. Head(<<0>>) \in {0} /\ Tail(<<0>>) \in Seq({0}) /\ Len(Tail(<<0>>)) = 0
  BY <1>1, HeadTailProperties
<1>3. Head(<<0>>) = 0 /\ Tail(<<0>>) = <<>>
  BY <1>2, EmptySeq
<1> QED BY <1>3

\* The interim response is the first that is written.
LEMMA ContinueKeeps ==
  ASSUME TypeOK, RequestInv, ResponseInv, Continue
  PROVE  RequestInv' /\ ResponseInv' /\ req' \in AsyncWebServerRequest /\ ResponseTyped'
<1>1. PICK t \in {"none", "handle"}, o \in Written(<<0>>) :
        /\ Apply(o) /\ req.todo = "continue" /\ req' = [req EXCEPT !.todo = t]
        /\ t = (IF req.length > 0 THEN "none" ELSE "handle")
        /\ UNCHANGED <<request, rest, buf, resp>>
  BY DEF Continue
<1>2. /\ req' \in AsyncWebServerRequest /\ req'.todo = t
      /\ req'.state = req.state /\ req'.temp = req.temp /\ req'.length = req.length
      /\ req'.parsed = req.parsed /\ req'.expecting = req.expecting /\ req'.live = req.live
      /\ req'.handled = req.handled
  BY <1>1, TodoChanges
<1>3. /\ req.state \in {"BODY", "END"} /\ req.expecting /\ req.handled = 0 /\ resp.kind = "none"
      /\ req.expecting = request.expect
      /\ req.state = "BODY" => req.length > 0 /\ req.parsed # req.length
      /\ req.state = "END" => req.parsed >= req.length
      /\ req.length \in Nat /\ req.parsed \in Nat
  BY <1>1, RequestTypes DEF RequestInv, HandlingFits, BodyFits
<1>4. req.state = "BODY" => t = "none"
  BY <1>1, <1>3
<1>5. req.state = "END" => t = "handle"
  BY <1>1 DEF RequestInv, HandlingFits
<1>6. SegmentFits' /\ LinesFit' /\ BodyFits'
  BY <1>1, <1>2, <1>3, <1>4, RequestGoesOn
<1>7. HandlingFits'
  BY <1>1, <1>2, <1>3, <1>4, <1>5 DEF HandlingFits
<1>8. wire = <<>>
  BY <1>1 DEF ResponseInv, WireFits
<1>9. /\ wire' \in Data /\ failures' \in 0..Failures
      /\ tcp' \in TcpType /\ tcp'.unacked <= tcp'.window
      /\ \E k \in 0..Len(<<0>>) : wire' = wire \o First(k, <<0>>)
      /\ failures' = 0 => failures = 0
  BY <1>1, DataFacts, WriteIs
<1>10. wire' \in {<<>>, <<0>>}
  <2>1. PICK k \in 0..Len(<<0>>) : wire' = wire \o First(k, <<0>>)
    BY <1>9
  <2>2. k \in {0, 1} /\ Len(<<0>>) = 1
    BY <2>1
  <2>3. First(k, <<0>>) \in Data /\ Len(First(k, <<0>>)) = k /\ (k = Len(<<0>>) => First(k, <<0>>) = <<0>>)
    BY <2>1, DataFacts, DataCut
  <2>4. First(k, <<0>>) \in {<<>>, <<0>>}
    BY <2>2, <2>3, DataFacts
  <2> QED BY <1>8, <2>1, <2>3, <2>4, DataFacts
<1>11. ResponseFits'
  BY <1>1, <1>3 DEF ResponseInv, ResponseFits
<1>12. WireFits'
  BY <1>1, <1>2, <1>3, <1>10 DEF WireFits
<1>13. ContentFits'
  <2>1. Payload' = <<>>
    BY <1>10, NoPayload DEF Payload
  <2>2. Units(0 + 1, 0) = <<>>
    BY UnitsEmpty
  <2>3. Payload' = Units(1, Len(Payload'))
    BY <2>1, <2>2
  <2> QED BY <1>1, <1>3, <2>3 DEF ContentFits
<1>14. AcksFit'
  <2>1. AcksFit /\ resp'.acked \in Nat /\ resp'.acked <= resp.acked
    BY <1>1, ResponseTypes DEF ResponseInv
  <2>2. PICK k \in Nat : Len(wire') = Len(wire) + k /\ tcp'.unacked = tcp.unacked + k
    BY <1>1, DataFacts, WriteIs
  <2>3. tcp'.due = tcp.due
    BY <1>1, DataFacts, WriteIs
  <2> QED BY <2>1, <2>2, <2>3, AcksAfterWrite
<1>15. ResponseTyped'
  BY <1>1, <1>9, ResponseTypes DEF ResponseTyped
<1> QED BY <1>2, <1>6, <1>7, <1>11, <1>12, <1>13, <1>14, <1>15 DEF RequestInv, ResponseInv

\* Where the request is handled nothing but the interim response was sent.
LEMMA HandleKeeps ==
  ASSUME TypeOK, RequestInv, ResponseInv, HandleRequest
  PROVE  RequestInv' /\ ResponseInv' /\ req' \in AsyncWebServerRequest /\ ResponseTyped'
<1>1. /\ req.todo = "handle" /\ resp' \in Answers /\ tcp' = [tcp EXCEPT !.rxTimeout = FALSE]
      /\ req' = [req EXCEPT !.todo = IF resp'.kind = "file" THEN "advance" ELSE "respond",
                            !.handled = req.handled + 1]
      /\ UNCHANGED <<request, rest, buf, wire, failures>>
  BY DEF HandleRequest
<1>2. req.state = "END" /\ req.handled = 0 /\ resp.kind = "none"
  BY <1>1 DEF RequestInv, HandlingFits
<1>3. req \in AsyncWebServerRequest
  BY DEF TypeOK
<1>4. /\ req' \in AsyncWebServerRequest
      /\ req'.todo = (IF resp'.kind = "file" THEN "advance" ELSE "respond")
      /\ req'.state = "END" /\ req'.temp = req.temp /\ req'.length = req.length
      /\ req'.parsed = req.parsed /\ req'.expecting = req.expecting /\ req'.live = req.live
      /\ req'.handled = 1
  <2>1. PICK t \in {"advance", "respond"} : t = (IF resp'.kind = "file" THEN "advance" ELSE "respond")
    OBVIOUS
  <2>2. req' = [req EXCEPT !.todo = t, !.handled = 1]
    BY <1>1, <1>2, <2>1
  <2> QED BY ONLY <1>2, <1>3, <2>1, <2>2, t \in {"advance", "respond"} DEF AsyncWebServerRequest
<1>5. resp' \in {File, Json, Code}
  BY <1>1, Zenon DEF Answers
<1>6. HeadSize \in Nat /\ HeadSize > 0 /\ ContentSize \in Nat /\ ContentSize > 0
  BY SizesFit
<1>7. PICK t \in {HeadSize, HeadSize + ContentSize} :
        /\ resp'.kind # "none" /\ resp'.total = t /\ resp'.content = Units(HeadSize + 1, t)
        /\ resp'.length = t - HeadSize /\ resp'.sent = 0 /\ resp'.acked = 0 /\ resp'.written = 0
        /\ \/ resp'.kind = "basic" /\ resp'.state = "SETUP" /\ resp'.head = <<>>
           \/ resp'.kind = "file" /\ resp'.state = "HEADERS" /\ resp'.head = Units(1, HeadSize)
  <2>1. Units(HeadSize + 1, HeadSize) = <<>>
    BY <1>6, UnitsEmpty
  <2>2. CASE resp' = Code
    <3>1. /\ Code.kind = "basic" /\ Code.state = "SETUP" /\ Code.head = <<>> /\ Code.total = HeadSize
          /\ Code.content = <<>> /\ Code.length = 0 /\ Code.sent = 0 /\ Code.acked = 0 /\ Code.written = 0
      BY DEF Code, NoResponse
    <3> QED BY <1>6, <2>1, <2>2, <3>1
  <2>3. CASE resp' = Json
    <3>1. /\ Json.kind = "basic" /\ Json.state = "SETUP" /\ Json.head = <<>>
          /\ Json.total = HeadSize + ContentSize /\ Json.content = Units(HeadSize + 1, HeadSize + ContentSize)
          /\ Json.length = ContentSize /\ Json.sent = 0 /\ Json.acked = 0 /\ Json.written = 0
      BY DEF Json, NoResponse
    <3>2. PICK t \in {HeadSize, HeadSize + ContentSize} : t = HeadSize + ContentSize
      OBVIOUS
    <3>3. ContentSize = t - HeadSize
      BY <1>6, <3>2
    <3>4. /\ resp'.kind # "none" /\ resp'.total = t /\ resp'.content = Units(HeadSize + 1, t)
          /\ resp'.length = t - HeadSize /\ resp'.sent = 0 /\ resp'.acked = 0 /\ resp'.written = 0
          /\ \/ resp'.kind = "basic" /\ resp'.state = "SETUP" /\ resp'.head = <<>>
             \/ resp'.kind = "file" /\ resp'.state = "HEADERS" /\ resp'.head = Units(1, HeadSize)
      BY <2>3, <3>1, <3>2, <3>3
    <3> QED BY <3>4
  <2>4. CASE resp' = File
    <3>1. /\ File.kind = "file" /\ File.state = "HEADERS" /\ File.head = Units(1, HeadSize)
          /\ File.total = HeadSize + ContentSize /\ File.content = Units(HeadSize + 1, HeadSize + ContentSize)
          /\ File.length = ContentSize /\ File.sent = 0 /\ File.acked = 0 /\ File.written = 0
      BY DEF File, NoResponse
    <3>2. PICK t \in {HeadSize, HeadSize + ContentSize} : t = HeadSize + ContentSize
      OBVIOUS
    <3>3. ContentSize = t - HeadSize
      BY <1>6, <3>2
    <3>4. /\ resp'.kind # "none" /\ resp'.total = t /\ resp'.content = Units(HeadSize + 1, t)
          /\ resp'.length = t - HeadSize /\ resp'.sent = 0 /\ resp'.acked = 0 /\ resp'.written = 0
          /\ \/ resp'.kind = "basic" /\ resp'.state = "SETUP" /\ resp'.head = <<>>
             \/ resp'.kind = "file" /\ resp'.state = "HEADERS" /\ resp'.head = Units(1, HeadSize)
      BY <2>4, <3>1, <3>2, <3>3
    <3> QED BY <3>4
  <2> QED BY <1>5, <2>2, <2>3, <2>4
<1>8. resp' \in AsyncWebServerResponse
  <2>1. /\ Units(1, HeadSize) \in Data /\ <<>> \in Data
        /\ Units(HeadSize + 1, HeadSize + ContentSize) \in Data
    <3>1. PICK c \in Nat : c = HeadSize + ContentSize
      BY <1>6
    <3>2. 1 \in Nat /\ 1 <= HeadSize + 1 /\ HeadSize <= c /\ HeadSize + 1 \in Nat /\ HeadSize + 1 <= c + 1
      BY <1>6, <3>1
    <3>3. Units(1, HeadSize) \in Data
      <4>1. HeadSize <= HeadSize + ContentSize /\ 1 \in Nat /\ HeadSize \in Nat /\ 1 <= HeadSize + 1
        BY <1>6
      <4> QED BY ONLY <4>1, UnitsAre
    <3>4. Units(HeadSize + 1, c) \in Data
      <4>1. PICK a \in Nat : a = HeadSize + 1
        BY <1>6
      <4>2. a <= c + 1 /\ c <= HeadSize + ContentSize
        BY <1>6, <3>1, <4>1
      <4>3. Units(a, c) \in Data
        BY <4>2, UnitsAre
      <4> QED BY <4>1, <4>3
    <3> QED BY <3>1, <3>3, <3>4, DataFacts
  <2>2. HeadSize + ContentSize \in Nat
    BY <1>6
  <2>3. Code \in AsyncWebServerResponse
    BY ONLY <1>6, <2>1, <2>2 DEF Code, NoResponse, AsyncWebServerResponse
  <2>4. Json \in AsyncWebServerResponse
    BY ONLY <1>6, <2>1, <2>2 DEF Json, NoResponse, AsyncWebServerResponse
  <2>5. File \in AsyncWebServerResponse
    BY ONLY <1>6, <2>1, <2>2 DEF File, NoResponse, AsyncWebServerResponse
  <2> QED BY <1>5, <2>3, <2>4, <2>5
<1>9. SegmentFits' /\ LinesFit' /\ BodyFits'
  BY <1>1, <1>2, <1>4, RequestGoesOn
<1>10. HandlingFits'
  BY <1>4, <1>7 DEF HandlingFits
<1>11. /\ tcp' \in TcpType /\ tcp'.unacked = tcp.unacked /\ tcp'.window = tcp.window /\ tcp'.due = tcp.due
  BY <1>1, TcpTypes DEF TcpType
<1>12. ResponseTyped'
  BY <1>1, <1>8, <1>11, TcpTypes DEF ResponseTyped
<1>13. t \in Nat /\ t - HeadSize - 0 = t - HeadSize /\ t - HeadSize \in 0..t /\ t - (t - HeadSize) = HeadSize
  BY <1>6
<1>14. ResponseFits'
  <2>1. 1 \in 1..(HeadSize + 1)
    BY <1>6
  <2> QED BY <1>4, <1>7, <1>13, <2>1 DEF ResponseFits
<1>15. wire = <<>> \/ (request.expect /\ wire = <<0>>)
  BY <1>2 DEF ResponseInv, WireFits
<1>16. WireFits'
  BY <1>1, <1>4 DEF WireFits
<1>17. ContentFits'
  <2>1. Payload' = <<>> /\ Len(Payload') = 0
    <3>1. wire' \in {<<>>, <<0>>}
      BY <1>1, <1>15
    <3>2. Payload' = <<>>
      BY <3>1, NoPayload DEF Payload
    <3> QED BY <3>2
  <2>2. Units(0 + 1, 0) = <<>> /\ Units(1, 0) = <<>>
    BY UnitsEmpty
  <2>3. ~request'.expect => Payload' = wire'
    BY <1>1, <1>15, <2>1
  <2> QED BY <1>6, <1>7, <1>13, <2>1, <2>2, <2>3 DEF ContentFits
<1>18. AcksFit'
  <2>1. AcksFit /\ resp'.acked \in Nat /\ resp'.acked <= resp.acked
    BY <1>7, ResponseTypes DEF ResponseInv
  <2> QED BY <1>1, <1>11, <2>1, AcksForgotten
<1> QED BY <1>4, <1>9, <1>10, <1>12, <1>14, <1>16, <1>17, <1>18 DEF RequestInv, ResponseInv

-----------------------------------------------------------------------------
(* Acknowledgements, and the end.                                          *)

LEMMA TotalOfTail ==
  ASSUME NEW due \in Seq(Nat \ {0}), due # <<>>, NEW f, f \in [0..Len(due) -> Nat], IsTotal(f, due)
  PROVE  /\ Tail(due) \in Seq(Nat \ {0}) /\ Head(due) \in Nat \ {0}
         /\ \E g \in [0..Len(Tail(due)) -> Nat] : IsTotal(g, Tail(due)) /\ f[0] = g[0] + Head(due)
<1>1. PICK n \in Nat : Len(due) = n + 1
  <2>1. Len(due) \in Nat /\ Len(due) # 0
    BY LenProperties, EmptySeq
  <2>2. Len(due) - 1 \in Nat /\ Len(due) = (Len(due) - 1) + 1
    BY <2>1
  <2> QED BY <2>2
<1>2. /\ Head(due) \in Nat \ {0} /\ Tail(due) \in Seq(Nat \ {0}) /\ Len(Tail(due)) = n
      /\ \A i \in 1..n : Tail(due)[i] = due[i + 1]
  BY <1>1, HeadTailProperties
<1>3. Head(due) = due[1]
  OBVIOUS
<1>4. /\ \A i \in 0..(n + 1) : f[i] \in Nat
      /\ f[n + 1] = 0 /\ \A i \in 1..(n + 1) : f[i - 1] = f[i] + due[i]
  BY <1>1 DEF IsTotal
<1> DEFINE g == [i \in 0..n |-> f[i + 1]]
<1>5. g \in [0..n -> Nat]
  <2>1. \A i \in 0..n : i + 1 \in 0..(n + 1)
    OBVIOUS
  <2> QED BY <1>4, <2>1
<1>6. g[n] = 0 /\ g[0] = f[1]
  BY <1>4
<1>7. \A i \in 1..n : g[i - 1] = g[i] + Tail(due)[i]
  <2> SUFFICES ASSUME NEW i \in 1..n PROVE g[i - 1] = g[i] + Tail(due)[i]
    OBVIOUS
  <2>1. i \in 0..n /\ i - 1 \in 0..n /\ i - 1 + 1 = i /\ i + 1 \in 1..(n + 1) /\ i + 1 - 1 = i
    OBVIOUS
  <2>2. g[i - 1] = f[i] /\ g[i] = f[i + 1]
    BY <2>1
  <2>3. f[i] = f[i + 1] + due[i + 1]
    BY <1>4, <2>1
  <2> QED BY <1>2, <2>2, <2>3
<1>8. f[0] = f[1] + due[1]
  <2>1. 1 \in 1..(n + 1) /\ 1 - 1 = 0
    OBVIOUS
  <2> QED BY <1>4, <2>1
<1> HIDE DEF g
<1>9. IsTotal(g, Tail(due))
  BY <1>2, <1>5, <1>6, <1>7 DEF IsTotal
<1> QED BY <1>2, <1>3, <1>5, <1>6, <1>8, <1>9

LEMMA TotalOfAppend ==
  ASSUME NEW due \in Seq(Nat \ {0}), NEW f, f \in [0..Len(due) -> Nat], IsTotal(f, due), NEW m \in Nat \ {0}
  PROVE  /\ Append(due, m) \in Seq(Nat \ {0})
         /\ \E g \in [0..Len(Append(due, m)) -> Nat] : IsTotal(g, Append(due, m)) /\ g[0] = f[0] + m
<1>1. PICK n \in Nat : Len(due) = n
  BY LenProperties
<1>2. /\ Append(due, m) \in Seq(Nat \ {0}) /\ Len(Append(due, m)) = n + 1
      /\ \A i \in 1..n : Append(due, m)[i] = due[i]
      /\ Append(due, m)[n + 1] = m
  BY <1>1, AppendProperties
<1>3. /\ \A i \in 0..n : f[i] \in Nat
      /\ f[n] = 0 /\ \A i \in 1..n : f[i - 1] = f[i] + due[i]
  BY <1>1 DEF IsTotal
<1>4. \A i \in 1..n : due[i] \in Nat
  BY <1>1, ElementOfSeq
<1> DEFINE g == [i \in 0..(n + 1) |-> IF i <= n THEN f[i] + m ELSE 0]
<1>5. g \in [0..(n + 1) -> Nat]
  <2>1. \A i \in 0..(n + 1) : i <= n => f[i] + m \in Nat
    BY <1>3
  <2> QED BY <2>1
<1>6. g[n + 1] = 0 /\ g[0] = f[0] + m /\ g[n] = m
  BY <1>3
<1>7. ASSUME NEW i \in 1..n PROVE g[i - 1] = g[i] + due[i]
  <2>1. i \in 0..(n + 1) /\ i <= n /\ i - 1 \in 0..(n + 1) /\ i - 1 <= n /\ i \in 0..n
    OBVIOUS
  <2>2. g[i - 1] = f[i - 1] + m /\ g[i] = f[i] + m
    BY <2>1
  <2>3. f[i - 1] = f[i] + due[i] /\ f[i] \in Nat /\ due[i] \in Nat
    BY <1>3, <1>4, <2>1
  <2> HIDE DEF g
  <2> QED BY <2>2, <2>3
<1> HIDE DEF g
<1>8. \A i \in 1..(n + 1) : g[i - 1] = g[i] + Append(due, m)[i]
  <2> SUFFICES ASSUME NEW i \in 1..(n + 1) PROVE g[i - 1] = g[i] + Append(due, m)[i]
    OBVIOUS
  <2>1. CASE i \in 1..n
    BY <1>2, <1>7, <2>1
  <2>2. CASE i = n + 1
    <3>1. n + 1 - 1 = n
      OBVIOUS
    <3> QED BY <1>2, <1>6, <2>2, <3>1
  <2> QED BY <2>1, <2>2
<1>9. IsTotal(g, Append(due, m))
  BY <1>2, <1>5, <1>6, <1>8 DEF IsTotal
<1> QED BY <1>2, <1>5, <1>6, <1>9


\* Before the request has its handler, nothing but the interim response goes out.
WireEarly == req.state \in {"START", "HEADERS", "FAIL"} \/ req.todo = "continue"

LEMMA WireStays ==
  ASSUME WireFits, request' = request, wire' = wire, req'.handled = req.handled, WireEarly' => WireEarly
  PROVE  WireFits'
BY DEF WireFits, WireEarly

LEMMA ContentStays ==
  ASSUME failures = 0 => ContentFits, UNCHANGED <<request, wire, failures>>, resp' = resp \/ resp' = NoResponse
  PROVE  failures' = 0 => ContentFits'
<1>1. Payload' = Payload
  BY Zenon DEF Payload
<1>2. CASE resp' = resp
  BY <1>1, <1>2, Zenon DEF ContentFits
<1>3. CASE resp' = NoResponse
  <2>1. NoResponse.kind = "none"
    BY DEF NoResponse
  <2> QED BY <1>1, <1>3, <2>1, Zenon DEF ContentFits
<1> QED BY <1>2, <1>3

\* A step that leaves the response alone.
LEMMA ResponseStays ==
  ASSUME TypeOK, ResponseInv, UNCHANGED <<request, resp, wire, failures>>,
         tcp' \in TcpType, tcp'.unacked <= tcp'.window, AcksFit',
         req'.handled = req.handled, req'.todo = "respond" <=> req.todo = "respond", WireEarly' => WireEarly
  PROVE  ResponseInv' /\ ResponseTyped'
<1>1. ResponseFits'
  BY Zenon DEF ResponseInv, ResponseFits
<1>2. WireFits'
  BY WireStays DEF ResponseInv
<1>3. failures' = 0 => ContentFits'
  BY ContentStays DEF ResponseInv
<1>4. ResponseTyped'
  BY TcpTypes, ResponseTypes DEF ResponseTyped
<1> QED BY <1>1, <1>2, <1>3, <1>4 DEF ResponseInv

LEMMA AcksStay ==
  ASSUME AcksFit, UNCHANGED <<resp, wire>>,
         tcp'.due = tcp.due, tcp'.unacked = tcp.unacked
  PROVE  AcksFit'
BY Zenon DEF AcksFit

\* A step that leaves the connection alone too.
LEMMA OnlyRequest ==
  ASSUME TypeOK, ResponseInv, UNCHANGED <<request, resp, tcp, wire, failures>>,
         req'.handled = req.handled, req'.todo = "respond" <=> req.todo = "respond", WireEarly' => WireEarly
  PROVE  ResponseInv' /\ ResponseTyped'
<1>1. tcp' \in TcpType /\ tcp'.unacked <= tcp'.window
  BY TcpTypes
<1>2. AcksFit'
  BY AcksStay DEF ResponseInv
<1> QED BY <1>1, <1>2, ResponseStays

\* Without a response nothing was acknowledged.
LEMMA AcksGone ==
  ASSUME TypeOK, ResponseInv, resp' = NoResponse, tcp'.due \in {tcp.due, <<>>},
         tcp'.unacked = tcp.unacked, wire' = wire
  PROVE  AcksFit'
<1>1. resp'.acked = 0
  BY DEF NoResponse
<1>2. AcksFit /\ resp'.acked \in Nat /\ resp'.acked <= resp.acked
  BY <1>1, ResponseTypes DEF ResponseInv
<1> QED BY <1>2, AcksForgotten

\* A step that deletes the response.
LEMMA ResponseGone ==
  ASSUME TypeOK, ResponseInv, resp' = NoResponse, UNCHANGED <<request, wire, failures>>,
         tcp' \in TcpType, tcp'.unacked <= tcp'.window, AcksFit',
         req'.handled = req.handled, req'.todo # "respond", WireEarly' => WireEarly
  PROVE  ResponseInv' /\ ResponseTyped'
<1>1. /\ NoResponse.kind = "none" /\ NoResponse \in AsyncWebServerResponse
  BY SizesFit, DataFacts DEF NoResponse, AsyncWebServerResponse
<1>2. ResponseFits'
  BY <1>1 DEF ResponseFits
<1>3. WireFits'
  BY WireStays DEF ResponseInv
<1>4. failures' = 0 => ContentFits'
  BY ContentStays DEF ResponseInv
<1>5. ResponseTyped'
  BY <1>1, TcpTypes DEF ResponseTyped
<1> QED BY <1>2, <1>3, <1>4, <1>5 DEF ResponseInv

-----------------------------------------------------------------------------
(* Every step keeps the invariant.                                         *)

\* The request is parsed, and nothing sent.
LEMMA ParsingKeeps ==
  ASSUME TypeOK, RequestInv, ResponseInv,
         Deliver \/ KeepPart \/ ReqHeader \/ EndOfHeaders \/ AttachHandler \/ Body \/ PassOver
  PROVE  RequestInv' /\ ResponseInv' /\ req' \in AsyncWebServerRequest /\ ResponseTyped'
<1>1. RequestInv' /\ req' \in AsyncWebServerRequest
  <2>1. req \in AsyncWebServerRequest /\ (Deliver \/ PassOver => req' = req)
    BY DEF TypeOK, Deliver, PassOver
  <2> QED BY <2>1, DeliverRequest, KeepPartRequest, ReqHeaderRequest, EndOfHeadersRequest, AttachRequest,
             BodyRequest, PassOverRequest
<1>2. UNCHANGED <<request, resp, tcp, wire, failures>>
  BY DEF Deliver, KeepPart, ReqHeader, EndOfHeaders, AttachHandler, Body, PassOver
<1>3. req \in AsyncWebServerRequest
  BY DEF TypeOK
<1>4. req'.handled = req.handled /\ req'.todo # "respond" /\ req.todo # "respond" /\ (WireEarly' => WireEarly)
  <2>1. CASE Deliver \/ PassOver
    <3>1. req' = req /\ req.todo = "none"
      BY <2>1 DEF Deliver, PassOver, Idle
    <3> QED BY <3>1 DEF WireEarly
  <2>2. CASE KeepPart
    <3>1. req' = [req EXCEPT !.temp = req.temp \o buf] /\ req.todo = "none"
      BY <2>2 DEF KeepPart, InLines
    <3> QED BY <1>3, <3>1 DEF WireEarly, AsyncWebServerRequest
  <2>3. CASE ReqHeader
    <3>1. req.todo = "none" /\ req.state = "HEADERS"
      BY <2>3 DEF ReqHeader, InLines
    <3>2. PICK n, e : req' = [req EXCEPT !.temp = <<>>, !.length = n, !.expecting = e]
      BY <2>3 DEF ReqHeader, TakeLine
    <3> QED BY <1>3, <3>1, <3>2 DEF WireEarly, AsyncWebServerRequest
  <2>4. CASE EndOfHeaders
    <3>1. req.todo = "none" /\ req.state = "HEADERS" /\ req' = [req EXCEPT !.temp = <<>>, !.todo = "attach"]
      BY <2>4 DEF EndOfHeaders, InLines, TakeLine
    <3> QED BY <1>3, <3>1 DEF WireEarly, AsyncWebServerRequest
  <2>5. CASE AttachHandler
    <3>1. req.todo = "attach" /\ req.state = "HEADERS"
      BY <2>5 DEF AttachHandler, RequestInv, LinesFit
    <3>2. PICK t, s, h : req' = [req EXCEPT !.todo = t, !.state = s, !.handler = h]
      BY <2>5 DEF AttachHandler
    <3>3. req'.todo = (IF req.expecting THEN "continue" ELSE IF req.length > 0 THEN "none" ELSE "handle")
      BY <1>3, <2>5 DEF AttachHandler, AsyncWebServerRequest
    <3>4. req'.handled = req.handled
      BY <1>3, <3>2 DEF AsyncWebServerRequest
    <3> QED BY <3>1, <3>3, <3>4 DEF WireEarly
  <2>6. CASE Body
    <3>1. req.todo = "none" /\ req.state = "BODY"
      BY <2>6 DEF Body
    <3>2. PICK n : \/ req' = [req EXCEPT !.parsed = n, !.state = "END", !.todo = "handle"]
                   \/ req' = [req EXCEPT !.parsed = n, !.state = "BODY", !.todo = "none"]
      BY <2>6 DEF Body
    <3>3. req'.handled = req.handled /\ req'.state \in {"END", "BODY"} /\ req'.todo \in {"handle", "none"}
      BY <1>3, <3>2 DEF AsyncWebServerRequest
    <3> QED BY <3>1, <3>3 DEF WireEarly
  <2> QED BY <2>1, <2>2, <2>3, <2>4, <2>5, <2>6
<1> QED BY <1>1, <1>2, <1>4, OnlyRequest

\* The first line came, or an empty one and the request is deleted.
LEMMA ReqHeadKeeps ==
  ASSUME TypeOK, RequestInv, ResponseInv, ReqHead
  PROVE  RequestInv' /\ ResponseInv' /\ req' \in AsyncWebServerRequest /\ ResponseTyped'
<1>1. RequestInv' /\ req' \in AsyncWebServerRequest
  BY ReqHeadRequest
<1>2. /\ req.state = "START" /\ req.todo = "none" /\ UNCHANGED <<request, wire, failures>>
      /\ req \in AsyncWebServerRequest
      /\ \/ /\ req' = [[req EXCEPT !.state = "FAIL", !.temp = <<>>] EXCEPT !.live = FALSE]
            /\ resp' = NoResponse /\ tcp' = [tcp EXCEPT !.open = FALSE]
         \/ /\ req' = [req EXCEPT !.state = "HEADERS", !.temp = <<>>] /\ UNCHANGED <<tcp, resp>>
  BY DEF ReqHead, TakeLine, InLines, Deleted, TypeOK
<1>3. req'.handled = req.handled /\ req'.todo = "none" /\ WireEarly
  BY <1>2 DEF AsyncWebServerRequest, WireEarly
<1>4. CASE resp' = NoResponse /\ tcp' = [tcp EXCEPT !.open = FALSE]
  <2>1. /\ tcp' \in TcpType /\ tcp'.unacked = tcp.unacked /\ tcp'.window = tcp.window /\ tcp'.due = tcp.due
        /\ tcp.unacked <= tcp.window
    BY <1>4, TcpTypes DEF TcpType
  <2>2. AcksFit'
    BY <1>2, <1>4, <2>1, AcksGone
  <2>3. tcp'.unacked <= tcp'.window
    BY <2>1
  <2> QED BY <1>1, <1>2, <1>3, <1>4, <2>1, <2>2, <2>3, ResponseGone
<1>5. CASE UNCHANGED <<tcp, resp>>
  BY <1>1, <1>2, <1>3, <1>5, OnlyRequest
<1> QED BY <1>2, <1>4, <1>5

\* The request is deleted between two segments.
LEMMA DeletedKeeps ==
  ASSUME TypeOK, RequestInv, ResponseInv, Idle, Deleted(req), UNCHANGED <<request, rest, buf, wire, failures>>,
         tcp' \in TcpType, tcp'.unacked = tcp.unacked, tcp'.window = tcp.window, tcp'.due \in {tcp.due, <<>>}
  PROVE  RequestInv' /\ ResponseInv' /\ req' \in AsyncWebServerRequest /\ ResponseTyped'
<1>1. /\ req' = [req EXCEPT !.live = FALSE] /\ resp' = NoResponse /\ req.todo = "none"
      /\ req \in AsyncWebServerRequest /\ NoResponse.kind = "none"
  BY DEF Deleted, Idle, TypeOK, NoResponse
<1>2. /\ req' \in AsyncWebServerRequest /\ req'.live = FALSE
      /\ req'.state = req.state /\ req'.temp = req.temp /\ req'.length = req.length
      /\ req'.parsed = req.parsed /\ req'.expecting = req.expecting
      /\ req'.todo = "none" /\ req'.handled = req.handled
  BY <1>1 DEF AsyncWebServerRequest
<1>3. SegmentFits' /\ LinesFit' /\ BodyFits'
  BY <1>1, <1>2, RequestStays
<1>4. HandlingFits'
  BY <1>1, <1>2 DEF RequestInv, HandlingFits
<1>5. AcksFit'
  BY <1>1, AcksGone
<1>6. tcp'.unacked <= tcp'.window /\ (WireEarly' => WireEarly)
  BY <1>2, TcpTypes DEF WireEarly
<1>7. ResponseInv' /\ ResponseTyped'
  BY <1>1, <1>2, <1>5, <1>6, ResponseGone
<1> QED BY <1>2, <1>3, <1>4, <1>7 DEF RequestInv

LEMMA ClosingKeeps ==
  ASSUME TypeOK, RequestInv, ResponseInv, Disconnected \/ RxTimeout \/ AckTimeout
  PROVE  RequestInv' /\ ResponseInv' /\ req' \in AsyncWebServerRequest /\ ResponseTyped'
<1>1. /\ Idle /\ Deleted(req) /\ UNCHANGED <<request, rest, buf, wire, failures>>
      /\ tcp' = tcp \/ tcp' = [tcp EXCEPT !.open = FALSE, !.due = <<>>]
  BY DEF Disconnected, RxTimeout, AckTimeout, Closes
<1>2. <<>> \in Seq(Nat \ {0})
  OBVIOUS
<1>3. /\ tcp' \in TcpType /\ tcp'.unacked = tcp.unacked /\ tcp'.window = tcp.window
      /\ tcp'.due \in {tcp.due, <<>>}
  BY <1>1, <1>2, TcpTypes DEF TcpType
<1> QED BY <1>1, <1>3, DeletedKeeps

\* Steps of lwIP's thread: the request and its response are left alone.
LEMMA PeerKeeps ==
  ASSUME TypeOK, RequestInv, ResponseInv, PeerAcks \/ PeerCloses
  PROVE  RequestInv' /\ ResponseInv' /\ req' \in AsyncWebServerRequest /\ ResponseTyped'
<1>1. UNCHANGED <<request, rest, buf, req, resp, wire, failures>>
  BY DEF PeerAcks, PeerCloses
<1>2. req' \in AsyncWebServerRequest
  BY <1>1 DEF TypeOK
<1>3. RequestInv'
  <2>1. SegmentFits' /\ LinesFit' /\ BodyFits'
    BY <1>1, RequestStays
  <2>2. HandlingFits'
    BY <1>1, Zenon DEF RequestInv, HandlingFits
  <2> QED BY <2>1, <2>2 DEF RequestInv
<1>4. tcp' \in TcpType /\ tcp'.unacked <= tcp'.window /\ AcksFit'
  <2>1. CASE PeerCloses
    <3>1. /\ tcp' \in TcpType /\ tcp'.unacked = tcp.unacked /\ tcp'.window = tcp.window /\ tcp'.due = tcp.due
      BY <2>1, TcpTypes DEF PeerCloses, TcpType
    <3> QED BY <1>1, <3>1, TcpTypes, AcksStay DEF ResponseInv
  <2>2. CASE PeerAcks
    <3>1. PICK n \in 1..tcp.unacked :
            tcp' = [tcp EXCEPT !.unacked = tcp.unacked - n, !.due = Append(tcp.due, n)]
      BY <2>2 DEF PeerAcks
    <3>2. n \in Nat \ {0} /\ tcp.unacked \in Nat /\ tcp.unacked - n \in Nat /\ tcp.unacked # 0
          /\ tcp.unacked <= tcp.window /\ tcp.window \in Nat /\ tcp.due \in Seq(Nat \ {0}) /\ tcp \in TcpType
      BY TcpTypes
    <3>3. PICK u \in Nat, due \in Seq(Nat \ {0}) :
            u = tcp.unacked - n /\ due = Append(tcp.due, n) /\ tcp' = [tcp EXCEPT !.unacked = u, !.due = due]
      BY <3>1, <3>2, AppendProperties
    <3>4. tcp' \in TcpType /\ tcp'.unacked = u /\ tcp'.window = tcp.window /\ tcp'.due = due
      BY <3>2, <3>3 DEF TcpType
    <3>5. u <= tcp.window
      BY <3>2, <3>3
    <3>6. AcksFit'
      <4>1. PICK f : /\ f \in [0..Len(tcp.due) -> Nat] /\ IsTotal(f, tcp.due)
                     /\ resp.acked + f[0] + tcp.unacked <= Len(wire)
        BY DEF ResponseInv, AcksFit
      <4>2. PICK g \in [0..Len(due) -> Nat] : IsTotal(g, due) /\ g[0] = f[0] + n
        <5>1. PICK old \in Seq(Nat \ {0}), m \in Nat \ {0} : old = tcp.due /\ m = n
          BY <3>2
        <5>2. f \in [0..Len(old) -> Nat] /\ IsTotal(f, old)
          BY <4>1, <5>1
        <5>3. \E g \in [0..Len(Append(old, m)) -> Nat] : IsTotal(g, Append(old, m)) /\ g[0] = f[0] + m
          BY <5>2, TotalOfAppend
        <5> QED BY <3>3, <5>1, <5>3
      <4>3. f[0] \in Nat
        <5>1. 0 \in 0..Len(tcp.due)
          BY <3>2, LenProperties
        <5> QED BY <4>1, <5>1
      <4>4. PICK a \in Nat, b \in Nat, c \in Nat, d \in Nat :
              a = resp.acked /\ b = f[0] /\ c = tcp.unacked /\ d = Len(wire)
        BY <3>2, <4>3, ResponseTypes, TcpTypes, DataFacts, Zenon
      <4>5. a + b + c <= d /\ u = c - n /\ g[0] = b + n
        BY <3>3, <4>1, <4>2, <4>4
      <4>6. a + (b + n) + (c - n) <= d
        BY <3>2, <4>5
      <4>7. resp'.acked + g[0] + tcp'.unacked <= Len(wire')
        BY <1>1, <3>4, <4>4, <4>5, <4>6
      <4> QED BY <3>4, <4>2, <4>7 DEF AcksFit
    <3> QED BY <3>4, <3>5, <3>6
  <2> QED BY <2>1, <2>2
<1>5. WireEarly' => WireEarly
  BY <1>1 DEF WireEarly
<1> QED BY <1>1, <1>2, <1>3, <1>4, <1>5, ResponseStays


\* A response that is not finished was answered: its request has ended.
LEMMA AnsweredHasEnded ==
  ASSUME RequestInv, resp.kind # "none"
  PROVE  req.handled = 1 /\ req.state = "END"
BY DEF RequestInv, HandlingFits

LEMMA AdvanceRequest ==
  ASSUME TypeOK, RequestInv, resp.kind # "none", resp'.kind = resp.kind,
         req' = [req EXCEPT !.todo = "advance"], UNCHANGED <<request, rest, buf>>
  PROVE  /\ RequestInv' /\ req' \in AsyncWebServerRequest
         /\ req'.handled = 1 /\ req'.state = "END" /\ req'.todo = "advance"
<1>1. /\ req' \in AsyncWebServerRequest /\ req'.todo = "advance"
      /\ req'.state = req.state /\ req'.temp = req.temp /\ req'.length = req.length
      /\ req'.parsed = req.parsed /\ req'.expecting = req.expecting /\ req'.live = req.live
      /\ req'.handled = req.handled
  BY TodoChanges
<1>2. req.handled = 1 /\ req.state = "END"
  BY AnsweredHasEnded
<1>3. SegmentFits' /\ LinesFit' /\ BodyFits'
  BY <1>1, <1>2, RequestGoesOn
<1>4. HandlingFits'
  BY <1>1, <1>2 DEF HandlingFits
<1> QED BY <1>1, <1>2, <1>3, <1>4 DEF RequestInv

LEMMA OnPollKeeps ==
  ASSUME TypeOK, RequestInv, ResponseInv, OnPoll
  PROVE  RequestInv' /\ ResponseInv' /\ req' \in AsyncWebServerRequest /\ ResponseTyped'
<1>1. /\ Idle /\ resp.kind # "none" /\ req' = [req EXCEPT !.todo = "advance"]
      /\ UNCHANGED <<request, rest, buf, resp, tcp, wire, failures>>
  BY DEF OnPoll
<1>2. /\ RequestInv' /\ req' \in AsyncWebServerRequest
      /\ req'.handled = 1 /\ req'.state = "END" /\ req'.todo = "advance"
  BY <1>1, AdvanceRequest
<1>3. req.handled = 1 /\ req.todo = "none"
  BY <1>1, AnsweredHasEnded DEF Idle
<1>4. WireEarly' => WireEarly
  BY <1>2 DEF WireEarly
<1> QED BY <1>1, <1>2, <1>3, <1>4, OnlyRequest

\* What an acknowledgement adds was waited for.
LEMMA AcksAfterAck ==
  ASSUME TypeOK, AcksFit, tcp.due # <<>>, resp'.acked \in Nat, resp'.acked <= resp.acked + Head(tcp.due),
         tcp'.due = Tail(tcp.due), tcp'.unacked = tcp.unacked, wire' = wire
  PROVE  AcksFit'
<1>1. PICK due \in Seq(Nat \ {0}) : due = tcp.due /\ due # <<>>
  BY TcpTypes
<1>2. PICK f : f \in [0..Len(due) -> Nat] /\ IsTotal(f, due) /\ resp.acked + f[0] + tcp.unacked <= Len(wire)
  BY <1>1 DEF AcksFit
<1>3. /\ Tail(due) \in Seq(Nat \ {0}) /\ Head(due) \in Nat \ {0}
      /\ \E g \in [0..Len(Tail(due)) -> Nat] : IsTotal(g, Tail(due)) /\ f[0] = g[0] + Head(due)
  BY <1>1, <1>2, TotalOfTail
<1>4. PICK g \in [0..Len(Tail(due)) -> Nat] : IsTotal(g, Tail(due)) /\ f[0] = g[0] + Head(due)
  BY <1>3
<1>5. g[0] \in Nat
  <2>1. 0 \in 0..Len(Tail(due))
    BY <1>3, LenProperties
  <2> QED BY <1>4, <2>1
<1>6. PICK a \in Nat, b \in Nat, c \in Nat, d \in Nat, h \in Nat, e \in Nat :
        /\ a = resp.acked /\ b = g[0] /\ c = tcp.unacked /\ d = Len(wire) /\ h = Head(due)
        /\ e = resp'.acked
  BY <1>3, <1>5, ResponseTypes, TcpTypes, DataFacts
<1>7. a + (b + h) + c <= d /\ e <= a + h
  BY <1>1, <1>2, <1>4, <1>6
<1>8. e + b + c <= d
  BY <1>7
<1>9. resp'.acked + g[0] + tcp'.unacked <= Len(wire')
  BY <1>6, <1>8
<1> QED BY <1>1, <1>4, <1>9 DEF AcksFit

LEMMA OnAckKeeps ==
  ASSUME TypeOK, RequestInv, ResponseInv, OnAck
  PROVE  RequestInv' /\ ResponseInv' /\ req' \in AsyncWebServerRequest /\ ResponseTyped'
<1>1. /\ Idle /\ req.todo = "none" /\ tcp.due # <<>> /\ tcp' = [tcp EXCEPT !.due = Tail(tcp.due), !.busy = FALSE]
      /\ UNCHANGED <<request, rest, buf, wire, failures>>
  BY DEF OnAck, Sent, Idle
<1>2. Tail(tcp.due) \in Seq(Nat \ {0}) /\ Head(tcp.due) \in Nat
  BY <1>1, TcpTypes, HeadTailProperties
<1>3. /\ tcp' \in TcpType /\ tcp'.unacked = tcp.unacked /\ tcp'.window = tcp.window
      /\ tcp'.due = Tail(tcp.due)
  BY <1>1, <1>2, TcpTypes DEF TcpType
<1>4. tcp'.unacked <= tcp'.window /\ req \in AsyncWebServerRequest
  BY <1>3, TcpTypes DEF TypeOK
<1>5. ASSUME req' = req, resp'.kind = "none"
      PROVE  RequestInv' /\ req' \in AsyncWebServerRequest
  <2>1. SegmentFits' /\ LinesFit' /\ BodyFits'
    BY <1>1, <1>5, RequestStays
  <2>2. HandlingFits'
    BY <1>1, <1>5 DEF RequestInv, HandlingFits
  <2> QED BY <1>4, <1>5, <2>1, <2>2 DEF RequestInv
<1>6. CASE resp.kind = "none" /\ UNCHANGED <<req, resp>>
  <2>1. AcksFit'
    <3>1. AcksFit /\ resp'.acked \in Nat /\ resp'.acked <= resp.acked + Head(tcp.due)
      BY <1>2, <1>6, ResponseTypes DEF ResponseInv
    <3> QED BY <1>1, <1>3, <3>1, AcksAfterAck
  <2>2. WireEarly' => WireEarly
    BY <1>6 DEF WireEarly
  <2> QED BY <1>1, <1>3, <1>4, <1>5, <1>6, <2>1, <2>2, ResponseStays
<1>7. CASE resp.kind # "none" /\ resp' = NoResponse /\ UNCHANGED req
  <2>1. NoResponse.kind = "none"
    BY DEF NoResponse
  <2>2. req.handled = 1
    BY <1>7, AnsweredHasEnded
  <2>3. WireEarly' => WireEarly
    BY <1>7 DEF WireEarly
  <2>4. AcksFit'
    <3>1. NoResponse.acked = 0
      BY DEF NoResponse
    <3>2. AcksFit /\ resp'.acked \in Nat /\ resp'.acked <= resp.acked + Head(tcp.due)
      BY <1>2, <1>7, <3>1, ResponseTypes DEF ResponseInv
    <3> QED BY <1>1, <1>3, <3>2, AcksAfterAck
  <2> QED BY <1>1, <1>3, <1>4, <1>5, <1>7, <2>1, <2>2, <2>3, <2>4, ResponseGone
<1>8. CASE /\ resp.kind # "none" /\ ~Finished
           /\ resp' = [resp EXCEPT !.acked = resp.acked + Head(tcp.due)]
           /\ req' = [req EXCEPT !.todo = "advance"]
  <2>1. /\ resp' \in AsyncWebServerResponse /\ resp'.acked = resp.acked + Head(tcp.due)
        /\ resp'.kind = resp.kind /\ resp'.state = resp.state /\ resp'.head = resp.head
        /\ resp'.content = resp.content /\ resp'.length = resp.length /\ resp'.sent = resp.sent
        /\ resp'.total = resp.total /\ resp'.written = resp.written
    <3>1. PICK a \in Nat : a = resp.acked + Head(tcp.due)
      BY <1>2, ResponseTypes
    <3>2. resp' = [resp EXCEPT !.acked = a] /\ resp \in AsyncWebServerResponse
      BY <1>8, <3>1, ResponseTypes
    <3> QED BY ONLY <3>1, <3>2, a \in Nat DEF AsyncWebServerResponse
  <2>2. /\ RequestInv' /\ req' \in AsyncWebServerRequest
        /\ req'.handled = 1 /\ req'.state = "END" /\ req'.todo = "advance"
    BY <1>1, <1>8, <2>1, AdvanceRequest
  <2>3. ResponseFits'
    BY <1>1, <1>8, <2>1, <2>2, Zenon DEF ResponseInv, ResponseFits
  <2>4. WireFits'
    BY <2>2 DEF WireFits
  <2>5. failures' = 0 => ContentFits'
    <3>1. Payload' = Payload
      BY <1>1, Zenon DEF Payload
    <3>2. resp'.state # "END"
      BY <1>8, <2>1 DEF Finished
    <3> QED BY <1>1, <2>1, <3>1, <3>2, Zenon DEF ResponseInv, ContentFits
  <2>6. AcksFit'
    <3>1. AcksFit /\ resp'.acked \in Nat /\ resp'.acked <= resp.acked + Head(tcp.due)
      BY <1>2, <2>1, ResponseTypes DEF ResponseInv
    <3> QED BY <1>1, <1>3, <3>1, AcksAfterAck
  <2>7. ResponseTyped'
    BY <1>1, <1>3, <1>4, <2>1, TcpTypes DEF ResponseTyped
  <2> QED BY <2>2, <2>3, <2>4, <2>5, <2>6, <2>7 DEF ResponseInv
<1> QED BY <1>6, <1>7, <1>8 DEF OnAck

-----------------------------------------------------------------------------
(* The theorems.                                                           *)

LEMMA ExchangeTypes ==
  ASSUME ExchangeInv
  PROVE  TypeOK
<1>1. request \in Requests /\ SegmentFits
  BY DEF ExchangeInv, RequestInv
<1>2. IsSuffix(rest, Stream(request)) /\ IsSuffix(buf \o rest, Stream(request))
  BY <1>1, SuffixesFit
<1> QED BY <1>1, <1>2 DEF ExchangeInv, ResponseTyped, TcpType, TypeOK

LEMMA InitExchange ==
  ASSUME Init
  PROVE  ExchangeInv
<1>1. /\ request \in Requests /\ rest = Stream(request) /\ buf = <<>>
      /\ req = [state |-> "START", temp |-> <<>>, length |-> 0, parsed |-> 0, expecting |-> FALSE,
                todo |-> "none", handler |-> "none", live |-> TRUE, handled |-> 0]
      /\ resp = NoResponse /\ wire = <<>> /\ failures = 0
  BY DEF Init
<1>2. request \in Request
  BY <1>1, RequestParts
<1>3. Stream(request) \in Texts
  BY <1>2, StreamIs
<1>4. /\ req.state = "START" /\ req.temp = <<>> /\ req.length = 0 /\ req.parsed = 0 /\ req.expecting = FALSE
      /\ req.todo = "none" /\ req.handled = 0 /\ req.live
  BY <1>1
<1>5. buf \o rest = Stream(request) /\ Left = Stream(request) /\ <<>> \o (buf \o rest) = Stream(request)
  BY <1>1, <1>3, <1>4, TokensEmpty DEF Left
<1>6. SegmentFits
  BY <1>1, <1>3, <1>5, TokensEmpty DEF SegmentFits
<1>7. LinesFit
  BY <1>4, <1>5, WordsOfLines DEF LinesFit
<1>8. BodyFits
  BY <1>4 DEF BodyFits
<1>9. resp.kind = "none" /\ NoResponse.kind = "none"
  BY <1>1 DEF NoResponse
<1>10. HandlingFits
  BY <1>4, <1>9 DEF HandlingFits
<1>11. req \in AsyncWebServerRequest
  <2>1. <<>> \in Seq(Words)
    OBVIOUS
  <2> QED BY <1>1, <2>1 DEF AsyncWebServerRequest, Words
<1>12. resp \in AsyncWebServerResponse
  BY <1>1, SizesFit, DataFacts DEF NoResponse, AsyncWebServerResponse
<1>13. tcp \in TcpType /\ tcp.unacked = 0 /\ tcp.due = <<>> /\ tcp.unacked <= tcp.window
  <2>1. PICK w \in Windows :
          tcp = [open |-> TRUE, window |-> w, unacked |-> 0, busy |-> FALSE, rxTimeout |-> TRUE, due |-> <<>>]
    BY DEF Init
  <2>2. <<>> \in Seq(Nat \ {0})
    OBVIOUS
  <2>3. tcp \in TcpType /\ tcp.unacked = 0 /\ tcp.due = <<>> /\ tcp.window \in Windows
    BY <2>1, <2>2 DEF TcpType
  <2>4. tcp.window \in Nat
    BY <2>3, SizesFit
  <2> QED BY <2>3, <2>4
<1>14. ResponseTyped
  BY <1>1, <1>12, <1>13, SizesFit, DataFacts DEF ResponseTyped
<1>15. ResponseFits
  BY <1>1, <1>9 DEF ResponseFits
<1>16. WireFits
  BY <1>1 DEF WireFits
<1>17. ContentFits
  <2>1. Payload = <<>> /\ Payload = wire
    BY <1>1, NoPayload DEF Payload
  <2>2. Units(0 + 1, 0) = <<>>
    BY UnitsEmpty
  <2> QED BY <1>9, <2>1, <2>2 DEF ContentFits
<1>18. AcksFit
  <2> DEFINE g == [i \in 0..0 |-> 0]
  <2>1. g \in [0..Len(<<>>) -> Nat] /\ g[0] = 0 /\ IsTotal(g, <<>>)
    BY DEF IsTotal
  <2> HIDE DEF g
  <2>2. resp.acked = 0 /\ Len(wire) = 0
    BY <1>1 DEF NoResponse
  <2>3. resp.acked + g[0] + tcp.unacked <= Len(wire)
    BY <1>13, <2>1, <2>2
  <2> QED BY <1>13, <2>1, <2>3 DEF AcksFit
<1> QED BY <1>1, <1>6, <1>7, <1>8, <1>10, <1>11, <1>14, <1>15, <1>16, <1>17, <1>18
        DEF ExchangeInv, RequestInv, ResponseInv

LEMMA NextExchange ==
  ASSUME ExchangeInv, [Next]_vars
  PROVE  ExchangeInv'
<1>1. TypeOK /\ RequestInv /\ ResponseInv
  BY ExchangeTypes DEF ExchangeInv
<1>2. RequestInv' /\ ResponseInv' /\ req' \in AsyncWebServerRequest /\ ResponseTyped'
  <2>1. CASE Deliver \/ KeepPart \/ ReqHeader \/ EndOfHeaders \/ AttachHandler \/ Body \/ PassOver
    BY <1>1, <2>1, ParsingKeeps
  <2>2. CASE ReqHead
    BY <1>1, <2>2, ReqHeadKeeps
  <2>3. CASE Continue
    BY <1>1, <2>3, ContinueKeeps
  <2>4. CASE HandleRequest
    BY <1>1, <2>4, HandleKeeps
  <2>5. CASE Respond
    BY <1>1, <2>5, RespondKeeps
  <2>6. CASE Advance
    BY <1>1, <2>6, AdvanceKeeps
  <2>7. CASE PeerAcks \/ PeerCloses
    BY <1>1, <2>7, PeerKeeps
  <2>8. CASE OnAck
    BY <1>1, <2>8, OnAckKeeps
  <2>9. CASE OnPoll
    BY <1>1, <2>9, OnPollKeeps
  <2>10. CASE Disconnected \/ RxTimeout \/ AckTimeout
    BY <1>1, <2>10, ClosingKeeps
  <2>11. CASE UNCHANGED vars
    <3>1. UNCHANGED <<request, rest, buf, req, resp, tcp, wire, failures>>
      BY <2>11 DEF vars
    <3>2. SegmentFits' /\ LinesFit' /\ BodyFits'
      BY <1>1, <3>1, RequestStays
    <3>3. HandlingFits'
      BY <1>1, <3>1, Zenon DEF RequestInv, HandlingFits
    <3>4. WireEarly' => WireEarly
      BY <3>1 DEF WireEarly
    <3>5. ResponseInv' /\ ResponseTyped'
      BY <1>1, <3>1, <3>4, OnlyRequest
    <3> QED BY <3>1, <3>2, <3>3, <3>5 DEF RequestInv, ExchangeInv
  <2> QED BY <2>1, <2>2, <2>3, <2>4, <2>5, <2>6, <2>7, <2>8, <2>9, <2>10, <2>11 DEF Next, Segment
<1>3. request' \in Requests
  <2>1. request' = request
    BY DEF Next, Segment, Deliver, KeepPart, ReqHead, ReqHeader, EndOfHeaders, AttachHandler, Continue,
           Body, PassOver, HandleRequest, Respond, Advance, PeerAcks, OnAck, OnPoll, PeerCloses,
           Disconnected, RxTimeout, AckTimeout, Closes, vars
  <2> QED BY <2>1 DEF ExchangeInv
<1> QED BY <1>2, <1>3 DEF ExchangeInv

\* The parser is where it says it is, whatever the segments; what is left of a
\* response follows what the peer was sent of it; and what is acknowledged, on
\* its way to be, or open was sent.
THEOREM ExchangeAlways == Spec => []ExchangeInv
<1>1. Init => ExchangeInv
  BY InitExchange
<1>2. ExchangeInv /\ [Next]_vars => ExchangeInv'
  BY NextExchange
<1> QED BY <1>1, <1>2, PTL DEF Spec

\* As long as no call of write fails for want of memory, the peer gets the
\* response from its first unit on, without a gap and nothing twice, whatever
\* room the send buffer has and whenever it is acknowledged (_ack of
\* AsyncBasicResponse and AsyncAbstractResponse).
THEOREM PeerAlwaysGetsInOrder == Spec => []PeerGetsInOrder
<1>1. ExchangeInv => PeerGetsInOrder
  BY DEF ExchangeInv, ResponseInv, ContentFits, PeerGetsInOrder
<1> QED BY <1>1, ExchangeAlways, PTL

LEMMA FinishedFollows ==
  ASSUME ExchangeInv
  PROVE  FinishedInv
<1>1. TypeOK /\ RequestInv /\ ResponseInv
  BY ExchangeTypes DEF ExchangeInv
<1>2. ASSUME failures = 0, Finished
      PROVE  resp.kind # "none" /\ ContentFits /\ Len(Payload) = resp.total /\ resp.acked >= Len(Payload)
  <2>1. resp.kind # "none"
    BY <1>1, <1>2 DEF ResponseInv, ResponseFits, NoResponse, Finished
  <2> QED BY <1>1, <1>2, <2>1, Zenon DEF ResponseInv, ContentFits, Finished
<1>3. FinishedIsComplete
  BY <1>2 DEF FinishedIsComplete
<1>4. FinishedIsAcked
  <2> SUFFICES ASSUME failures = 0, Finished PROVE tcp.unacked <= (IF request.expect THEN 1 ELSE 0)
    BY DEF FinishedIsAcked
  <2>1. PICK f : /\ f \in [0..Len(tcp.due) -> Nat]
                 /\ resp.acked + f[0] + tcp.unacked <= Len(wire)
    BY <1>1, <1>2 DEF ResponseInv, AcksFit
  <2>2. Len(wire) <= Len(Payload) + (IF request.expect THEN 1 ELSE 0)
    <3>1. ~request.expect => Payload = wire
      BY <1>2, Zenon DEF ContentFits
    <3>2. wire \in Data /\ Len(wire) \in Nat
      BY <1>1, TcpTypes, DataFacts
    <3>3. Len(wire) <= Len(Payload) + 1
      <4>1. CASE wire # <<>> /\ Head(wire) = 0
        <5>1. Len(Tail(wire)) = Len(wire) - 1
          BY <3>2, <4>1, HeadTailProperties DEF Data
        <5> QED BY <3>2, <4>1, <5>1 DEF Payload
      <4>2. CASE ~(wire # <<>> /\ Head(wire) = 0)
        <5>1. Payload = wire
          BY <4>2, Zenon DEF Payload
        <5> QED BY <3>2, <5>1
      <4> QED BY <4>1, <4>2
    <3>4. CASE request.expect
      BY <3>3, <3>4
    <3>5. CASE ~request.expect
      <4>1. Len(Payload) = Len(wire)
        BY <3>1, <3>5
      <4> QED BY <3>2, <3>5, <4>1
    <3> QED BY <3>4, <3>5
  <2>3. f[0] \in Nat
    <3>1. 0 \in 0..Len(tcp.due)
      BY <1>1, TcpTypes, LenProperties
    <3> QED BY <2>1, <3>1
  <2>4. PICK a \in Nat, b \in Nat, c \in Nat, d \in Nat, p \in Nat, e \in Nat :
          /\ a = resp.acked /\ b = f[0] /\ c = tcp.unacked /\ d = Len(wire)
          /\ p = resp.total /\ e = (IF request.expect THEN 1 ELSE 0)
    BY <1>1, <2>3, ResponseTypes, TcpTypes, DataFacts
  <2>5. a + b + c <= d /\ d <= p + e /\ a >= p
    BY <1>2, <2>1, <2>2, <2>4
  <2>6. c <= e
    BY <2>5
  <2> QED BY <2>4, <2>6
<1> QED BY <1>1, <1>3, <1>4 DEF FinishedInv

\* As long as no call finds no memory, a response counts as finished only when
\* the peer was sent all of it, and has acknowledged it but for as many bytes as
\* the interim "100 Continue" has (the WAIT_ACK state of both _ack functions).
\* With a call that fails it is false: content is cut and counted before write
\* answers (WebResponses.cpp:229-232).
THEOREM FinishedAlways == Spec => []FinishedInv
<1>1. ExchangeInv => FinishedInv
  BY FinishedFollows
<1> QED BY <1>1, ExchangeAlways, PTL

LEMMA CompleteFollows ==
  ASSUME ExchangeInv
  PROVE  CompleteIsHandled
<1>1. TypeOK /\ RequestInv /\ ResponseInv
  BY ExchangeTypes DEF ExchangeInv
<1>2. req.handled \in {0, 1} /\ (req.handled = 1 => req.parsed >= req.length)
  BY <1>1 DEF RequestInv, HandlingFits, BodyFits
<1>3. ASSUME Idle, rest = <<>>, req.handled # 1
      PROVE  request.body > 0 /\ request.extra > 0
  <2>1. /\ req.live /\ req.todo = "none" /\ buf = <<>> /\ rest = <<>>
        /\ req.temp \in Texts /\ request \in Requests
    BY <1>1, <1>3, RequestTypes DEF Idle
  <2>2. req.state \in {"START", "HEADERS", "BODY"}
    BY <1>1, <1>3, <2>1, RequestTypes DEF RequestInv, LinesFit, HandlingFits
  <2>3. ~(req.state \in {"START", "HEADERS"})
    <3> SUFFICES ASSUME req.state \in {"START", "HEADERS"} PROVE FALSE
      OBVIOUS
    <3>1. PICK w \in Seq(Words), R \in Texts : w \in Texts /\ IsPart(w) /\ Left = w \o (<<Newline>> \o R)
      BY <1>1, <2>1, LineIsNext
    <3>2. Left = req.temp /\ Left = req.temp \o <<>> /\ <<>> \in Texts
      BY <2>1, TokensEmpty DEF Left
    <3>3. IsPart(req.temp)
      BY <1>1 DEF RequestInv, LinesFit
    <3>4. Newline \in Tokens
      BY WordsOfLines
    <3>5. req.temp \o <<>> = w \o (<<Newline>> \o R)
      BY <3>1, <3>2, Zenon
    <3>6. Len(req.temp) <= Len(w)
      BY <2>1, <3>1, <3>2, <3>3, <3>4, <3>5, PartOfLine DEF Texts
    <3>7. Len(req.temp) = Len(w) + (1 + Len(R))
      <4>1. /\ <<Newline>> \o R \in Seq(Tokens) /\ Len(<<Newline>> \o R) = Len(<<Newline>>) + Len(R)
            /\ Len(<<Newline>>) = 1
        BY <3>1, <3>4, ConcatProperties, WordsOfLines DEF Texts
      <4>2. Len(w \o (<<Newline>> \o R)) = Len(w) + Len(<<Newline>> \o R)
        BY <3>1, <4>1, ConcatProperties DEF Texts
      <4> QED BY <3>1, <3>2, <4>1, <4>2
    <3>8. Len(w) \in Nat /\ Len(R) \in Nat /\ Len(req.temp) \in Nat
      BY <2>1, <3>1, LenProperties DEF Texts
    <3> QED BY <3>6, <3>7, <3>8
  <2>4. /\ req.length > 0 /\ req.parsed # req.length /\ req.length = request.body
        /\ req.parsed + Len(buf) + Len(rest) = request.body + request.extra
    BY <1>1, <2>2, <2>3 DEF RequestInv, BodyFits
  <2>5. Len(buf) = 0 /\ Len(rest) = 0 /\ request.body \in Nat /\ request.extra \in Nat /\ req.parsed \in Nat
    BY <1>1, <2>1, RequestTypes, RequestParts
  <2> QED BY <2>4, <2>5
<1> QED BY <1>2, <1>3 DEF CompleteIsHandled

\* When all of a request is there it has been handled once, however it was cut
\* into segments, but for one whose body is followed by more (_onData
\* and _parseLine of AsyncWebServerRequest).
THEOREM CompleteAlwaysHandled == Spec => []CompleteIsHandled
<1>1. ExchangeInv => CompleteIsHandled
  BY CompleteFollows
<1> QED BY <1>1, ExchangeAlways, PTL

=============================================================================
