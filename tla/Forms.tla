------------------------------- MODULE Forms --------------------------------
(***************************************************************************)
(* What becomes of a form, from what the user typed to the fields of cfg:  *)
(* the browser's encoding (firmware/data/main.html), the parameters of the *)
(* url and of the body (WebRequest.cpp), the route (WebHandlerImpl.h), and *)
(* the handlers of the five forms (webserver.cpp), which read them back;   *)
(* then the page is loaded again from the device.                          *)
(*                                                                         *)
(* Everything runs in one callback of the async_tcp task: the steps are    *)
(* those of its loops.  A text is a sequence of characters, each a string; *)
(* decimal numbers are single characters, and so is what JSON writes after *)
(* \u.  A character takes one byte, or two.  A field goes by its id in    *)
(* the page.                                                               *)
(***************************************************************************)
EXTENDS BodyParser, Integers, FiniteSetsExt

CONSTANTS
  Visits,    \* what the browser asks for, records as below
  Number,    \* function: the characters that are numbers, to what they mean
  Widest,    \* the largest int (2147483647 in the build)
  Wide,      \* the characters of two bytes
  Coded,     \* function: what JSON can write after \u, to what it means
  Size,      \* function: a field of text, to its bytes (16, 32 or 64)
  JsonRoom   \* what the service page's JsonDocument has for texts, those
             \* of the keys apart

VARIABLES
  visit,     \* what the browser sends, with what was typed into the form
  phase,     \* where the request is
  query,     \* what _addGetParams has still to read
  handler,   \* the route that takes the request
  body,      \* the bytes still to come
  parser,    \* the fields of AsyncWebServerRequest that read them
  cfg,       \* the settings of the five forms
  answer,    \* what the handler sent
  kept       \* history: the settings when the page was loaded again

vars == <<visit, phase, query, handler, body, parser, cfg, answer, kept>>

-----------------------------------------------------------------------------
(* The routes, in the order they are added in.                             *)

Page(path, kind) == [uri |-> path, kind |-> kind]
Routes ==
  <<Page(<<"">>, "page"), Page(<<"main.html">>, "page"),
    Page(<<"js", "bootstrap.min.js">>, "page"), Page(<<"js", "jquery-1.12.3.min.js">>, "page"),
    Page(<<"js", "pixie-custom.js">>, "page"), Page(<<"css", "bootstrap.min.css">>, "page"),
    Page(<<"css", "pixie-main.css">>, "page")>>
  \o [i \in 1..11 |-> Page(<<"images",
        <<"ap.png", "eye-close.png", "light.png", "network.png", "other.png", "periperal.png",
          "reboot.png", "service.png", "status.png", "upgrade.png", "timezone.png">>[i]>>, "image")]
  \o [i \in 1..6 |-> Page(<<<<"main", "networkData", "ntpData", "serviceData", "calibrationData",
                              "sample">>[i]>>, "data")]
  \o <<Page(<<"applyAP">>, "ap"), Page(<<"scanWifi">>, "scan"), Page(<<"applyNtp">>, "ntp"),
       Page(<<"applyNetwork">>, "network"), Page(<<"applyService">>, "service"),
       Page(<<"applyCalibration">>, "calibration"), Page(<<"rebootbtnfunction">>, "reboot"),
       Page(<<"resetbtnfunction">>, "reset")>>

\* A route takes its own url, and every url below it.
canHandle(route, path) == IsPrefix(route.uri, path)

-----------------------------------------------------------------------------
(* The browser.                                                            *)

APKeys == <<"txtaplan", "txtssid", "txtpass">>
NetworkKeys == <<"wifi_ssid", "wifi_pass", "wifi_MODE", "txtipadd", "net_m">>
NtpKeys == <<"hntp", "pntp">>
ServiceKeys == <<"hipadd", "port", "c_id", "U_name", "s_pass", "pub_topic_temp", "interval_temp",
                 "u_interval_temp", "pub_topic_ping", "interval_ping", "u_interval_ping",
                 "sub_topic_rel1", "sub_topic_rel2", "sub_topic_en">>
CalibrationKeys == <<"ical0", "ocal0", "ical1", "ocal1">>
FormKeys == [ap |-> APKeys, network |-> NetworkKeys, ntp |-> NtpKeys, service |-> ServiceKeys,
             calibration |-> CalibrationKeys]
Addresses == {"txtaplan", "txtipadd", "net_m"}
NumberFields == {"pntp", "port", "interval_temp", "interval_ping", "ical0", "ocal0", "ical1", "ocal1"}
FormFields == UNION {ToSet(FormKeys[f]) : f \in DOMAIN FormKeys}
TextFields == FormFields \ (Addresses \union NumberFields)
Tab == "\t"
Bytes(text) == Len(text) + Cardinality({i \in DOMAIN text : text[i] \in Wide})
\* The characters of a text at these places.
Only(text, places) ==
  LET at(n) == CHOOSE i \in places : Cardinality({j \in places : j < i}) = n - 1
  IN  [n \in 1..Cardinality(places) |-> text[at(n)]]
\* What a field of a page does not show as it is: line ends, and the byte
\* that came of a stray "%".
Hidden == {CR, LF, "other"}
Keys(path) == LET forms == {Routes[i].kind : i \in {j \in DOMAIN Routes : Routes[j].uri = path}}
              IN  IF forms \subseteq DOMAIN FormKeys /\ forms # {}
                  THEN FormKeys[CHOOSE f \in forms : TRUE] ELSE <<>>

\* A form that is not filled in is not sent.  The time form looks at the port
\* beside it, and at a field there is not.
NetworkFilled(v) == v.typed.wifi_ssid # <<>> /\ v.typed.wifi_pass # <<>>
ServiceFilled(v) == v.typed.hipadd # <<>> /\ v.typed.port # <<>>
NtpFilled(v) == v.beside # <<>>
FilledIn(v) ==
  CASE Keys(v.path) = NetworkKeys -> NetworkFilled(v)
    [] Keys(v.path) = ServiceKeys -> ServiceFilled(v)
    [] Keys(v.path) = NtpKeys -> NtpFilled(v)
    [] OTHER -> TRUE

\* encodeURIComponent, and what becomes of a url: jQuery takes the fragment
\* off, the browser the spaces at the end, and writes the others out.
Encode(text) == FlattenSeq([i \in DOMAIN text |->
  IF text[i] \in DOMAIN HexDigits THEN <<"%">> \o HexDigits[text[i]] ELSE <<text[i]>>])
Escape(text) == FlattenSeq([i \in DOMAIN text |-> IF text[i] = Space THEN <<"%", "2", "0">> ELSE <<text[i]>>])
BeforeFragment(url) == SubSeq(url, 1, IndexOf(url, "#") - 1)
Stripped(url) == SubSeq(url, 1, Max({0} \union {i \in DOMAIN url : url[i] # Space}))

\* The access point's page puts its fields into the url as they are, the
\* others make JSON of them and encode it.
Query(v) ==
  LET keys == Keys(v.path) IN
  IF v.path = <<"applyAP">>
  THEN Escape(Stripped(BeforeFragment(FlattenSeq([i \in DOMAIN keys |->
         (IF i = 1 THEN <<>> ELSE <<"&">>) \o <<keys[i], "=">> \o v.typed[keys[i]]]))))
  ELSE IF keys = <<>> THEN v.asked
       ELSE <<"parameters", "=">> \o Encode(FlattenSeq([i \in DOMAIN keys |-> <<keys[i]>> \o v.typed[keys[i]]]))

Delimiter == <<Dash, Dash>> \o Boundary
IsFile(f) == FileNames[f.name[1]] # NoFile
MultipartBody(v) ==
  Delimiter
  \o FlattenSeq([i \in DOMAIN v.fields |->
       LET f == v.fields[i] IN
       CRLF \o f.name \o CRLF
       \o (IF IsFile(f) THEN <<ContentType>> \o CRLF ELSE <<>>)
       \o CRLF \o f.value \o CRLF \o Delimiter])
  \o <<Dash, Dash>> \o v.tail
PostBody(v) ==
  FlattenSeq([i \in DOMAIN v.fields |->
    (IF i = 1 THEN <<>> ELSE <<"&">>) \o v.fields[i].name \o <<"=">> \o Encode(v.fields[i].value)])
BodyOf(v) == CASE v.kind = "none" -> <<>> [] v.kind = "post" -> PostBody(v) [] OTHER -> MultipartBody(v)

\* A visit is [path, typed, beside, asked, kind, fields, tail, memory]: the
\* segments of the url; what was typed into the form of that url, by key; the
\* service form's port, which stands beside the time form; what a url of no
\* form asks with; the kind of the body, its fields and what follows a
\* multipart one; whether there is memory for a file.
\* A form is sent by its page, whose keys are no characters one types, and
\* whose limits count characters.  An id has none; a network has its name.
\* No tab is typed into the access point's, where a browser takes it off.
Limited(k, text) ==
  CASE k = "c_id" -> TRUE
    [] k = "wifi_ssid" -> Bytes(text) <= Size[k]
    [] OTHER -> Len(text) < Size[k]
FromPage(path, typed) ==
  /\ \A i \in DOMAIN Routes :
       Routes[i].kind \in DOMAIN FormKeys /\ canHandle(Routes[i], path) => path = Routes[i].uri
  /\ typed \in [ToSet(Keys(path)) -> Seq(STRING)]
  /\ \A k \in DOMAIN typed : ToSet(typed[k]) \intersect Hidden = {}
  /\ path = <<"applyAP">> => \A k \in DOMAIN typed : Tab \notin ToSet(typed[k])
  /\ path # <<"applyAP">> => \A k \in DOMAIN typed : ToSet(typed[k]) \intersect DOMAIN typed = {}
  /\ \A k \in DOMAIN typed \intersect TextFields : Limited(k, typed[k])
  /\ "wifi_MODE" \in DOMAIN typed => typed["wifi_MODE"] \in {<<"static">>, <<"dhcp">>}
\* No browser sends a boundary inside an item, and no form two files by one name.
FromForm(kind, fields) ==
  /\ kind \in {"none", "post", "multipart"} /\ (kind = "none" => fields = <<>>)
  /\ fields \in Seq([name : Seq(STRING), value : Seq(STRING)])
  /\ \A i \in DOMAIN fields :
       LET f == fields[i] IN
       /\ Len(f.name) = 1
       /\ kind = "post" => f.name[1] \notin DOMAIN HexDigits \union {"{", "["}
       /\ kind = "multipart" =>
            /\ f.name[1] \in DOMAIN FileNames
            /\ \A n \in 0..Len(f.value) : ~IsPrefix(CRLF \o Delimiter, SubSeq(f.value, n + 1, Len(f.value)))
            /\ \A j \in DOMAIN fields : IsFile(f) /\ fields[j].name = f.name => i = j
IsVisit(v) ==
  /\ v \in [path : Seq(STRING), typed : {v.typed}, beside : Seq(STRING), asked : Seq(STRING),
            kind : STRING, fields : {v.fields}, tail : Seq(STRING), memory : BOOLEAN]
  /\ FromPage(v.path, v.typed) /\ FromForm(v.kind, v.fields)

\* Numbers are whole, and written without the characters above; what is
\* shown of an address can be written.
ASSUME FormsAssumption ==
  /\ \A v \in Visits : IsVisit(v)
  /\ Number \in [DOMAIN Number -> Int]
  /\ DOMAIN Number \subseteq STRING \ (DOMAIN HexDigits \union {"."} \union FormFields)
  /\ \A n \in {0, 1, 4, 168, 192} \union {Number[c] % 256 : c \in DOMAIN Number} :
       \E c \in DOMAIN Number : Number[c] = n
  /\ Widest \in Nat
  /\ Coded \in [DOMAIN Coded -> STRING \ FormFields]
  /\ Size \in [TextFields -> Nat \ {0}]

-----------------------------------------------------------------------------
(* Reading the fields.                                                     *)

\* The parts of an address, as strtok finds them: runs without a dot.
Parts(text) ==
  LET starts == {i \in DOMAIN text : text[i] # "." /\ (i = 1 \/ text[i - 1] = ".")}
      at(n) == CHOOSE i \in starts : Cardinality({j \in starts : j < i}) = n - 1
  IN  [n \in 1..Cardinality(starts) |->
         SubSeq(text, at(n), at(n) + IndexOf(SubSeq(text, at(n), Len(text)), ".") - 2)]

Atoi(part) == IF part[1] \in DOMAIN Number THEN Number[part[1]] ELSE 0

\* Mutant of stringToIp: the fourth part is refused already.
stringToIpThree(text) == [ok |-> FALSE, ip |-> <<>>]

stringToIp(text) ==
  IF Len(Parts(text)) # 4 THEN [ok |-> FALSE, ip |-> <<>>]
  ELSE [ok |-> TRUE, ip |-> [n \in 1..4 |-> Atoi(Parts(text)[n]) % 256]]

Digits(n) == CHOOSE c \in DOMAIN Number : Number[c] = n

\* Mutant of ipToString: the parts in the order of the other byte order.
ipToStringReversed(ip) ==
  FlattenSeq([n \in DOMAIN ip |-> (IF n = 1 THEN <<>> ELSE <<".">>) \o <<Digits(ip[5 - n])>>])

ipToString(ip) == FlattenSeq([n \in DOMAIN ip |-> (IF n = 1 THEN <<>> ELSE <<".">>) \o <<Digits(ip[n])>>])

\* Some parameter of the request by that name, and from the url.
Named(name) == {i \in DOMAIN parser.params :
                  parser.params[i].name = <<name>> /\ parser.params[i].kind = "query"}
getParam(name) == parser.params[CHOOSE i \in Named(name) : \A j \in Named(name) : i <= j].value

\* deserializeJson of one string: what follows a backslash is translated, if
\* JSON knows it; a quote of its own ends the text too early.
Escapes ==
  [c \in {Quote, Backslash, "/", "'", "b", "f", "n", "r", "t"} \union DOMAIN Coded |->
     CASE c \in {Quote, Backslash, "/", "'"} -> c
       [] c = "b" -> "backspace" [] c = "f" -> "\f" [] c = "n" -> LF [] c = "r" -> CR [] c = "t" -> Tab
       [] OTHER -> Coded[c]]
Escaped(text) ==
  LET escaped[i \in DOMAIN text] == i > 1 /\ text[i - 1] = Backslash /\ ~escaped[i - 1]
  IN  {i \in DOMAIN text : escaped[i]}
ReadsAsString(text) ==
  /\ \A i \in DOMAIN text : text[i] = Quote => i \in Escaped(text)
  /\ \A i \in Escaped(text) : text[i] \in DOMAIN Escapes
  /\ text # <<>> /\ Last(text) = Backslash => Len(text) \in Escaped(text)
Unescaped(text) ==
  Only([i \in DOMAIN text |-> IF i \in Escaped(text) THEN Escapes[text[i]] ELSE text[i]],
       {i \in DOMAIN text : text[i] # Backslash \/ i \in Escaped(text)})

\* A number is written without quotes, so that a field left empty is none.
ReadsAsNumber(text) == Len(text) = 1 /\ text[1] \in DOMAIN Number

\* What the type of the field holds, and what ArduinoJson makes of a number
\* it does not.
Held(key) ==
  CASE key = "port" -> 0..65535 [] key \in {"ical0", "ical1"} -> -32768..32767
    [] key \in {"ocal0", "ocal1"} -> Int [] OTHER -> (-Widest - 1)..Widest
Converted(key, n) == IF n \in Held(key) THEN n ELSE 0

\* The text of a member of one form's JSON, between its key and the next.
Member(form, key) ==
  LET json == getParam("parameters")
      from == IndexOf(json, key) + 1
      ends == {i \in from..Len(json) : json[i] \in ToSet(FormKeys[form])} \union {Len(json) + 1}
  IN  SubSeq(json, from, (CHOOSE i \in ends : \A j \in ends : i <= j) - 1)

\* deserializeJson of a form, and the values it finds.
ReadsAsJson(form) ==
  \A k \in ToSet(FormKeys[form]) :
    IF k \in NumberFields THEN ReadsAsNumber(Member(form, k)) ELSE ReadsAsString(Member(form, k))
Parsed(form, key) ==
  IF key \in NumberFields THEN Converted(key, Number[Member(form, key)[1]]) ELSE Unescaped(Member(form, key))

\* The document keeps a copy of each text, equal ones once, with its end.
HasRoom(texts) == MapThenSumSet(LAMBDA text : Bytes(text) + 1, texts) <= JsonRoom
Fits(form) ==
  form = "service" => HasRoom({Unescaped(Member(form, k)) : k \in ToSet(ServiceKeys) \ NumberFields})

-----------------------------------------------------------------------------
(* The request.                                                            *)

Shipped == [k \in FormFields |->
  CASE k = "txtaplan" -> <<192, 168, 4, 1>> [] k \in {"txtipadd", "net_m"} -> <<0, 0, 0, 0>>
    [] k = "txtssid" -> <<"logger">> [] k = "txtpass" -> <<"k", "w">>
    [] k = "wifi_MODE" -> <<"dhcp">> [] k = "hntp" -> <<"pool">> [] k \in NumberFields -> 0 [] OTHER -> <<>>]
ASSUME ShippedAssumption == \A k \in TextFields : Bytes(Shipped[k]) < Size[k]

Start(v) == IF FilledIn(v) THEN "head" ELSE "unsent"

Send(v) ==
  /\ visit' = v /\ phase' = Start(v) /\ query' = Query(v) /\ handler' = 0 /\ body' = BodyOf(v)
  /\ parser' = NewParser(Len(BodyOf(v))) /\ answer' = "none"

Init ==
  /\ visit \in Visits
  /\ phase = Start(visit) /\ query = Query(visit) /\ handler = 0 /\ body = BodyOf(visit)
  /\ parser = NewParser(Len(body)) /\ cfg = Shipped /\ answer = "none" /\ kept = <<>>

\* One turn of _addGetParams.
addGetParam ==
  /\ phase = "head" /\ query # <<>>
  /\ LET end == IndexOf(query, "&")
         equal == IndexOf(SubSeq(query, 1, end - 1), "=")
     IN  /\ parser' = [parser EXCEPT !.params = Append(@, Parameter(urlDecode(SubSeq(query, 1, equal - 1)),
                                                        urlDecode(SubSeq(query, equal + 1, end - 1)), "query"))]
         /\ query' = SubSeq(query, end + 1, Len(query))
  /\ UNCHANGED <<visit, phase, handler, body, cfg, answer, kept>>

\* The first route that takes the url.  Every route is for GET, so a body
\* that is looked into comes with a GET too.
attachHandler ==
  /\ phase = "head" /\ query = <<>>
  /\ LET takers == {i \in DOMAIN Routes : canHandle(Routes[i], visit.path)}
     IN  handler' = IF takers = {} THEN 0 ELSE CHOOSE i \in takers : \A j \in takers : i <= j
  /\ phase' = IF body = <<>> THEN "handle" ELSE "body"
  /\ UNCHANGED <<visit, query, body, parser, cfg, answer, kept>>

\* Mutant of Byte: the length is compared before the segment's last byte is counted.
ByteLate ==
  /\ phase = "body" /\ body # <<>>
  /\ \E last \in IF Len(body) = 1 THEN {TRUE} ELSE BOOLEAN :
       /\ parser' = IF handler = 0 THEN [parser EXCEPT !.parsed = @ + 1]
                    ELSE IF visit.kind = "post" THEN PlainPostChar(parser, body[1])
                    ELSE MultipartByte(parser, body[1], last, visit.memory)
       /\ phase' = IF last /\ parser.parsed = parser.length THEN "handle" ELSE "body"
  /\ body' = Tail(body)
  /\ UNCHANGED <<visit, query, handler, cfg, answer, kept>>

\* A byte of the body, which may be the last of its segment.  Without a route
\* the bytes are only counted.  The length is compared after each segment.
Byte ==
  /\ phase = "body" /\ body # <<>>
  /\ \E last \in IF Len(body) = 1 THEN {TRUE} ELSE BOOLEAN :
       /\ parser' = IF handler = 0 THEN [parser EXCEPT !.parsed = @ + 1]
                    ELSE IF visit.kind = "post" THEN PlainPostChar(parser, body[1])
                    ELSE MultipartByte(parser, body[1], last, visit.memory)
       /\ phase' = IF last /\ parser'.parsed = parser'.length THEN "handle" ELSE "body"
  /\ body' = Tail(body)
  /\ UNCHANGED <<visit, query, handler, cfg, answer, kept>>

\* The receive timeout ends a request that stays incomplete.
Timeout ==
  /\ phase = "body" /\ body = <<>> /\ phase' = "closed"
  /\ UNCHANGED <<visit, query, handler, body, parser, cfg, answer, kept>>

Kind == IF handler = 0 THEN "none" ELSE Routes[handler].kind

\* The parameters a handler reads without asking whether they are there, and
\* what the two that reboot look for.
Required == [ap |-> ToSet(APKeys), scan |-> {"scan_wifi"}, reboot |-> {"reboot_btn"}, reset |-> {"reset_btn"}]
Wanted == [reboot |-> [reboot_btn |-> <<"reboot_device">>], reset |-> [reset_btn |-> <<"reset_device">>]]
Complete == Kind \in DOMAIN Required => \A k \in Required[Kind] : Named(k) # {}
AsWanted == Kind \in DOMAIN Wanted => \A k \in Required[Kind] : getParam(k) = Wanted[Kind][k]
Readable == IF Kind = "ap" THEN Complete ELSE ReadsAsJson(Kind) /\ Fits(Kind)

\* One of them is missing: a null pointer is followed, and what was copied
\* before it is lost with the memory.
ApplyIncomplete ==
  /\ phase = "handle" /\ ~Complete
  /\ phase' = "restart"
  /\ UNCHANGED <<visit, query, handler, body, parser, cfg, answer, kept>>

\* What a form's handler copies, and what is read of it.  strcpy does not look
\* at the size: a text that leaves no room for its end is read on into the
\* field after it, if that is written after it.
Copied(k) == IF Kind = "ap" THEN getParam(k) ELSE Parsed(Kind, k)
NextField == [c_id |-> "U_name", wifi_ssid |-> "wifi_pass"]
Cuts(k, text) == {n \in DOMAIN text : Bytes(SubSeq(text, 1, n)) = Size[k]}
RunsOver(k, text) == Bytes(text) >= Size[k] /\ (k \in DOMAIN NextField => Cuts(k, text) = {})
Stored(k) ==
  LET text == Copied(k) IN
  IF k \in DOMAIN NextField /\ Bytes(text) >= Size[k]
  THEN SubSeq(text, 1, CHOOSE n \in Cuts(k, text) : TRUE) \o Copied(NextField[k])
  ELSE text
Overrun == \E k \in ToSet(FormKeys[Kind]) \intersect TextFields : RunsOver(k, Copied(k))

\* A copy over the end of another field: what the settings are from here on
\* is not followed.
ApplyOverrun ==
  /\ phase = "handle" /\ Kind \in DOMAIN FormKeys /\ Readable /\ Overrun
  /\ phase' = "overrun"
  /\ UNCHANGED <<visit, query, handler, body, parser, cfg, answer, kept>>

Answered(reply) ==
  /\ phase' = "answered" /\ answer' = reply
  /\ UNCHANGED <<visit, query, handler, body, parser, kept>>

\* Empty fields change nothing.
ApplyAP ==
  /\ phase = "handle" /\ Kind = "ap" /\ Readable /\ ~Overrun
  /\ LET addr == stringToIp(getParam("txtaplan"))
         given(k) == getParam(k) # <<>>
     IN  /\ cfg' = [cfg EXCEPT
              !.txtssid = IF given("txtssid") THEN getParam("txtssid") ELSE @,
              !.txtpass = IF given("txtpass") THEN getParam("txtpass") ELSE @,
              !.txtaplan = IF given("txtaplan") /\ addr.ok THEN addr.ip ELSE @]
         /\ Answered(IF given("txtaplan") /\ ~addr.ok THEN "error" ELSE "ok")

\* The form's JSON cannot be read, or not be kept.
ApplyUnreadable ==
  /\ phase = "handle" /\ Kind \in {"network", "ntp", "service", "calibration"}
  /\ ~Readable
  /\ Answered("error") /\ UNCHANGED cfg

\* Mutant of ApplyNetwork: the addresses are read before the mode.
ApplyNetworkOldMode ==
  /\ phase = "handle" /\ Kind = "network" /\ Readable /\ ~Overrun
  /\ LET read(k) == stringToIp(Parsed("network", k))
         static == cfg.wifi_MODE = <<"static">>
     IN  /\ cfg' = [k \in DOMAIN cfg |->
              CASE k \in {"wifi_ssid", "wifi_pass", "wifi_MODE"} -> Stored(k)
                [] k \in {"txtipadd", "net_m"} /\ static /\ read(k).ok -> read(k).ip
                [] OTHER -> cfg[k]]
         /\ Answered(IF \E k \in {"txtipadd", "net_m"} : static /\ ~read(k).ok THEN "error" ELSE "ok")

\* The addresses count in the new mode "static" only; those that are one are
\* stored even if another is not, and with them the other fields.
ApplyNetwork ==
  /\ phase = "handle" /\ Kind = "network" /\ Readable /\ ~Overrun
  /\ LET read(k) == stringToIp(Parsed("network", k))
         static == Parsed("network", "wifi_MODE") = <<"static">>
     IN  /\ cfg' = [k \in DOMAIN cfg |->
              CASE k \in {"wifi_ssid", "wifi_pass", "wifi_MODE"} -> Stored(k)
                [] k \in {"txtipadd", "net_m"} /\ static /\ read(k).ok -> read(k).ip
                [] OTHER -> cfg[k]]
         /\ Answered(IF \E k \in {"txtipadd", "net_m"} : static /\ ~read(k).ok THEN "error" ELSE "ok")

ApplyNtp ==
  /\ phase = "handle" /\ Kind = "ntp" /\ Readable /\ ~Overrun
  /\ cfg' = [k \in DOMAIN cfg |-> IF k \in ToSet(NtpKeys) THEN Stored(k) ELSE cfg[k]]
  /\ Answered("ok")

ApplyService ==
  /\ phase = "handle" /\ Kind = "service" /\ Readable /\ ~Overrun
  /\ cfg' = [k \in DOMAIN cfg |-> IF k \in ToSet(ServiceKeys) THEN Stored(k) ELSE cfg[k]]
  /\ Answered("ok")

\* Whether the factory calibration is to be overwritten is WebServer's.
ApplyCalibration ==
  /\ phase = "handle" /\ Kind = "calibration" /\ Readable
  /\ cfg' = [k \in DOMAIN cfg |-> IF k \in ToSet(CalibrationKeys) THEN Stored(k) ELSE cfg[k]]
  /\ Answered("ok")

\* The other routes change none of these settings.
HandleOther ==
  /\ phase = "handle" /\ Kind \notin DOMAIN FormKeys /\ Complete /\ AsWanted
  /\ Answered(IF Kind = "none" THEN "500" ELSE Kind) /\ UNCHANGED cfg

\* A button that does not say what it should gets no answer, until the
\* receive timeout ends the connection.
Unanswered ==
  /\ phase = "handle" /\ Complete /\ ~AsWanted
  /\ phase' = "closed"
  /\ UNCHANGED <<visit, query, handler, body, parser, cfg, answer, kept>>

\* What each page asks the device for when it is loaded.
mainData == {"txtaplan", "txtssid"}
setNetwork == {"wifi_MODE", "txtipadd", "net_m"}
setNtpData == ToSet(NtpKeys)
setServiceData == ToSet(ServiceKeys)
setCalibration == ToSet(CalibrationKeys)
Loaded == mainData \union setNetwork \union setNtpData \union setServiceData \union setCalibration

\* What the pages show: the address the access point has, not the one it is
\* to have, and no password.  The network is chosen and its password typed
\* again.
Shown ==
  [k \in DOMAIN visit.typed |->
     CASE k \notin Loaded -> IF k = "txtpass" THEN <<>> ELSE visit.typed[k]
       [] k = "txtaplan" -> ipToString(Shipped.txtaplan)
       [] k \in {"txtipadd", "net_m"} -> ipToString(cfg[k])
       [] k \in NumberFields -> <<Digits(cfg[k])>>
       [] k \in Loaded \intersect TextFields -> Only(cfg[k], {i \in DOMAIN cfg[k] : cfg[k][i] \notin Hidden})]

\* After "ok" the page is loaded once more and confirmed as it is.
Again ==
  /\ phase = "answered" /\ answer = "ok" /\ kept = <<>>
  /\ kept' = <<cfg>> /\ UNCHANGED cfg
  /\ Send([visit EXCEPT !.typed = Shown])

Next ==
  \/ addGetParam \/ attachHandler \/ Byte \/ Timeout
  \/ ApplyIncomplete \/ ApplyUnreadable \/ ApplyOverrun
  \/ ApplyAP \/ ApplyNetwork \/ ApplyNtp \/ ApplyService \/ ApplyCalibration
  \/ HandleOther \/ Unanswered \/ Again

Spec == Init /\ [][Next]_vars

-----------------------------------------------------------------------------
(* Properties.                                                             *)

TypeOK ==
  /\ phase \in {"unsent", "head", "body", "handle", "answered", "closed", "restart", "overrun"}
  /\ handler \in 0..Len(Routes)
  /\ parser.state \in MultiStates /\ parser.at < Len(Boundary)
  /\ parser.parsed <= Len(BodyOf(visit)) /\ Len(parser.buffer) < BufferSize
  /\ \A k \in Addresses : cfg[k] \in [1..4 -> 0..255]
  /\ answer \in {"none", "ok", "error", "500"} \union {Routes[i].kind : i \in DOMAIN Routes}

\* What a user means by an address.
Canonical(text) ==
  /\ Len(text) = 7
  /\ \A i \in {2, 4, 6} : text[i] = "."
  /\ \A i \in {1, 3, 5, 7} : text[i] \in DOMAIN Number /\ Number[text[i]] \in 0..255
Meant(text) == [n \in 1..4 |-> Number[text[2 * n - 1]]]

Form == Kind \in DOMAIN FormKeys /\ phase = "answered"
\* The addresses that count in this form.
Given == {k \in Addresses \intersect DOMAIN visit.typed :
            \/ k = "txtaplan" /\ visit.typed[k] # <<>>
            \/ k # "txtaplan" /\ visit.typed.wifi_MODE = <<"static">>}
\* The texts of the service page together fill its document.
Crowded ==
  Kind = "service" /\ ~HasRoom({visit.typed[k] : k \in ToSet(ServiceKeys) \ NumberFields})

\* The access point's page does not encode what is typed, and JSON takes
\* the backslash for itself.
Mangled(text) ==
  ToSet(text) \intersect (IF Kind = "ap" THEN {"&", "+", "%", "#"} ELSE {Backslash}) # {}

\* What is confirmed with "ok" is stored as it was typed: the texts but for
\* the characters named above, for the spaces the access point's password
\* ends with, and for an id or a network's name that fills its field; the
\* addresses and numbers if they are such, and of a size the field has.  And
\* no copy runs over another field, unless a character has two bytes.
StoredAsTyped ==
  /\ Form /\ answer = "ok" =>
       \A k \in DOMAIN visit.typed :
         CASE k \in Addresses -> k \in Given /\ Canonical(visit.typed[k]) => cfg[k] = Meant(visit.typed[k])
           [] k \in NumberFields ->
              Number[visit.typed[k][1]] \in Held(k) => cfg[k] = Number[visit.typed[k][1]]
           [] OTHER ->
              \/ cfg[k] = visit.typed[k]
              \/ Kind = "ap" /\ \E j \in DOMAIN visit.typed : Mangled(visit.typed[j])
              \/ Kind # "ap" /\ Mangled(visit.typed[k])
              \/ Kind = "ap" /\ visit.typed[k] = <<>>
              \/ k = "txtpass" /\ Last(visit.typed[k]) = Space
              \/ k \in DOMAIN NextField /\ Bytes(visit.typed[k]) >= Size[k]
  /\ phase = "overrun" =>
       \E k \in DOMAIN visit.typed : ToSet(visit.typed[k]) \intersect Wide # {} \/ Mangled(visit.typed[k])

\* "error" means that an address or a number is none, that the page's JSON
\* has a quote or a backslash in a text, or that the texts of the service
\* page, each within its limit, are too long together; four parts of an
\* address are always accepted.
RefusedIsMalformed ==
  Form /\ answer = "error" =>
    \/ \E k \in Given : ~Canonical(visit.typed[k])
    \/ \E k \in DOMAIN visit.typed \intersect NumberFields : ~ReadsAsNumber(visit.typed[k])
    \/ \E k \in DOMAIN visit.typed : ToSet(visit.typed[k]) \intersect {Quote, Backslash} # {}
    \/ Crowded

\* A page that shows what is stored and is confirmed as it is changes
\* nothing; but the access point's shows the address it has, a text with
\* characters that are not sent as they are changes again or is refused, and
\* one with characters that are not shown as they are changes.
ConfirmedAgainIsKept ==
  Form /\ kept # <<>> =>
    \/ answer = "ok" /\ cfg = kept[1]
    \/ Kind = "ap" /\ kept[1].txtaplan # Shipped.txtaplan
    \/ Kind = "ap" /\ Mangled(visit.typed.txtssid)
    \/ Kind \in {"ntp", "service"} /\ \E k \in DOMAIN visit.typed : ToSet(visit.typed[k]) \intersect {Quote, Backslash} # {}
    \/ \E k \in DOMAIN visit.typed \intersect Loaded \intersect TextFields : ToSet(kept[1][k]) \intersect Hidden # {}
    \/ Crowded

\* The parameters of a body are its fields, however it was cut: but for a
\* file without a byte or without memory, and a body that is not parsed.
FieldParams(f) ==
  IF ~(visit.kind = "multipart" /\ IsFile(f)) THEN <<Parameter(f.name, f.value, "post")>>
  ELSE IF f.value = <<>> THEN <<>> ELSE <<Parameter(f.name, <<FileNames[f.name[1]]>>, "file")>>
BodyIsRead ==
  phase \in {"handle", "answered"} /\ handler # 0 /\ visit.memory =>
    \E n \in 0..Len(parser.params) :
      /\ \A i \in 1..n : parser.params[i].kind = "query"
      /\ SubSeq(parser.params, n + 1, Len(parser.params))
           = FlattenSeq([i \in DOMAIN visit.fields |-> FieldParams(visit.fields[i])])

\* The handler is given every byte of a file once, in order, with its place,
\* and told the last piece, however the body was cut.
Pieces(f) == {i \in DOMAIN parser.uploads : parser.uploads[i].name = f.name}
EndOf(i) == parser.uploads[i].index + Len(parser.uploads[i].data)
FilesAreGivenOn ==
  phase \in {"handle", "answered"} /\ handler # 0 /\ visit.memory /\ visit.kind = "multipart" =>
    \A f \in ToSet(visit.fields) : IsFile(f) =>
      /\ f.value # <<>> => \E i \in Pieces(f) : parser.uploads[i].final
      /\ \A i \in Pieces(f) :
           LET u == parser.uploads[i] IN
           /\ u.index = IF i - 1 \in Pieces(f) THEN EndOf(i - 1) ELSE 0
           /\ u.data = SubSeq(f.value, u.index + 1, EndOf(i))
           /\ u.final => EndOf(i) = Len(f.value) /\ \A j \in Pieces(f) : j <= i
           /\ ~u.final => i + 1 \in Pieces(f)

\* A body that is all there is handled; but a multipart one must end with a
\* line end and nothing after it.
BodyIsHandled ==
  phase = "body" /\ body = <<>> => visit.kind = "multipart" /\ visit.tail # CRLF

\* Types, and what the reading of a body ends with.
BodyInv == TypeOK /\ BodyIsHandled

=============================================================================
