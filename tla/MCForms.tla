------------------------------ MODULE MCForms ------------------------------
(* An instance of Forms: forms with every character that has a meaning on  *)
(* the way, addresses right and wrong, bodies with what looks like a       *)
(* boundary, and a request for each route.                                 *)
EXTENDS Forms

Numbers == [c \in {"0", "1", "4", "7", "44", "112", "168", "192", "255", "256", "300", "65535", "70000", "70256"} |->
  CASE c = "0" -> 0 [] c = "1" -> 1 [] c = "4" -> 4 [] c = "7" -> 7 [] c = "44" -> 44 [] c = "112" -> 112 [] c = "168" -> 168
    [] c = "192" -> 192 [] c = "255" -> 255 [] c = "256" -> 256 [] c = "300" -> 300
    [] c = "65535" -> 65535 [] c = "70000" -> 70000 [] OTHER -> 70256]
Separator == <<"x", "y">>
Files == [n \in {"a", "b", "f", "g"} |-> IF n \in {"f", "g"} THEN "file.bin" ELSE NoFile]

Codes == [c \in {"u0070", "u000a", "u00f8"} |->
  CASE c = "u0070" -> "p" [] c = "u000a" -> LF [] OTHER -> "oslash"]
TwoBytes == {"oslash"}
Sizes == [k \in TextFields |-> IF k \in {"c_id", "wifi_ssid"} THEN 3 ELSE 7]

Get(path) == [path |-> path, typed |-> <<>>, beside |-> <<"7">>, asked |-> <<>>,
              kind |-> "none", fields |-> <<>>, tail |-> CRLF, memory |-> TRUE]

Texts == {<<>>, <<"p">>, <<"p", " ", "q">>, <<"p", "+">>, <<"&", "p">>, <<"p", "=", "q">>, <<"p", "#">>,
          <<"p", "%", "2", "6">>, <<"%">>, <<"p", Quote>>, <<Backslash, Quote, "q">>, <<"p", Backslash>>,
          <<Backslash, Backslash>>, <<"p", Backslash, "n">>, <<Backslash, "u000a">>, <<Backslash, "x">>,
          <<"p", " ">>, <<" ">>, <<"oslash", "p">>, <<"oslash", "oslash", "oslash", "oslash">>}
IPs == {<<"192", ".", "1", ".", "1", ".", "7">>, <<"192", ".", "300", ".", "0", ".", "255">>,
        <<"192", ".", "1", ".", "1">>, <<"192", ".", "1", ".", ".", "1", ".", "7", "x">>,
        <<"192", ".", "1", ".", "1", ".", "7", ".", "1">>, <<".", "x", ".", "1", ".", "1", ".", "0">>, <<>>}

APForms == {[Get(<<"applyAP">>) EXCEPT !.typed =
               [k \in ToSet(APKeys) |-> CASE k = "txtaplan" -> ip [] k = "txtssid" -> t [] OTHER -> u]] :
             <<ip, t, u>> \in (IPs \X Texts \X {<<"q">>}) \union (IPs \X {<<"p">>} \X Texts)}
Names == {<<"p", "q", "p">>, <<"p", "oslash">>, <<Backslash, "u00f8", "p">>}
NetworkForms == {[Get(<<"applyNetwork">>) EXCEPT !.typed =
               [k \in ToSet(NetworkKeys) |-> CASE k = "txtipadd" -> ip [] k = "net_m" -> <<"255", ".", "255", ".", "0", ".", "0">>
                  [] k = "wifi_ssid" -> s [] k = "wifi_pass" -> t [] OTHER -> <<mode>>]] :
             <<ip, t, mode, s>> \in (IPs \X Texts \X {"static", "dhcp"} \X {<<"p">>})
                                 \union ({<<>>} \X Texts \X {"dhcp"} \X Names)}

Selected == {"u_interval_temp", "u_interval_ping"}
\* One field of a form, the others being as in a page filled in plainly.
Filled(path, k, text) ==
  [Get(path) EXCEPT !.typed = [j \in ToSet(Keys(path)) |->
     IF j = k THEN text ELSE IF j \in NumberFields THEN <<"7">>
     ELSE IF j \in Selected THEN <<"Minute">> ELSE <<"q">>]]
NumberTexts == {<<"0">>, <<"65535">>, <<"70000">>, <<"70256">>, <<"x">>, <<>>}
Ids == {<<"p", "q", "p">>, <<"p", "q", "p", "q", "p">>, <<"oslash", "p", "q">>, <<"p", "q", "oslash">>,
        <<"p", Backslash, "u0070", "q">>, <<Backslash, "u00f8", "p", "oslash">>}
JsonForms ==
  {Filled(path, k, IF k \in NumberFields THEN n ELSE t) :
     <<path, k, n, t>> \in
       {<<path, k, n, t>> \in {<<"applyNtp">>, <<"applyService">>, <<"applyCalibration">>}
                              \X (ToSet(NtpKeys) \union ToSet(ServiceKeys) \union ToSet(CalibrationKeys))
                              \X NumberTexts \X (Texts \union Ids) :
          k \in ToSet(Keys(path)) \ Selected}}

Field(name, value) == [name |-> <<name>>, value |-> value]
Almost == {<<>>, <<"p">>, <<CR, "p">>, <<CR, CR, LF, "p">>, <<CR, LF, Dash, "p">>, <<CR, LF, Dash, Dash, "p">>,
           <<"p", CR, LF, Dash, Dash, "x", CR>>, <<CR, LF, Dash, Dash, "x", "x", "y">>}
Multi(fields, tail) == [Get(<<"main">>) EXCEPT !.kind = "multipart", !.fields = fields, !.tail = tail]
Bodies ==
  {Multi(<<Field("a", v), Field("f", w)>>, CRLF) : v \in {<<>>, <<CR, LF, Dash, Dash, "x">>}, w \in Almost}
  \union {Multi(<<Field("f", v), Field("g", <<"p">>), Field("b", <<"q">>)>>, CRLF) : v \in {<<>>, <<"p", CR, "q", LF>>}}
  \union {Multi(<<Field("a", <<"p">>)>>, t) : t \in {<<>>, CRLF \o <<"p">>}}
  \union {[Multi(<<Field("f", <<"p">>)>>, CRLF) EXCEPT !.memory = FALSE],
          [Multi(<<Field("f", <<"p">>)>>, CRLF) EXCEPT !.path = <<"nowhere">>]}
  \union {[Get(<<"main">>) EXCEPT !.kind = "post", !.fields = <<Field("a", v), Field("b", w)>>] :
            v \in {<<>>, <<"p", "&", " ", "=">>}, w \in {<<>>, <<"+", "q">>}}

Asked == {<<>>} \union {<<name, "=", value>> : name \in {"scan_wifi", "reboot_btn", "reset_btn"},
                                             value \in {"scan_wifi", "reboot_device", "reset_device"}}
Buttons == {[Get(<<path>>) EXCEPT !.asked = asked] :
              path \in {"scanWifi", "rebootbtnfunction", "resetbtnfunction"}, asked \in Asked}

SomeVisits == APForms \union NetworkForms \union JsonForms \union Bodies \union Buttons
              \union {[Filled(<<"applyNtp">>, "hntp", t) EXCEPT !.beside = <<>>] : t \in {<<>>, <<"p">>}}
              \union {Get(Routes[i].uri) : i \in {j \in DOMAIN Routes : Keys(Routes[j].uri) = <<>>}}
              \union {Get(<<"main", "x">>), Get(<<"nowhere">>)}

=============================================================================
