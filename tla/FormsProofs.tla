----------------------------- MODULE FormsProofs -----------------------------
(***************************************************************************)
(* Proofs about Forms: what is read from a request is what was typed and   *)
(* sent, what is stored is what was read, and what a page shows can be     *)
(* typed again, for every set of visits, every room and every size.        *)
(***************************************************************************)
EXTENDS BodyParserProofs

-----------------------------------------------------------------------------
(* The routes of the forms.                                                *)

Forms5 == {"ap", "network", "ntp", "service", "calibration"}
FormPaths == {"applyAP", "applyNtp", "applyNetwork", "applyService", "applyCalibration"}
NoForm(r) == r.kind \notin Forms5 \union {"ok"} /\ r.uri[1] \notin FormPaths

LEMMA PageIs == ASSUME NEW u, NEW k PROVE Page(u, k).uri = u /\ Page(u, k).kind = k
BY DEF Page
LEMMA Firsts == ASSUME NEW x, NEW y PROVE << x >>[1] = x /\ <<x, y>>[1] = x
OBVIOUS
LEMMA NoFormIs ==
  /\ \A x, k : k \notin Forms5 \union {"ok"} /\ x \notin FormPaths => NoForm(Page(<< x >>, k))
  /\ \A x, y, k : k \notin Forms5 \union {"ok"} /\ x \notin FormPaths => NoForm(Page(<<x, y>>, k))
<1> SUFFICES ASSUME NEW x, NEW y, NEW k, k \notin Forms5 \union {"ok"}, x \notin FormPaths
             PROVE  NoForm(Page(<< x >>, k)) /\ NoForm(Page(<<x, y>>, k))
  OBVIOUS
<1> DEFINE a == << x >>
      b == <<x, y>>
<1>1. a[1] = x /\ b[1] = x
  BY Firsts
<1> HIDE DEF a, b
<1>2. Page(a, k).uri = a /\ Page(a, k).kind = k /\ Page(b, k).uri = b /\ Page(b, k).kind = k
  BY PageIs
<1> QED BY <1>1, <1>2 DEF NoForm, a, b

LEMMA SevenIs ==
  ASSUME NEW a, NEW b, NEW c, NEW d, NEW e, NEW f, NEW g,
         NEW S, a \in S, b \in S, c \in S, d \in S, e \in S, f \in S, g \in S
  PROVE  LET s == <<a, b, c, d, e, f, g>>
         IN  s \in Seq(S) /\ Len(s) = 7
OBVIOUS
LEMMA EightIs ==
  ASSUME NEW a, NEW b, NEW c, NEW d, NEW e, NEW f, NEW g, NEW h,
         NEW S, a \in S, b \in S, c \in S, d \in S, e \in S, f \in S, g \in S, h \in S
  PROVE  LET s == <<a, b, c, d, e, f, g, h>>
         IN  /\ s \in Seq(S) /\ Len(s) = 8 /\ s[1] = a /\ s[2] = b /\ s[3] = c /\ s[4] = d /\ s[5] = e /\ s[6] = f
             /\ s[7] = g /\ s[8] = h
OBVIOUS

Statics ==
  <<Page(<<"">>, "page"), Page(<<"main.html">>, "page"),
    Page(<<"js", "bootstrap.min.js">>, "page"), Page(<<"js", "jquery-1.12.3.min.js">>, "page"),
    Page(<<"js", "pixie-custom.js">>, "page"), Page(<<"css", "bootstrap.min.css">>, "page"),
    Page(<<"css", "pixie-main.css">>, "page")>>
Images ==
  [i \in 1..11 |-> Page(<<"images",
        <<"ap.png", "eye-close.png", "light.png", "network.png", "other.png", "periperal.png",
          "reboot.png", "service.png", "status.png", "upgrade.png", "timezone.png">>[i]>>, "image")]
DataNames == <<"main", "networkData", "ntpData", "serviceData", "calibrationData", "sample">>
Data == [i \in 1..6 |-> Page(<< DataNames[i] >>, "data")]
Handlers ==
  <<Page(<<"applyAP">>, "ap"), Page(<<"scanWifi">>, "scan"), Page(<<"applyNtp">>, "ntp"),
    Page(<<"applyNetwork">>, "network"), Page(<<"applyService">>, "service"),
    Page(<<"applyCalibration">>, "calibration"), Page(<<"rebootbtnfunction">>, "reboot"),
    Page(<<"resetbtnfunction">>, "reset")>>

LEMMA RoutesAre ==
  /\ Len(Routes) = 32 /\ DOMAIN Routes = 1..32
  /\ Routes[25] = Page(<<"applyAP">>, "ap") /\ Routes[27] = Page(<<"applyNtp">>, "ntp")
  /\ Routes[28] = Page(<<"applyNetwork">>, "network") /\ Routes[29] = Page(<<"applyService">>, "service")
  /\ Routes[30] = Page(<<"applyCalibration">>, "calibration")
  /\ \A i \in (1..32) \ {25, 27, 28, 29, 30} : NoForm(Routes[i])
<1> DEFINE P(u, k) == Page(u, k)
      s1 == P(<<"">>, "page")
      s2 == P(<<"main.html">>, "page")
      s3 == P(<<"js", "bootstrap.min.js">>, "page")
      s4 == P(<<"js", "jquery-1.12.3.min.js">>, "page")
      s5 == P(<<"js", "pixie-custom.js">>, "page")
      s6 == P(<<"css", "bootstrap.min.css">>, "page")
      s7 == P(<<"css", "pixie-main.css">>, "page")
      h1 == P(<<"applyAP">>, "ap")
      h2 == P(<<"scanWifi">>, "scan")
      h3 == P(<<"applyNtp">>, "ntp")
      h4 == P(<<"applyNetwork">>, "network")
      h5 == P(<<"applyService">>, "service")
      h6 == P(<<"applyCalibration">>, "calibration")
      h7 == P(<<"rebootbtnfunction">>, "reboot")
      h8 == P(<<"resetbtnfunction">>, "reset")
      S == {s1, s2, s3, s4, s5, s6, s7} \union {Images[i] : i \in 1..11} \union {Data[i] : i \in 1..6}
           \union {h1, h2, h3, h4, h5, h6, h7, h8}
      T == {r \in S : NoForm(r)}
<1>1. {"page", "image", "data", "scan", "reboot", "reset"} \intersect (Forms5 \union {"ok"}) = {}
  BY DEF Forms5
<1>2. "" \notin FormPaths /\ "main.html" \notin FormPaths /\ "js" \notin FormPaths /\ "css" \notin FormPaths
      /\ "images" \notin FormPaths /\ "scanWifi" \notin FormPaths /\ "rebootbtnfunction" \notin FormPaths
      /\ "resetbtnfunction" \notin FormPaths
  BY DEF FormPaths
<1>3. NoForm(s1) /\ NoForm(s2) /\ NoForm(s3) /\ NoForm(s4) /\ NoForm(s5) /\ NoForm(s6) /\ NoForm(s7)
      /\ NoForm(h2) /\ NoForm(h7) /\ NoForm(h8)
  BY <1>1, <1>2, NoFormIs
<1>4. \A i \in 1..11 : NoForm(Images[i])
  BY <1>1, <1>2, NoFormIs DEF Images
<1>5. \A i \in 1..6 : DataNames[i] \notin FormPaths
  <2>1. DataNames[1] \notin FormPaths /\ DataNames[2] \notin FormPaths /\ DataNames[3] \notin FormPaths
        /\ DataNames[4] \notin FormPaths /\ DataNames[5] \notin FormPaths /\ DataNames[6] \notin FormPaths
    BY DEF DataNames, FormPaths
  <2>2. \A i \in 1..6 : i = 1 \/ i = 2 \/ i = 3 \/ i = 4 \/ i = 5 \/ i = 6
    OBVIOUS
  <2> QED BY <2>1, <2>2
<1>6. \A i \in 1..6 : NoForm(Data[i])
  BY <1>1, <1>5, NoFormIs DEF Data
<1>7. Routes = Statics \o Images \o Data \o Handlers
  BY DEF Routes, Statics, Images, Data, DataNames, Handlers
<1> DEFINE a == Statics
      b == Images
      c == Data
      d == Handlers
<1>8. a = <<s1, s2, s3, s4, s5, s6, s7>> /\ d = <<h1, h2, h3, h4, h5, h6, h7, h8>>
  BY DEF Statics, Handlers
<1> HIDE DEF s1, s2, s3, s4, s5, s6, s7, h1, h2, h3, h4, h5, h6, h7, h8, P
<1>9. a \in Seq(T) /\ Len(a) = 7
  <2>1. s1 \in T /\ s2 \in T /\ s3 \in T /\ s4 \in T /\ s5 \in T /\ s6 \in T /\ s7 \in T
    BY <1>3
  <2> HIDE DEF T, a
  <2> QED BY <1>8, <2>1, SevenIs
<1>10. b \in Seq(T) /\ Len(b) = 11
  <2>1. b = [i \in 1..11 |-> b[i]] /\ \A i \in 1..11 : b[i] \in T
    BY <1>4 DEF Images
  <2>2. 11 \in Nat
    OBVIOUS
  <2> HIDE DEF T, b
  <2> QED BY <2>1, <2>2, SeqIs
<1>11. c \in Seq(T) /\ Len(c) = 6
  <2>1. c = [i \in 1..6 |-> c[i]] /\ \A i \in 1..6 : c[i] \in T
    BY <1>6 DEF Data
  <2>2. 6 \in Nat
    OBVIOUS
  <2> HIDE DEF T, c
  <2> QED BY <2>1, <2>2, SeqIs
<1>12. /\ d \in Seq(S) /\ Len(d) = 8 /\ d[1] = h1 /\ d[2] = h2 /\ d[3] = h3 /\ d[4] = h4 /\ d[5] = h5 /\ d[6] = h6
       /\ d[7] = h7 /\ d[8] = h8
  <2>1. h1 \in S /\ h2 \in S /\ h3 \in S /\ h4 \in S /\ h5 \in S /\ h6 \in S /\ h7 \in S /\ h8 \in S
    OBVIOUS
  <2> HIDE DEF S, d
  <2> QED BY <1>8, <2>1, EightIs
<1>13. T \subseteq S /\ \A r \in T : NoForm(r)
  OBVIOUS
<1> HIDE DEF S, T, a, b, c, d
<1> DEFINE ab == a \o b
      abc == ab \o c
      all == abc \o d
<1>14. ab \in Seq(T) /\ Len(ab) = 18
  <2>1. ab \in Seq(T) /\ Len(ab) = Len(a) + Len(b)
    <3>1. a \in Seq(T) /\ b \in Seq(T)
      BY <1>9, <1>10
    <3> QED BY <3>1, ConcatIs
  <2> QED BY <1>9, <1>10, <2>1
<1> HIDE DEF ab
<1>15. abc \in Seq(T) /\ Len(abc) = 24
  <2>1. abc \in Seq(T) /\ Len(abc) = Len(ab) + Len(c)
    <3>1. ab \in Seq(T) /\ c \in Seq(T)
      BY <1>11, <1>14
    <3> QED BY <3>1, ConcatIs
  <2> QED BY <1>11, <1>14, <2>1
<1> HIDE DEF abc
<1>16. /\ all \in Seq(S) /\ Len(all) = 32
       /\ \A i \in 1..24 : all[i] = abc[i]
       /\ \A i \in 1..8 : all[24 + i] = d[i]
  <2>1. /\ all \in Seq(S) /\ Len(all) = Len(abc) + Len(d)
        /\ \A i \in 1..Len(abc) : all[i] = abc[i]
        /\ \A i \in 1..Len(d) : all[Len(abc) + i] = d[i]
    <3>1. abc \in Seq(S) /\ d \in Seq(S)
      BY <1>12, <1>13, <1>15, SeqMonotonic
    <3> QED BY <3>1, ConcatIs
  <2>2. Len(abc) = 24 /\ Len(d) = 8
    BY <1>12, <1>15
  <2>3. all \in Seq(S) /\ Len(all) = 32
    BY <2>1, <2>2
  <2>4. \A i \in 1..24 : all[i] = abc[i]
    BY <2>1, <2>2
  <2>5. \A i \in 1..8 : all[24 + i] = d[i]
    BY <2>1, <2>2
  <2> HIDE DEF all
  <2> QED BY <2>3, <2>4, <2>5
<1> HIDE DEF all
<1>17. Routes = all
  BY <1>7 DEF all, abc, ab, a, b, c, d
<1>18. \A i \in 1..24 : NoForm(all[i])
  <2> TAKE i \in 1..24
  <2>1. abc[i] \in T
    <3>1. i \in 1..Len(abc)
      BY <1>15
    <3> QED BY <1>15, <3>1, ElementOfSeq
  <2> QED BY <1>13, <1>16, <2>1
<1>19. /\ all[25] = h1 /\ all[26] = h2 /\ all[27] = h3 /\ all[28] = h4 /\ all[29] = h5 /\ all[30] = h6
       /\ all[31] = h7 /\ all[32] = h8
  <2>1. all[24 + 1] = d[1] /\ all[24 + 2] = d[2] /\ all[24 + 3] = d[3] /\ all[24 + 4] = d[4]
    BY <1>16
  <2>2. all[24 + 5] = d[5] /\ all[24 + 6] = d[6] /\ all[24 + 7] = d[7] /\ all[24 + 8] = d[8]
    BY <1>16
  <2> QED BY <1>12, <2>1, <2>2
<1>20. \A i \in (1..32) \ {25, 27, 28, 29, 30} : NoForm(all[i])
  <2> TAKE i \in (1..32) \ {25, 27, 28, 29, 30}
  <2>1. i \in 1..24 \/ i = 26 \/ i = 31 \/ i = 32
    OBVIOUS
  <2> QED BY <1>3, <1>18, <1>19, <2>1
<1>21. DOMAIN all = 1..32
  BY <1>16, LenProperties
<1> QED BY <1>16, <1>17, <1>19, <1>20, <1>21 DEF h1, h3, h4, h5, h6, P

LEMMA FormsAre ==
  /\ DOMAIN FormKeys = Forms5
  /\ FormKeys["ap"] = APKeys /\ FormKeys["network"] = NetworkKeys /\ FormKeys["ntp"] = NtpKeys
  /\ FormKeys["service"] = ServiceKeys /\ FormKeys["calibration"] = CalibrationKeys
BY DEF FormKeys, Forms5

\* The route of each form, and no other has its url or its kind.
FormRoute == [f \in Forms5 |-> CASE f = "ap" -> 25 [] f = "ntp" -> 27 [] f = "network" -> 28
                                 [] f = "service" -> 29 [] OTHER -> 30]
LEMMA FormRouteIs ==
  /\ \A f \in Forms5 : FormRoute[f] \in DOMAIN Routes /\ Routes[FormRoute[f]].kind = f
                       /\ Routes[FormRoute[f]].uri[1] \in FormPaths
  /\ \A i \in DOMAIN Routes : Routes[i].kind \in Forms5 \/ Routes[i].uri[1] \in FormPaths => \E f \in Forms5 : i = FormRoute[f]
  /\ \A f \in Forms5, g \in Forms5 : Routes[FormRoute[f]].uri[1] = Routes[FormRoute[g]].uri[1] => f = g
  /\ Routes[FormRoute["ap"]].uri = <<"applyAP">>
<1>1. /\ FormRoute["ap"] = 25 /\ FormRoute["ntp"] = 27 /\ FormRoute["network"] = 28 /\ FormRoute["service"] = 29
      /\ FormRoute["calibration"] = 30 /\ Forms5 = {"ap", "network", "ntp", "service", "calibration"}
  BY DEF FormRoute, Forms5
<1>2. /\ Routes[25].kind = "ap" /\ Routes[27].kind = "ntp" /\ Routes[28].kind = "network"
      /\ Routes[29].kind = "service" /\ Routes[30].kind = "calibration"
      /\ Routes[25].uri = <<"applyAP">> /\ Routes[27].uri = <<"applyNtp">> /\ Routes[28].uri = <<"applyNetwork">>
      /\ Routes[29].uri = <<"applyService">> /\ Routes[30].uri = <<"applyCalibration">>
  BY RoutesAre, PageIs
<1>3. /\ Routes[25].uri[1] = "applyAP" /\ Routes[27].uri[1] = "applyNtp" /\ Routes[28].uri[1] = "applyNetwork"
      /\ Routes[29].uri[1] = "applyService" /\ Routes[30].uri[1] = "applyCalibration"
  BY <1>2, Firsts
<1>4. \A i \in (1..32) \ {25, 27, 28, 29, 30} : Routes[i].kind \notin Forms5 /\ Routes[i].uri[1] \notin FormPaths
  BY RoutesAre DEF NoForm
<1>5. \A f \in Forms5 : FormRoute[f] \in DOMAIN Routes /\ Routes[FormRoute[f]].kind = f
                       /\ Routes[FormRoute[f]].uri[1] \in FormPaths
  BY <1>1, <1>2, <1>3, RoutesAre DEF FormPaths
<1>6. \A i \in DOMAIN Routes : Routes[i].kind \in Forms5 \/ Routes[i].uri[1] \in FormPaths => \E f \in Forms5 : i = FormRoute[f]
  <2> TAKE i \in DOMAIN Routes
  <2> HAVE Routes[i].kind \in Forms5 \/ Routes[i].uri[1] \in FormPaths
  <2>1. i \in {25, 27, 28, 29, 30}
    BY <1>4, RoutesAre
  <2> QED BY <1>1, <2>1
<1>7. \A f \in Forms5, g \in Forms5 : Routes[FormRoute[f]].uri[1] = Routes[FormRoute[g]].uri[1] => f = g
  BY <1>1, <1>3
<1> QED BY <1>1, <1>2, <1>5, <1>6, <1>7

\* The keys of a url are those of its form.
LEMMA KeysOf ==
  ASSUME NEW f \in Forms5, NEW path, path = Routes[FormRoute[f]].uri
  PROVE  Keys(path) = FormKeys[f] /\ (path = <<"applyAP">> <=> f = "ap")
<1> DEFINE forms == {Routes[i].kind : i \in {j \in DOMAIN Routes : Routes[j].uri = path}}
<1>1. \A j \in DOMAIN Routes : Routes[j].uri = path => j = FormRoute[f]
  BY FormRouteIs
<1>2. forms = {f}
  BY <1>1, FormRouteIs
<1>3. Keys(path) = IF forms \subseteq DOMAIN FormKeys /\ forms # {} THEN FormKeys[CHOOSE g \in forms : TRUE] ELSE <<>>
  BY DEF Keys
<1> HIDE DEF forms
<1>4. Keys(path) = FormKeys[f]
  BY <1>2, <1>3, FormsAre
<1>5. "ap" \in Forms5
  BY DEF Forms5
<1>6. path = <<"applyAP">> <=> f = "ap"
  BY <1>5, FormRouteIs
<1> QED BY <1>4, <1>6

LEMMA KeysAre ==
  ASSUME NEW path
  PROVE  Keys(path) = <<>> \/ \E f \in Forms5 : path = Routes[FormRoute[f]].uri /\ Keys(path) = FormKeys[f]
<1> DEFINE forms == {Routes[i].kind : i \in {j \in DOMAIN Routes : Routes[j].uri = path}}
<1>1. Keys(path) = IF forms \subseteq DOMAIN FormKeys /\ forms # {} THEN FormKeys[CHOOSE g \in forms : TRUE] ELSE <<>>
  BY DEF Keys
<1>2. CASE forms \subseteq DOMAIN FormKeys /\ forms # {}
  <2>1. PICK j \in DOMAIN Routes : Routes[j].uri = path /\ Routes[j].kind \in Forms5
    BY <1>2, FormsAre
  <2>2. PICK f \in Forms5 : j = FormRoute[f]
    BY <2>1, FormRouteIs
  <2>3. path = Routes[FormRoute[f]].uri
    BY <2>1, <2>2
  <2> QED BY <2>3, KeysOf
<1>3. CASE ~(forms \subseteq DOMAIN FormKeys /\ forms # {})
  BY <1>1, <1>3
<1> QED BY <1>2, <1>3

\* A form's route takes no url but its own.
OwnUrl(path) ==
  \A i \in DOMAIN Routes : Routes[i].kind \in DOMAIN FormKeys /\ canHandle(Routes[i], path) => path = Routes[i].uri

\* The url whose route was found is the form's own.
LEMMA HandlerIs ==
  ASSUME NEW v, NEW h \in 1..Len(Routes), canHandle(Routes[h], v.path), Routes[h].kind \in Forms5,
         OwnUrl(v.path)
  PROVE  v.path = Routes[FormRoute[Routes[h].kind]].uri /\ Keys(v.path) = FormKeys[Routes[h].kind]
         /\ (v.path = <<"applyAP">> <=> Routes[h].kind = "ap")
<1>1. h \in DOMAIN Routes
  BY RoutesAre
<1>2. v.path = Routes[h].uri
  BY <1>1, FormsAre DEF OwnUrl
<1>3. PICK f \in Forms5 : h = FormRoute[f]
  BY <1>1, FormRouteIs
<1>4. Routes[h].kind = f
  BY <1>3, FormRouteIs
<1>5. v.path = Routes[FormRoute[f]].uri
  BY <1>2, <1>3
<1> QED BY <1>4, <1>5, KeysOf

-----------------------------------------------------------------------------
(* The keys of the forms.                                                  *)

Distinct(s) == \A i \in DOMAIN s, j \in DOMAIN s : s[i] = s[j] => i = j

LEMMA TwoIs ==
  ASSUME NEW a, NEW b
  PROVE  LET s == <<a, b>> IN s \in Seq({a, b}) /\ Len(s) = 2 /\ ToSet(s) = {a, b} /\ s[1] = a /\ s[2] = b
BY DEF ToSet
LEMMA ThreeIs ==
  ASSUME NEW a, NEW b, NEW c
  PROVE  LET s == <<a, b, c>>
         IN  s \in Seq({a, b, c}) /\ Len(s) = 3 /\ ToSet(s) = {a, b, c} /\ s[1] = a /\ s[2] = b /\ s[3] = c
BY DEF ToSet
LEMMA FourIs ==
  ASSUME NEW a, NEW b, NEW c, NEW d
  PROVE  LET s == <<a, b, c, d>>
         IN  /\ s \in Seq({a, b, c, d}) /\ Len(s) = 4 /\ ToSet(s) = {a, b, c, d}
             /\ s[1] = a /\ s[2] = b /\ s[3] = c /\ s[4] = d
BY DEF ToSet
LEMMA FiveIs ==
  ASSUME NEW a, NEW b, NEW c, NEW d, NEW e
  PROVE  LET s == <<a, b, c, d, e>>
         IN  /\ s \in Seq({a, b, c, d, e}) /\ Len(s) = 5 /\ ToSet(s) = {a, b, c, d, e}
             /\ s[1] = a /\ s[2] = b /\ s[3] = c /\ s[4] = d /\ s[5] = e
BY DEF ToSet
LEMMA FourteenIs ==
  ASSUME NEW a, NEW b, NEW c, NEW d, NEW e, NEW f, NEW g, NEW h, NEW i, NEW j, NEW k, NEW l, NEW m, NEW n
  PROVE  LET s == <<a, b, c, d, e, f, g, h, i, j, k, l, m, n>>
         IN  /\ s \in Seq({a, b, c, d, e, f, g, h, i, j, k, l, m, n}) /\ Len(s) = 14
             /\ ToSet(s) = {a, b, c, d, e, f, g, h, i, j, k, l, m, n}
             /\ s[1] = a /\ s[2] = b /\ s[3] = c /\ s[4] = d /\ s[5] = e /\ s[6] = f /\ s[7] = g /\ s[8] = h
             /\ s[9] = i /\ s[10] = j /\ s[11] = k /\ s[12] = l /\ s[13] = m /\ s[14] = n
BY DEF ToSet

LEMMA APKeysAre ==
  /\ ToSet(APKeys) = {"txtaplan", "txtssid", "txtpass"} /\ APKeys \in Seq(ToSet(APKeys)) /\ Len(APKeys) = 3
  /\ APKeys[1] = "txtaplan" /\ APKeys[2] = "txtssid" /\ APKeys[3] = "txtpass" /\ Distinct(APKeys)
<1>1. /\ ToSet(APKeys) = {"txtaplan", "txtssid", "txtpass"} /\ APKeys \in Seq(ToSet(APKeys)) /\ Len(APKeys) = 3
      /\ APKeys[1] = "txtaplan" /\ APKeys[2] = "txtssid" /\ APKeys[3] = "txtpass"
  BY ThreeIs DEF APKeys
<1>2. DOMAIN APKeys = 1..3
  BY <1>1, LenProperties
<1> QED BY <1>1, <1>2 DEF Distinct

LEMMA NetworkKeysAre ==
  /\ ToSet(NetworkKeys) = {"wifi_ssid", "wifi_pass", "wifi_MODE", "txtipadd", "net_m"}
  /\ NetworkKeys \in Seq(ToSet(NetworkKeys)) /\ Distinct(NetworkKeys)
<1>1. /\ ToSet(NetworkKeys) = {"wifi_ssid", "wifi_pass", "wifi_MODE", "txtipadd", "net_m"}
      /\ NetworkKeys \in Seq(ToSet(NetworkKeys)) /\ Len(NetworkKeys) = 5
      /\ NetworkKeys[1] = "wifi_ssid" /\ NetworkKeys[2] = "wifi_pass" /\ NetworkKeys[3] = "wifi_MODE"
      /\ NetworkKeys[4] = "txtipadd" /\ NetworkKeys[5] = "net_m"
  BY FiveIs DEF NetworkKeys
<1>2. DOMAIN NetworkKeys = 1..5
  BY <1>1, LenProperties
<1> QED BY <1>1, <1>2 DEF Distinct

LEMMA NtpKeysAre ==
  ToSet(NtpKeys) = {"hntp", "pntp"} /\ NtpKeys \in Seq(ToSet(NtpKeys)) /\ Distinct(NtpKeys)
<1>1. /\ ToSet(NtpKeys) = {"hntp", "pntp"} /\ NtpKeys \in Seq(ToSet(NtpKeys)) /\ Len(NtpKeys) = 2
      /\ NtpKeys[1] = "hntp" /\ NtpKeys[2] = "pntp"
  BY TwoIs DEF NtpKeys
<1>2. DOMAIN NtpKeys = 1..2
  BY <1>1, LenProperties
<1> QED BY <1>1, <1>2 DEF Distinct

LEMMA CalibrationKeysAre ==
  /\ ToSet(CalibrationKeys) = {"ical0", "ocal0", "ical1", "ocal1"}
  /\ CalibrationKeys \in Seq(ToSet(CalibrationKeys)) /\ Distinct(CalibrationKeys)
<1>1. /\ ToSet(CalibrationKeys) = {"ical0", "ocal0", "ical1", "ocal1"}
      /\ CalibrationKeys \in Seq(ToSet(CalibrationKeys)) /\ Len(CalibrationKeys) = 4
      /\ CalibrationKeys[1] = "ical0" /\ CalibrationKeys[2] = "ocal0" /\ CalibrationKeys[3] = "ical1"
      /\ CalibrationKeys[4] = "ocal1"
  BY FourIs DEF CalibrationKeys
<1>2. DOMAIN CalibrationKeys = 1..4
  BY <1>1, LenProperties
<1> QED BY <1>1, <1>2 DEF Distinct

ServiceTexts == {"hipadd", "c_id", "U_name", "s_pass", "pub_topic_temp", "u_interval_temp", "pub_topic_ping",
                 "u_interval_ping", "sub_topic_rel1", "sub_topic_rel2", "sub_topic_en"}
LEMMA ServiceKeysAre ==
  /\ ToSet(ServiceKeys) = ServiceTexts \union {"port", "interval_temp", "interval_ping"}
  /\ ServiceKeys \in Seq(ToSet(ServiceKeys)) /\ Distinct(ServiceKeys)
<1>1. /\ ToSet(ServiceKeys) = {"hipadd", "port", "c_id", "U_name", "s_pass", "pub_topic_temp", "interval_temp",
                 "u_interval_temp", "pub_topic_ping", "interval_ping", "u_interval_ping",
                 "sub_topic_rel1", "sub_topic_rel2", "sub_topic_en"}
      /\ ServiceKeys \in Seq(ToSet(ServiceKeys)) /\ Len(ServiceKeys) = 14
      /\ ServiceKeys[1] = "hipadd" /\ ServiceKeys[2] = "port" /\ ServiceKeys[3] = "c_id" /\ ServiceKeys[4] = "U_name"
      /\ ServiceKeys[5] = "s_pass" /\ ServiceKeys[6] = "pub_topic_temp" /\ ServiceKeys[7] = "interval_temp"
      /\ ServiceKeys[8] = "u_interval_temp" /\ ServiceKeys[9] = "pub_topic_ping" /\ ServiceKeys[10] = "interval_ping"
      /\ ServiceKeys[11] = "u_interval_ping" /\ ServiceKeys[12] = "sub_topic_rel1"
      /\ ServiceKeys[13] = "sub_topic_rel2" /\ ServiceKeys[14] = "sub_topic_en"
  BY FourteenIs DEF ServiceKeys
<1>2. DOMAIN ServiceKeys = 1..14
  BY <1>1, LenProperties
<1>3. ToSet(ServiceKeys) = ServiceTexts \union {"port", "interval_temp", "interval_ping"}
  BY <1>1 DEF ServiceTexts
<1>4. Distinct(ServiceKeys)
  BY <1>1, <1>2 DEF Distinct
<1> QED BY <1>1, <1>3, <1>4

LEMMA ListsAre ==
  /\ \A f \in Forms5 : /\ FormKeys[f] \in Seq(ToSet(FormKeys[f])) /\ FormKeys[f] \in Seq(Char)
                       /\ Distinct(FormKeys[f]) /\ ToSet(FormKeys[f]) \subseteq AllKeys
  /\ AllKeys = UNION {ToSet(FormKeys[f]) : f \in Forms5} /\ AllKeys \subseteq Char
<1>1. AllKeys = UNION {ToSet(FormKeys[f]) : f \in Forms5} /\ AllKeys \subseteq Char
  BY FormsAre, CharHas DEF AllKeys
<1>2. \A f \in Forms5 : ToSet(FormKeys[f]) \subseteq AllKeys
  BY <1>1
<1>3. \A f \in Forms5 : FormKeys[f] \in Seq(ToSet(FormKeys[f])) /\ Distinct(FormKeys[f])
  BY FormsAre, APKeysAre, NetworkKeysAre, NtpKeysAre, ServiceKeysAre, CalibrationKeysAre DEF Forms5
<1>4. \A f \in Forms5 : FormKeys[f] \in Seq(Char)
  <2> TAKE f \in Forms5
  <2>1. ToSet(FormKeys[f]) \subseteq Char
    BY <1>1, <1>2
  <2>2. FormKeys[f] \in Seq(ToSet(FormKeys[f]))
    BY <1>3
  <2> QED BY <2>1, <2>2, SeqMonotonic
<1> QED BY <1>1, <1>2, <1>3, <1>4

-----------------------------------------------------------------------------
(* The members of a form's JSON.                                           *)

JsonTexts(keys, typed) == [i \in DOMAIN keys |-> << keys[i] >> \o typed[keys[i]]]
Json(keys, typed) == FlattenSeq(JsonTexts(keys, typed))
\* What was typed has no key in it.
Typed(keys, typed) == \A i \in DOMAIN keys : typed[keys[i]] \in Seq(Char \ ToSet(keys))

LEMMA JsonTextsAre ==
  ASSUME NEW keys \in Seq(Char), NEW typed, \A i \in DOMAIN keys : typed[keys[i]] \in Seq(Char)
  PROVE  /\ JsonTexts(keys, typed) \in Seq(Seq(Char)) /\ Len(JsonTexts(keys, typed)) = Len(keys)
         /\ \A i \in 1..Len(keys) : /\ keys[i] \in Char /\ typed[keys[i]] \in Seq(Char)
                                    /\ JsonTexts(keys, typed)[i] = << keys[i] >> \o typed[keys[i]]
         /\ Json(keys, typed) \in Seq(Char)
<1> DEFINE ss == JsonTexts(keys, typed)
<1>1. Len(keys) \in Nat /\ DOMAIN keys = 1..Len(keys)
  BY LenProperties
<1>2. \A i \in 1..Len(keys) : keys[i] \in Char /\ typed[keys[i]] \in Seq(Char)
  BY <1>1
<1>3. \A i \in 1..Len(keys) : << keys[i] >> \o typed[keys[i]] \in Seq(Char)
  BY <1>2, OneBefore
<1>4. ss = [i \in 1..Len(keys) |-> ss[i]] /\ \A i \in 1..Len(keys) : ss[i] = << keys[i] >> \o typed[keys[i]]
  BY <1>1 DEF JsonTexts
<1>5. \A i \in 1..Len(keys) : ss[i] \in Seq(Char)
  BY <1>3, <1>4
<1> HIDE DEF ss
<1>6. ss \in Seq(Seq(Char)) /\ Len(ss) = Len(keys)
  BY <1>1, <1>4, <1>5, SeqIs
<1>7. FlattenSeq(ss) \in Seq(Char)
  BY <1>6, FlattenType
<1> QED BY <1>2, <1>4, <1>6, <1>7 DEF ss, Json

LEMMA SubIs ==
  ASSUME NEW S, NEW s \in Seq(S), NEW a \in Nat, NEW n \in Nat, a + n <= Len(s)
  PROVE  /\ SubSeq(s, a + 1, a + n) \in Seq(S) /\ Len(SubSeq(s, a + 1, a + n)) = n
         /\ \A i \in 1..n : SubSeq(s, a + 1, a + n)[i] = s[a + i]
<1> DEFINE x == a + 1
      y == a + n
<1>1. x \in Nat \ {0} /\ y \in Nat /\ y <= Len(s) /\ y - x + 1 = n /\ (x > y => n = 0)
      /\ \A i \in 1..n : x + i - 1 = a + i
  OBVIOUS
<1> HIDE DEF x, y
<1>2. SubSeq(s, x, y) \in Seq(S) /\ Len(SubSeq(s, x, y)) = (IF x <= y THEN y - x + 1 ELSE 0)
      /\ \A i \in 1..(y - x + 1) : SubSeq(s, x, y)[i] = s[x + i - 1]
  BY <1>1, SubSeqType
<1> DEFINE r == SubSeq(s, x, y)
<1> HIDE DEF r
<1>3. r \in Seq(S) /\ Len(r) = (IF x <= y THEN y - x + 1 ELSE 0) /\ \A i \in 1..(y - x + 1) : r[i] = s[x + i - 1]
  BY <1>2 DEF r
<1>4. \A i \in 1..n : r[i] = s[a + i]
  <2> TAKE i \in 1..n
  <2>1. i \in 1..(y - x + 1) /\ x + i - 1 = a + i
    BY <1>1
  <2> QED BY <1>3, <2>1
<1>5. Len(r) = n
  BY <1>1, <1>3
<1> QED BY <1>3, <1>4, <1>5 DEF r, x, y

\* The text after a key and before the next.
Text(json, k, C) ==
  LET from == IndexOf(json, k) + 1
      ends == {i \in from..Len(json) : json[i] \in C} \union {Len(json) + 1}
  IN  SubSeq(json, from, (CHOOSE i \in ends : \A j \in ends : i <= j) - 1)

\* A member ends where the next key is.
LEMMA MemberEnds ==
  ASSUME NEW S, NEW C \in SUBSET S, NEW k \in C, NEW A \in Seq(S \ {k}), NEW t \in Seq(S \ C), NEW B \in Seq(S),
         B # <<>> => B[1] \in C
  PROVE  Text(A \o (<< k >> \o (t \o B)), k, C) = t
<1> DEFINE w == t \o B
      m == Len(A)
      n == Len(t)
      json == A \o (<< k >> \o w)
      from == IndexOf(json, k) + 1
      ends == {i \in from..Len(json) : json[i] \in C} \union {Len(json) + 1}
<1>1. A \in Seq(S) /\ t \in Seq(S) /\ k \in S
  BY SeqMonotonic
<1>2. w \in Seq(S) /\ Len(w) = Len(t) + Len(B) /\ (\A i \in 1..Len(t) : w[i] = t[i])
      /\ (\A i \in 1..Len(B) : w[Len(t) + i] = B[i])
  BY <1>1, ConcatIs
<1>3. m \in Nat /\ n \in Nat /\ Len(B) \in Nat
  BY <1>1, LenProperties
<1> HIDE DEF w
<1>5. IndexOf(json, k) = m + 1 /\ Len(json) = m + 1 + Len(w) /\ SubSeq(json, m + 2, Len(json)) = w
  <2>1. A \in Seq(S \ {k}) /\ w \in Seq(S) /\ k \in S
    BY <1>1, <1>2
  <2> QED BY <2>1, IndexOfConcat
<1>6. json \in Seq(S)
  <2>1. << k >> \o w \in Seq(S)
    BY <1>1, <1>2, OneBefore
  <2> QED BY <1>1, <2>1, ConcatIs
<1> HIDE DEF m, n, json
<1> DEFINE a == m + 1
<1>7. a \in Nat /\ Len(json) = a + n + Len(B) /\ from = a + 1 /\ SubSeq(json, a + 1, Len(json)) = w
  <2>1. m + 2 = a + 1
    BY <1>3
  <2>2. SubSeq(json, a + 1, Len(json)) = w
    BY <1>5, <2>1
  <2> HIDE DEF json
  <2> QED BY <1>2, <1>3, <1>5, <2>2 DEF n
<1> HIDE DEF a, from
<1>8. \A i \in 1..(n + Len(B)) : json[a + i] = w[i]
  <2>1. json \in Seq(S) /\ a \in 0..Len(json)
    BY <1>3, <1>6, <1>7
  <2>2. \A i \in 1..(Len(json) - a) : From(a, json)[i] = json[a + i]
    BY <2>1, FirstFrom
  <2>3. From(a, json) = w
    BY <1>7 DEF From
  <2>4. Len(json) - a = n + Len(B)
    BY <1>3, <1>7
  <2> QED BY <2>2, <2>3, <2>4
<1>9. a + n + 1 \in ends
  <2>1. CASE B = <<>>
    <3>1. Len(B) = 0
      BY <2>1, EmptySeq
    <3>2. a + n + 1 = Len(json) + 1
      BY <1>3, <1>7, <3>1
    <3> QED BY <3>2
  <2>2. CASE B # <<>>
    <3>1. Len(B) >= 1
      BY <1>3, <2>2, EmptySeq
    <3>2. w[n + 1] = B[1]
      BY <1>2, <1>3, <3>1 DEF n
    <3>3. json[a + (n + 1)] = w[n + 1]
      <4>1. n + 1 \in 1..(n + Len(B))
        BY <1>3, <3>1
      <4> QED BY <1>8, <4>1
    <3>4. a + (n + 1) = a + n + 1 /\ a + n + 1 \in from..Len(json)
      BY <1>3, <1>7, <3>1
    <3> QED BY <2>2, <3>2, <3>3, <3>4
  <2> QED BY <2>1, <2>2
<1>10. \A j \in ends : a + n + 1 <= j
  <2> SUFFICES ASSUME NEW j \in from..Len(json), json[j] \in C, j < a + n + 1 PROVE FALSE
    BY <1>3, <1>7
  <2>1. j - a \in 1..n /\ j = a + (j - a)
    BY <1>3, <1>7
  <2> DEFINE i == j - a
  <2> HIDE DEF i
  <2>2. json[a + i] = w[i] /\ w[i] = t[i]
    <3>1. i \in 1..(n + Len(B)) /\ i \in 1..n
      BY <1>3, <2>1 DEF i
    <3>2. \A x \in 1..n : w[x] = t[x]
      BY <1>2 DEF n
    <3> QED BY <1>8, <3>1, <3>2
  <2>3. t[i] \in S \ C
    BY <2>1, ElementOfSeq DEF i, n
  <2> QED BY <2>1, <2>2, <2>3 DEF i
<1>11. \A j \in ends : j \in Int
  BY <1>3, <1>7
<1>12. (CHOOSE i \in ends : \A j \in ends : i <= j) = a + n + 1
  <2> HIDE DEF ends
  <2> QED BY <1>3, <1>7, <1>9, <1>10, <1>11
<1>13. SubSeq(json, a + 1, a + n) = t
  <2> DEFINE r == SubSeq(json, a + 1, a + n)
  <2>1. r \in Seq(S) /\ Len(r) = n /\ \A i \in 1..n : r[i] = json[a + i]
    <3>1. json \in Seq(S) /\ a \in Nat /\ n \in Nat /\ a + n <= Len(json)
      BY <1>3, <1>6, <1>7
    <3> QED BY <3>1, SubIs
  <2> HIDE DEF r
  <2>2. \A i \in 1..n : json[a + i] = t[i]
    <3>1. \A i \in 1..n : w[i] = t[i] /\ i \in 1..(n + Len(B))
      BY <1>2, <1>3 DEF n
    <3> QED BY <1>8, <3>1
  <2>3. Len(r) = Len(t) /\ \A i \in 1..Len(t) : r[i] = t[i]
    BY <2>1, <2>2 DEF n
  <2>4. r \in Seq(S)
    BY <2>1
  <2>5. r = t
    BY <1>1, <2>3, <2>4, SeqEqual
  <2> QED BY <2>5 DEF r
<1> DEFINE least == CHOOSE i \in ends : \A j \in ends : i <= j
<1>15. Text(json, k, C) = SubSeq(json, from, least - 1)
  BY DEF Text, from, ends
<1> HIDE DEF least, ends
<1>18. least = a + n + 1
  BY <1>12 DEF least
<1>16. least - 1 = a + n
  BY <1>3, <1>7, <1>18
<1>17. SubSeq(json, from, least - 1) = t
  <2>1. from = a + 1
    BY <1>7
  <2> QED BY <1>13, <1>16, <2>1
<1> QED BY <1>15, <1>17 DEF json, w

\* Each text comes back by its key.
LEMMA MemberOf ==
  ASSUME NEW keys \in Seq(Char), Distinct(keys), NEW typed, Typed(keys, typed), NEW n \in DOMAIN keys
  PROVE  Text(Json(keys, typed), keys[n], ToSet(keys)) = typed[keys[n]]
<1> DEFINE ss == JsonTexts(keys, typed)
      C == ToSet(keys)
      k == keys[n]
      t == typed[k]
      A == FlattenSeq(First(n - 1, ss))
      B == FlattenSeq(From(n, ss))
<1>1. Len(keys) \in Nat /\ DOMAIN keys = 1..Len(keys)
  BY LenProperties
<1>2. \A i \in 1..Len(keys) : keys[i] \in C
  BY <1>1 DEF ToSet
<1>3. C \subseteq Char
  BY <1>1 DEF ToSet
<1>4. \A i \in 1..Len(keys) : typed[keys[i]] \in Seq(Char \ C)
  BY <1>1 DEF Typed
<1>5. Seq(Char \ C) \subseteq Seq(Char)
  BY SeqMonotonic
<1>6. \A i \in DOMAIN keys : typed[keys[i]] \in Seq(Char)
  BY <1>1, <1>4, <1>5
<1>7. /\ ss \in Seq(Seq(Char)) /\ Len(ss) = Len(keys)
      /\ \A i \in 1..Len(keys) : /\ keys[i] \in Char /\ typed[keys[i]] \in Seq(Char)
                                 /\ ss[i] = << keys[i] >> \o typed[keys[i]]
  BY <1>6, JsonTextsAre
<1> HIDE DEF ss, C
<1>8. n \in 1..Len(ss) /\ k \in C /\ k \in Char /\ t \in Seq(Char) /\ t \in Seq(Char \ C) /\ ss[n] = << k >> \o t
  BY <1>1, <1>2, <1>4, <1>7
<1>9. A \in Seq(Char \ {k})
  <2>1. /\ First(n - 1, ss) \in Seq(Seq(Char)) /\ Len(First(n - 1, ss)) = n - 1
        /\ \A i \in 1..(n - 1) : First(n - 1, ss)[i] = ss[i]
    <3>1. n - 1 \in 0..Len(ss) /\ ss \in Seq(Seq(Char))
      BY <1>1, <1>7
    <3> QED BY <3>1, FirstFrom
  <2> DEFINE fs == First(n - 1, ss)
  <2>2. \A i \in 1..(n - 1) : fs[i] \in Seq(Char \ {k})
    <3> TAKE i \in 1..(n - 1)
    <3>1. i \in 1..Len(keys) /\ i # n
      BY <1>1, <1>7
    <3>2. keys[i] \in Char \ {k}
      BY <1>1, <1>7, <3>1 DEF Distinct
    <3>3. typed[keys[i]] \in Seq(Char \ {k})
      <4>1. Char \ C \subseteq Char \ {k}
        BY <1>8
      <4> QED BY <1>4, <3>1, <4>1, SeqMonotonic
    <3>4. << keys[i] >> \o typed[keys[i]] \in Seq(Char \ {k})
      <4> HIDE DEF k
      <4> QED BY <3>2, <3>3, OneBefore
    <3>5. fs[i] = ss[i] /\ ss[i] = << keys[i] >> \o typed[keys[i]]
      BY <1>7, <2>1, <3>1
    <3> QED BY <3>4, <3>5
  <2>3. fs \in Seq(Seq(Char \ {k}))
    <3>1. n - 1 \in Nat
      BY <1>1
    <3>2. fs = [i \in 1..(n - 1) |-> fs[i]]
      BY <2>1, LenProperties
    <3> HIDE DEF fs
    <3> QED BY <2>2, <3>1, <3>2, SeqIs
  <2> HIDE DEF fs, k
  <2>4. FlattenSeq(fs) \in Seq(Char \ {k})
    BY <2>3, FlattenType
  <2> QED BY <2>4 DEF fs
<1>10. Json(keys, typed) = A \o (ss[n] \o B) /\ B \in Seq(Char)
  <2>1. FlattenSeq(ss) = A \o (ss[n] \o B) /\ B \in Seq(Char)
    BY <1>7, <1>8, FlattenAt
  <2> QED BY <2>1 DEF Json, ss
<1>11. B # <<>> => B[1] \in C
  <2>1. CASE n = Len(ss)
    <3>1. From(n, ss) = <<>>
      BY <1>7, <2>1, FromEnds
    <3> QED BY <3>1, FlattenEmpty
  <2>2. CASE n < Len(ss)
    <3>1. n + 1 \in 1..Len(ss) /\ (n + 1) - 1 = n
      BY <1>1, <1>7, <2>2
    <3> DEFINE D == FlattenSeq(From(n + 1, ss))
          k2 == keys[n + 1]
          t2 == typed[k2]
    <3>2. B = ss[n + 1] \o D /\ D \in Seq(Char)
      BY <1>7, <3>1, FlattenAt
    <3>3. ss[n + 1] = << k2 >> \o t2 /\ k2 \in Char /\ t2 \in Seq(Char) /\ k2 \in C
      BY <1>2, <1>7, <3>1
    <3> HIDE DEF D, k2, t2, B
    <3>4. << k2 >> \o t2 \in Seq(Char) /\ << k2 >> \o t2 # <<>> /\ (<< k2 >> \o t2)[1] = k2
      BY <3>3, OneBefore
    <3> DEFINE h == << k2 >> \o t2
    <3> HIDE DEF h
    <3>5. h \in Seq(Char) /\ h # <<>> /\ h[1] = k2
      BY <3>4 DEF h
    <3>6. (h \o D)[1] = h[1]
      BY <3>2, <3>5, Peel
    <3> QED BY <3>2, <3>3, <3>5, <3>6 DEF h
  <2> QED BY <1>1, <1>7, <1>8, <2>1, <2>2
<1>12. ss[n] \o B = << k >> \o (t \o B)
  <2>1. << k >> \in Seq(Char)
    BY <1>8, SingleType
  <2> HIDE DEF k, t, B
  <2>2. (<< k >> \o t) \o B = << k >> \o (t \o B)
    BY <1>8, <1>10, <2>1, Assoc
  <2> QED BY <1>8, <2>2
<1> DEFINE json == Json(keys, typed)
<1>13. json = A \o (<< k >> \o (t \o B))
  BY <1>10, <1>12
<1>14. C \in SUBSET Char /\ k \in C /\ t \in Seq(Char \ C)
  BY <1>3, <1>8 DEF C
<1>16. A \in Seq(Char \ {k}) /\ B \in Seq(Char) /\ (B # <<>> => B[1] \in C)
  BY <1>9, <1>10, <1>11
<1> HIDE DEF json, A, B, k, t
<1>17. Text(A \o (<< k >> \o (t \o B)), k, C) = t
  BY <1>14, <1>16, MemberEnds
<1>18. Text(json, k, C) = t
  BY <1>13, <1>17
<1> QED BY <1>18 DEF json, k, t, C

-----------------------------------------------------------------------------
(* The parameters of the url.                                              *)

\* One turn of _addGetParams: the parameter it adds, and what it leaves.
TurnOf(q) ==
  LET end == IndexOf(q, "&")
      equal == IndexOf(SubSeq(q, 1, end - 1), "=")
  IN  Parameter(urlDecode(SubSeq(q, 1, equal - 1)), urlDecode(SubSeq(q, equal + 1, end - 1)), "query")
TurnLeaves(q) == SubSeq(q, IndexOf(q, "&") + 1, Len(q))

LEMMA TurnType ==
  ASSUME NEW q \in Seq(Char)
  PROVE  TurnOf(q) \in QueryParam /\ TurnLeaves(q) \in Seq(Char)
<1> DEFINE end == IndexOf(q, "&")
      s == SubSeq(q, 1, end - 1)
      equal == IndexOf(s, "=")
<1>1. end \in 1..(Len(q) + 1) /\ Len(q) \in Nat
  BY IndexOfType, LenProperties
<1> HIDE DEF end
<1>2. s \in Seq(Char) /\ Len(s) = end - 1
  <2>1. q \in Seq(Char) /\ 0 \in Nat /\ end - 1 \in Nat /\ 0 + (end - 1) <= Len(q)
    BY <1>1
  <2> DEFINE n == end - 1
  <2> HIDE DEF n
  <2>2. n \in Nat /\ n <= Len(q) /\ 1 \in Nat \ {0}
    BY <2>1 DEF n
  <2>3. SubSeq(q, 1, n) \in Seq(Char) /\ Len(SubSeq(q, 1, n)) = IF 1 <= n THEN n - 1 + 1 ELSE 0
    BY <2>2, SubSeqType
  <2>4. Len(SubSeq(q, 1, n)) = n
    BY <2>2, <2>3
  <2> QED BY <2>3, <2>4 DEF n
<1>3. equal \in 1..(Len(s) + 1)
  <2> HIDE DEF s
  <2> QED BY <1>2, IndexOfType
<1>4. equal \in 1..end
  BY <1>1, <1>2, <1>3
<1> HIDE DEF equal
<1>5. SubSeq(q, 1, equal - 1) \in Seq(Char) /\ SubSeq(q, equal + 1, end - 1) \in Seq(Char)
      /\ SubSeq(q, end + 1, Len(q)) \in Seq(Char)
  <2>1. equal - 1 \in Nat /\ equal - 1 <= Len(q) /\ equal + 1 \in Nat \ {0} /\ end - 1 \in Nat /\ end - 1 <= Len(q)
        /\ end + 1 \in Nat \ {0} /\ 1 \in Nat \ {0}
    BY <1>1, <1>4
  <2> DEFINE a == equal - 1
        b == equal + 1
        c == end - 1
        d == end + 1
  <2> HIDE DEF a, b, c, d
  <2>2. a \in Nat /\ a <= Len(q) /\ b \in Nat \ {0} /\ c \in Nat /\ c <= Len(q) /\ d \in Nat \ {0} /\ 1 \in Nat \ {0}
        /\ Len(q) \in Nat /\ Len(q) <= Len(q)
    BY <1>1, <2>1 DEF a, b, c, d
  <2>3. SubSeq(q, 1, a) \in Seq(Char) /\ SubSeq(q, b, c) \in Seq(Char) /\ SubSeq(q, d, Len(q)) \in Seq(Char)
    BY <2>2, SubSeqType
  <2> QED BY <2>3 DEF a, b, c, d
<1>6. urlDecode(SubSeq(q, 1, equal - 1)) \in Seq(Char) /\ urlDecode(SubSeq(q, equal + 1, end - 1)) \in Seq(Char)
  BY <1>5, DecodeType
<1>7. TurnOf(q) = Parameter(urlDecode(SubSeq(q, 1, equal - 1)), urlDecode(SubSeq(q, equal + 1, end - 1)), "query")
  BY DEF TurnOf, equal, s, end
<1>8. TurnOf(q) \in QueryParam
  BY <1>6, <1>7 DEF Parameter, QueryParam
<1> QED BY <1>5, <1>8 DEF TurnLeaves, end

LEMMA TurnBy ==
  ASSUME NEW q, NEW n, NEW s, IndexOf(q, "&") - 1 = n, SubSeq(q, 1, n) = s, IndexOf(s, "=") = 2
  PROVE  TurnOf(q) = Parameter(urlDecode(SubSeq(q, 1, 1)), urlDecode(SubSeq(q, 3, n)), "query")
<1>1. 2 - 1 = 1 /\ 2 + 1 = 3
  OBVIOUS
<1> QED BY <1>1 DEF TurnOf

\* What a turn makes of a key and a text that has no "&".
LEMMA TurnIs ==
  ASSUME NEW k \in Char \ {"&", "=", "%", "+"}, NEW e \in Seq(Char \ {"&"}), NEW z \in Seq(Char)
  PROVE  LET s == <<k, "=">> \o e
             p == Parameter(<< k >>, urlDecode(e), "query")
         IN  /\ s \in Seq(Char) /\ s # <<>> /\ TurnOf(s) = p /\ TurnLeaves(s) = <<>>
             /\ TurnOf(s \o (<<"&">> \o z)) = p /\ TurnLeaves(s \o (<<"&">> \o z)) = z
<1> DEFINE s == <<k, "=">> \o e
      w == s \o (<<"&">> \o z)
<1>1. {"=", "&"} \subseteq Char /\ "=" # "&"
  BY CharHas DEF Literals
<1>2. <<k, "=">> \in Seq(Char \ {"&"}) /\ Len(<<k, "=">>) = 2 /\ <<k, "=">>[1] = k /\ <<k, "=">>[2] = "="
  BY <1>1
<1>3. s \in Seq(Char \ {"&"}) /\ Len(s) = 2 + Len(e) /\ s[1] = k /\ s[2] = "=" /\ \A i \in 1..Len(e) : s[2 + i] = e[i]
  <2> DEFINE a == <<k, "=">>
  <2>1. a \in Seq(Char \ {"&"}) /\ Len(a) = 2 /\ a[1] = k /\ a[2] = "="
    BY <1>2
  <2> HIDE DEF a
  <2>2. a \in Seq(Char \ {"&"})
    BY <2>1
  <2>3. /\ a \o e \in Seq(Char \ {"&"}) /\ Len(a \o e) = Len(a) + Len(e)
        /\ \A i \in 1..Len(a) : (a \o e)[i] = a[i]
        /\ \A i \in 1..Len(e) : (a \o e)[Len(a) + i] = e[i]
    BY <2>2, ConcatIs
  <2> DEFINE ae == a \o e
  <2> HIDE DEF ae
  <2>4. /\ ae \in Seq(Char \ {"&"}) /\ Len(ae) = 2 + Len(e) /\ ae[1] = k /\ ae[2] = "="
        /\ \A i \in 1..Len(e) : ae[2 + i] = e[i]
    BY <2>1, <2>3 DEF ae
  <2> QED BY <2>4 DEF ae, a
<1>4. s \in Seq(Char) /\ e \in Seq(Char) /\ Len(e) \in Nat
  BY <1>3, SeqMonotonic, LenProperties
<1> HIDE DEF s
<1>5. Len(s) \in Nat /\ Len(s) >= 2
  BY <1>3, <1>4
<1>6. IndexOf(s, "&") = Len(s) + 1 /\ IndexOf(w, "&") = Len(s) + 1 /\ SubSeq(w, 1, Len(s)) = s
      /\ SubSeq(w, Len(s) + 2, Len(w)) = z /\ w \in Seq(Char)
  <2>1. "&" \in Char /\ s \in Seq(Char \ {"&"}) /\ z \in Seq(Char)
    BY <1>1, <1>3
  <2>2. IndexOf(s, "&") = Len(s) + 1 /\ IndexOf(w, "&") = Len(s) + 1 /\ SubSeq(w, 1, Len(s)) = s
        /\ SubSeq(w, Len(s) + 2, Len(w)) = z
    BY <2>1, IndexOfConcat, SMTT(30)
  <2>3. <<"&">> \o z \in Seq(Char)
    BY <2>1, OneBefore
  <2>4. w \in Seq(Char)
    BY <1>4, <2>3, ConcatIs
  <2> QED BY <2>2, <2>4
<1>7. SubSeq(s, 1, Len(s)) = s
  BY <1>4, FromEnds DEF First
<1>8. IndexOf(s, "=") = 2
  <2>1. 2 \in 1..(Len(s) + 1) /\ s[2] = "=" /\ \A j \in 1..(2 - 1) : s[j] # "="
    BY <1>3, <1>5
  <2> QED BY <1>4, <2>1, IndexOfIs
<1>9. SubSeq(s, 1, 1) = << k >> /\ SubSeq(w, 1, 1) = << k >>
  <2>1. SubSeq(s, 1, 1) \in Seq(Char) /\ Len(SubSeq(s, 1, 1)) = 1 /\ SubSeq(s, 1, 1)[1] = s[1]
    <3>1. 0 \in Nat /\ 1 \in Nat /\ 0 + 1 <= Len(s)
      BY <1>5
    <3>2. SubSeq(s, 0 + 1, 0 + 1) \in Seq(Char) /\ Len(SubSeq(s, 0 + 1, 0 + 1)) = 1
          /\ \A i \in 1..1 : SubSeq(s, 0 + 1, 0 + 1)[i] = s[0 + i]
      BY <1>4, <3>1, SubIs
    <3>3. 0 + 1 = 1 /\ 1 \in 1..1
      OBVIOUS
    <3> QED BY <3>2, <3>3
  <2> DEFINE r == SubSeq(s, 1, 1)
  <2>2. r \in Seq(Char) /\ Len(r) = 1 /\ r[1] = k
    BY <1>3, <2>1
  <2> HIDE DEF r
  <2>3. r = << k >>
    BY <2>2
  <2>4. SubSeq(w, 1, 1) = r
    <3>1. s \in Seq(Char) /\ <<"&">> \o z \in Seq(Char) /\ 1 \in Nat \ {0} /\ 1 \in Nat /\ 1 <= Len(s)
      BY <1>1, <1>4, <1>5, OneBefore
    <3>2. SubSeq(s \o (<<"&">> \o z), 1, 1) = SubSeq(s, 1, 1)
      BY <3>1, ConcatSub
    <3> QED BY <3>2 DEF r
  <2> QED BY <2>3, <2>4 DEF r
<1>10. SubSeq(s, 3, Len(s)) = e /\ SubSeq(w, 3, Len(s)) = e
  <2> DEFINE r == SubSeq(s, 3, Len(s))
  <2>1. r \in Seq(Char) /\ Len(r) = Len(e) /\ \A i \in 1..Len(e) : r[i] = s[2 + i]
    <3> DEFINE n == Len(e)
    <3>0. 2 \in Nat /\ n \in Nat /\ Len(s) = 2 + n
      BY <1>3, <1>4
    <3> HIDE DEF n
    <3>1. 2 \in Nat /\ n \in Nat /\ 2 + n <= Len(s)
      BY <3>0
    <3>2. SubSeq(s, 2 + 1, 2 + n) \in Seq(Char) /\ Len(SubSeq(s, 2 + 1, 2 + n)) = n
          /\ \A i \in 1..n : SubSeq(s, 2 + 1, 2 + n)[i] = s[2 + i]
      BY <1>4, <3>1, SubIs
    <3>3. 2 + 1 = 3
      OBVIOUS
    <3> QED BY <3>0, <3>2, <3>3 DEF n
  <2> HIDE DEF r
  <2>2. \A i \in 1..Len(e) : r[i] = e[i]
    BY <1>3, <2>1
  <2>3. r = e
    BY <1>4, <2>1, <2>2, SeqEqual
  <2>4. SubSeq(w, 3, Len(s)) = r
    <3>1. s \in Seq(Char) /\ <<"&">> \o z \in Seq(Char) /\ 3 \in Nat \ {0} /\ Len(s) \in Nat /\ Len(s) <= Len(s)
      BY <1>1, <1>4, <1>5, OneBefore
    <3>2. SubSeq(s \o (<<"&">> \o z), 3, Len(s)) = SubSeq(s, 3, Len(s))
      BY <3>1, ConcatSub
    <3> QED BY <3>2 DEF r
  <2> QED BY <2>3, <2>4 DEF r
<1>11. urlDecode(<< k >>) = << k >>
  <2>1. k \in Char /\ k # "%" /\ k # "+" /\ <<>> \in Seq(Char)
    BY EmptySeq
  <2>2. urlDecode(<< k >> \o <<>>) = << IF k = "+" THEN Space ELSE k >> \o urlDecode(<<>>)
    BY <2>1, DecodeCons
  <2>3. << k >> \o <<>> = << k >>
    BY <2>1
  <2> QED BY <2>1, <2>2, <2>3, DecodeEmpty
<1>12. Len(s) + 1 - 1 = Len(s) /\ 2 - 1 = 1 /\ 2 + 1 = 3 /\ Len(s) + 1 + 1 = Len(s) + 2
  BY <1>5
<1> DEFINE p == Parameter(<< k >>, urlDecode(e), "query")
<1>13. TurnOf(s) = p
  <2>1. TurnOf(s) = Parameter(urlDecode(SubSeq(s, 1, 1)), urlDecode(SubSeq(s, 3, Len(s))), "query")
    <3>1. IndexOf(s, "&") - 1 = Len(s)
      BY <1>6, <1>12
    <3> QED BY <1>7, <1>8, <3>1, TurnBy
  <2> QED BY <1>9, <1>10, <1>11, <2>1
<1>14. TurnOf(w) = p
  <2> HIDE DEF w
  <2>1. TurnOf(w) = Parameter(urlDecode(SubSeq(w, 1, 1)), urlDecode(SubSeq(w, 3, Len(s))), "query")
    <3>1. IndexOf(w, "&") - 1 = Len(s)
      BY <1>6, <1>12
    <3> QED BY <1>6, <1>8, <3>1, TurnBy
  <2> QED BY <1>9, <1>10, <1>11, <2>1
<1>15. TurnLeaves(w) = z
  <2> HIDE DEF w
  <2> QED BY <1>6, <1>12 DEF TurnLeaves
<1>16. TurnLeaves(s) = <<>>
  <2>1. TurnLeaves(s) = SubSeq(s, Len(s) + 2, Len(s))
    BY <1>6, <1>12 DEF TurnLeaves
  <2> DEFINE n == Len(s)
  <2>2. s \in Seq(Char) /\ n \in Nat /\ n <= Len(s) /\ n + 2 \in Nat \ {0} /\ ~(n + 2 <= n)
    BY <1>4, <1>5
  <2> DEFINE m == n + 2
  <2> HIDE DEF m, n
  <2>3. s \in Seq(Char) /\ n \in Nat /\ n <= Len(s) /\ m \in Nat \ {0} /\ ~(m <= n)
    BY <2>2 DEF m
  <2>4. SubSeq(s, m, n) \in Seq(Char) /\ Len(SubSeq(s, m, n)) = IF m <= n THEN n - m + 1 ELSE 0
    BY <2>3, SubSeqType
  <2> DEFINE r == SubSeq(s, m, n)
  <2> HIDE DEF r
  <2>5. r \in Seq(Char) /\ Len(r) = 0
    BY <2>3, <2>4 DEF r
  <2>6. r = <<>>
    BY <2>5, EmptySeq
  <2> QED BY <2>1, <2>6 DEF r, m, n
<1>17. s # <<>>
  BY <1>4, <1>5, EmptySeq
<1> QED BY <1>4, <1>13, <1>14, <1>15, <1>16, <1>17 DEF s

\* What the url takes as it is.
Clean == Char \ {"&", "+", "%", "#"}
UrlPair(k, t) == <<k, "=">> \o Escape(t)

LEMMA KeyChars ==
  /\ \A k \in AllKeys \union {"parameters"} : k \in Char \ {"&", "=", "%", "+", "#", Space}
  /\ "&" \in Char /\ "=" \in Char /\ "#" \in Char /\ {"%", "2", "0"} \subseteq Char
  /\ "=" # Space /\ "&" # Space
<1>1. "&" \in Char /\ "=" \in Char /\ "#" \in Char /\ {"%", "2", "0"} \subseteq Char /\ "parameters" \in Char
  BY CharHas DEF Literals
<1>2. \A k \in AllKeys : k \in Char
  BY CharHas
<1>3. \A f \in Forms5 : \A k \in ToSet(FormKeys[f]) : k \notin {"&", "=", "%", "+", "#", " "}
  BY FormsAre, APKeysAre, NetworkKeysAre, NtpKeysAre, ServiceKeysAre, CalibrationKeysAre DEF Forms5, ServiceTexts
<1>4. AllKeys = UNION {ToSet(FormKeys[f]) : f \in Forms5}
  BY ListsAre
<1>5. \A k \in AllKeys : k \notin {"&", "=", "%", "+", "#", " "}
  BY <1>3, <1>4
<1> QED BY <1>1, <1>2, <1>5 DEF Space

LEMMA EmptyLeft ==
  ASSUME NEW S, NEW s \in Seq(S)
  PROVE  <<>> \o s = s /\ s \o <<>> = s
OBVIOUS

\* What stands before the first "#", which is not in s.
LEMMA FragmentOf ==
  ASSUME NEW s \in Seq(Char \ {"#"}), NEW t \in Seq(Char)
  PROVE  /\ BeforeFragment(s \o t) = s \o BeforeFragment(t) /\ BeforeFragment(s) = s
         /\ BeforeFragment(t) \in Seq(Char)
<1> DEFINE n == IndexOf(t, "#")
      m == Len(s)
      w == s \o t
<1>1. s \in Seq(Char) /\ m \in Nat /\ Len(t) \in Nat
  BY SeqMonotonic, LenProperties
<1>2. n \in 1..(Len(t) + 1) /\ (\A j \in 1..(n - 1) : t[j] # "#") /\ (n <= Len(t) => t[n] = "#")
  BY IndexOfType
<1>3. w \in Seq(Char) /\ Len(w) = m + Len(t) /\ (\A i \in 1..m : w[i] = s[i]) /\ (\A i \in 1..Len(t) : w[m + i] = t[i])
  BY <1>1, ConcatIs
<1>4. \A i \in 1..m : s[i] # "#"
  BY ElementOfSeq
<1> HIDE DEF n, w, m
<1>5. IndexOf(w, "#") = m + n
  <2>1. m + n \in 1..(Len(w) + 1)
    BY <1>1, <1>2, <1>3
  <2>2. m + n <= Len(w) => w[m + n] = "#"
    BY <1>1, <1>2, <1>3
  <2>3. \A j \in 1..(m + n - 1) : w[j] # "#"
    <3> TAKE j \in 1..(m + n - 1)
    <3>1. CASE j <= m
      BY <1>1, <1>2, <1>3, <1>4, <3>1
    <3>2. CASE j > m
      <4>1. j - m \in 1..(n - 1) /\ j - m \in 1..Len(t) /\ m + (j - m) = j
        BY <1>1, <1>2, <3>2
      <4>2. w[m + (j - m)] = t[j - m]
        BY <1>3, <4>1
      <4> QED BY <1>2, <4>1, <4>2
    <3> QED BY <1>1, <1>2, <3>1, <3>2
  <2> DEFINE x == m + n
  <2> HIDE DEF x
  <2>4. x \in 1..(Len(w) + 1) /\ (x <= Len(w) => w[x] = "#") /\ \A j \in 1..(x - 1) : w[j] # "#"
    <3>1. x \in 1..(Len(w) + 1)
      BY <2>1 DEF x
    <3>2. x <= Len(w) => w[x] = "#"
      BY <2>2 DEF x
    <3>3. \A j \in 1..(x - 1) : w[j] # "#"
      <4>1. m + n - 1 = x - 1
        BY <1>1, <1>2 DEF x
      <4> HIDE DEF x
      <4> QED BY <2>3, <4>1
    <3> QED BY <3>1, <3>2, <3>3
  <2>5. w \in Seq(Char)
    BY <1>3
  <2>6. IndexOf(w, "#") = x
    BY <2>4, <2>5, IndexOfIs
  <2> QED BY <2>6 DEF x
<1> DEFINE r == SubSeq(t, 1, n - 1)
      u == SubSeq(w, 1, m + n - 1)
<1>6. r \in Seq(Char) /\ Len(r) = n - 1 /\ \A i \in 1..(n - 1) : r[i] = t[i]
  <2> DEFINE x == n - 1
  <2>1. x \in 0..Len(t)
    BY <1>1, <1>2
  <2> HIDE DEF x
  <2>2. First(x, t) \in Seq(Char) /\ Len(First(x, t)) = x /\ \A i \in 1..x : First(x, t)[i] = t[i]
    BY <2>1, FirstFrom
  <2> QED BY <2>2 DEF x, First
<1>7. u \in Seq(Char) /\ Len(u) = m + n - 1 /\ \A i \in 1..(m + n - 1) : u[i] = w[i]
  <2> DEFINE x == m + n - 1
  <2>1. x \in 0..Len(w) /\ w \in Seq(Char)
    BY <1>1, <1>2, <1>3
  <2> HIDE DEF x
  <2>2. First(x, w) \in Seq(Char) /\ Len(First(x, w)) = x /\ \A i \in 1..x : First(x, w)[i] = w[i]
    BY <2>1, FirstFrom
  <2> QED BY <2>2 DEF x, First
<1> HIDE DEF r, u
<1>8. s \o r \in Seq(Char) /\ Len(s \o r) = m + n - 1 /\ (\A i \in 1..m : (s \o r)[i] = s[i])
      /\ (\A i \in 1..(n - 1) : (s \o r)[m + i] = r[i])
  <2>1. r \in Seq(Char)
    BY <1>6
  <2>2. s \o r \in Seq(Char) /\ Len(s \o r) = Len(s) + Len(r) /\ (\A i \in 1..Len(s) : (s \o r)[i] = s[i])
        /\ (\A i \in 1..Len(r) : (s \o r)[Len(s) + i] = r[i])
    BY <1>1, <2>1, ConcatIs
  <2> DEFINE v == s \o r
  <2> HIDE DEF v
  <2>3. v \in Seq(Char) /\ Len(v) = m + Len(r) /\ (\A i \in 1..m : v[i] = s[i])
        /\ (\A i \in 1..Len(r) : v[m + i] = r[i])
    BY <2>2 DEF v, m
  <2>4. Len(v) = m + n - 1
    BY <1>1, <1>2, <1>6, <2>3
  <2>5. \A i \in 1..(n - 1) : v[m + i] = r[i]
    BY <1>6, <2>3
  <2> QED BY <2>3, <2>4, <2>5 DEF v
<1>9. u = s \o r
  <2> DEFINE v == s \o r
  <2>1. v \in Seq(Char) /\ Len(v) = m + n - 1 /\ (\A i \in 1..m : v[i] = s[i]) /\ (\A i \in 1..(n - 1) : v[m + i] = r[i])
    BY <1>8
  <2> HIDE DEF v
  <2>2. \A i \in 1..(m + n - 1) : u[i] = v[i]
    <3> TAKE i \in 1..(m + n - 1)
    <3>1. CASE i <= m
      BY <1>1, <1>2, <1>3, <1>7, <2>1, <3>1
    <3>2. CASE i > m
      <4>1. i - m \in 1..(n - 1) /\ i - m \in 1..Len(t) /\ m + (i - m) = i
        BY <1>1, <1>2, <3>2
      <4>2. v[m + (i - m)] = r[i - m] /\ r[i - m] = t[i - m] /\ w[m + (i - m)] = t[i - m]
        BY <1>3, <1>6, <2>1, <4>1
      <4>3. v[i] = w[i]
        BY <4>1, <4>2
      <4> QED BY <1>7, <4>3
    <3> QED BY <1>1, <1>2, <3>1, <3>2
  <2>3. u \in Seq(Char) /\ v \in Seq(Char) /\ Len(u) = Len(v) /\ \A i \in 1..Len(u) : u[i] = v[i]
    BY <1>7, <2>1, <2>2
  <2> QED BY <2>3, SeqEqual DEF v
<1>10. BeforeFragment(w) = u /\ BeforeFragment(t) = r
  <2>1. BeforeFragment(w) = SubSeq(w, 1, IndexOf(w, "#") - 1) /\ BeforeFragment(t) = r
    BY DEF BeforeFragment, r, n
  <2>2. BeforeFragment(w) = SubSeq(w, 1, m + n - 1)
    <3>1. IndexOf(w, "#") - 1 = m + n - 1
      BY <1>1, <1>2, <1>5
    <3> QED BY <2>1, <3>1
  <2> QED BY <2>1, <2>2 DEF u
<1>11. BeforeFragment(s) = s
  <2>1. IndexOf(s, "#") = Len(s) + 1
    BY KeyChars, IndexOfConcat, ZenonT(30)
  <2>2. Len(s) + 1 - 1 = Len(s)
    BY <1>1 DEF m
  <2>3. SubSeq(s, 1, Len(s)) = s
    BY <1>1, FromEnds DEF First
  <2> QED BY <2>1, <2>2, <2>3 DEF BeforeFragment
<1> QED BY <1>6, <1>9, <1>10, <1>11 DEF w

LEMMA NotEmpty == \A f \in Forms5 : FormKeys[f] # <<>>
<1>1. ToSet(<<>>) = {}
  BY DEF ToSet
<1> QED BY <1>1, FormsAre, APKeysAre, NetworkKeysAre, NtpKeysAre, ServiceKeysAre, CalibrationKeysAre DEF Forms5

LEMMA JsonQuery ==
  ASSUME NEW v, NEW f \in Forms5 \ {"ap"}, v.path = Routes[FormRoute[f]].uri
  PROVE  Query(v) = <<"parameters", "=">> \o Encode(Json(FormKeys[f], v.typed))
<1> DEFINE keys == Keys(v.path)
<1>1. keys = FormKeys[f] /\ v.path # <<"applyAP">>
  BY KeysOf
<1>2. keys # <<>>
  BY <1>1, NotEmpty
<1>3. Query(v) = <<"parameters", "=">> \o Encode(FlattenSeq([i \in DOMAIN keys |-> << keys[i] >> \o v.typed[keys[i]]]))
  BY <1>1, <1>2 DEF Query
<1>4. FlattenSeq([i \in DOMAIN keys |-> << keys[i] >> \o v.typed[keys[i]]]) = Json(keys, v.typed)
  BY DEF Json, JsonTexts
<1> HIDE DEF keys
<1> QED BY <1>1, <1>3, <1>4

LEMMA PairOf ==
  ASSUME NEW S, NEW a \in S, NEW b \in S
  PROVE  << a >> \o << b >> = <<a, b>>
<1> DEFINE x == << a >>
      y == << b >>
      z == <<a, b>>
<1>1. /\ x \in Seq(S) /\ y \in Seq(S) /\ z \in Seq(S) /\ Len(x) = 1 /\ Len(y) = 1 /\ Len(z) = 2
      /\ x[1] = a /\ y[1] = b /\ z[1] = a /\ z[2] = b
  OBVIOUS
<1> HIDE DEF x, y, z
<1>2. /\ x \o y \in Seq(S) /\ Len(x \o y) = Len(x) + Len(y)
      /\ \A i \in 1..(Len(x) + Len(y)) : (x \o y)[i] = IF i <= Len(x) THEN x[i] ELSE y[i - Len(x)]
  BY <1>1, ConcatProperties
<1>3. \A i \in 1..2 : (x \o y)[i] = z[i]
  BY <1>1, <1>2
<1>4. x \o y = z
  BY <1>1, <1>2, <1>3, SeqEqual
<1> QED BY <1>4 DEF x, y, z

\* The url of the access point's page, before anything is done to it.
APText(typed) ==
  (<<"txtaplan", "=">> \o typed["txtaplan"])
  \o (<<"&">> \o ((<<"txtssid", "=">> \o typed["txtssid"]) \o (<<"&">> \o (<<"txtpass", "=">> \o typed["txtpass"]))))

LEMMA PairType ==
  ASSUME NEW a \in Char, NEW b \in Char
  PROVE  <<a, b>> \in Seq(Char)
OBVIOUS

\* What is left of a text without the spaces it ends with.
LEMMA StrippedIs ==
  ASSUME NEW S, NEW s \in Seq(S), NEW n \in 0..Len(s), n = 0 \/ s[n] # Space,
         \A i \in (n + 1)..Len(s) : s[i] = Space
  PROVE  Stripped(s) = First(n, s)
<1> DEFINE T == {0} \union {i \in DOMAIN s : s[i] # Space}
<1>1. DOMAIN s = 1..Len(s) /\ Len(s) \in Nat
  BY LenProperties
<1>2. n \in T /\ T \subseteq Int /\ \A i \in T : n >= i
  <2>1. n \in T
    BY <1>1
  <2>2. \A i \in T : n >= i
    <3> SUFFICES ASSUME NEW i \in T, ~(n >= i) PROVE FALSE
      OBVIOUS
    <3>1. i \in (n + 1)..Len(s) /\ s[i] # Space
      BY <1>1
    <3> QED BY <3>1
  <2> QED BY <1>1, <2>1, <2>2
<1>3. Max(T) = CHOOSE x \in T : \A y \in T : x >= y
  BY DEF Max
<1>4. Stripped(s) = SubSeq(s, 1, Max(T))
  BY DEF Stripped
<1> HIDE DEF T
<1>5. Max(T) = n
  <2> DEFINE c == CHOOSE x \in T : \A y \in T : x >= y
  <2>1. c \in T /\ \A y \in T : c >= y
    BY <1>2
  <2> HIDE DEF c
  <2>2. c >= n /\ n >= c /\ c \in Int /\ n \in Int
    BY <1>2, <2>1
  <2>3. c = n
    BY <2>2
  <2> QED BY <1>3, <2>3 DEF c
<1> QED BY <1>4, <1>5 DEF First

LEMMA StrippedAt ==
  ASSUME NEW S, NEW s \in Seq(S)
  PROVE  \E n \in 0..Len(s) : (n = 0 \/ s[n] # Space) /\ (\A i \in (n + 1)..Len(s) : s[i] = Space)
                              /\ Stripped(s) = First(n, s)
<1> DEFINE T == {m \in 0..Len(s) : \A i \in (m + 1)..Len(s) : s[i] = Space}
<1>1. Len(s) \in Nat
  BY LenProperties
<1>2. Len(s) \in T /\ T \in SUBSET Nat
  BY <1>1
<1>3. PICK n \in T : \A m \in T : n <= m
  <2> HIDE DEF T
  <2> QED BY <1>2, LeastOf
<1>4. n = 0 \/ s[n] # Space
  <2> SUFFICES ASSUME n # 0, s[n] = Space PROVE FALSE
    OBVIOUS
  <2>1. n - 1 \in 0..Len(s) /\ n \in Nat
    BY <1>1
  <2>2. \A i \in (n - 1 + 1)..Len(s) : s[i] = Space
    <3> TAKE i \in (n - 1 + 1)..Len(s)
    <3>1. i = n \/ i \in (n + 1)..Len(s)
      BY <1>1, <2>1
    <3> QED BY <3>1
  <2>3. n - 1 \in T
    BY <2>1, <2>2
  <2> HIDE DEF T
  <2>4. n <= n - 1
    BY <1>3, <2>3
  <2> QED BY <2>1, <2>4
<1> QED BY <1>4, StrippedIs

LEMMA StrippedType ==
  ASSUME NEW S, NEW s \in Seq(S)
  PROVE  /\ Stripped(s) \in Seq(S) /\ Len(Stripped(s)) <= Len(s)
         /\ \A T : Space \in T /\ Stripped(s) \in Seq(T) => s \in Seq(T)
         /\ s = <<>> \/ Last(s) # Space => Stripped(s) = s
<1>1. Len(s) \in Nat /\ DOMAIN s = 1..Len(s) /\ s = [i \in 1..Len(s) |-> s[i]]
  BY LenProperties
<1>2. PICK n \in 0..Len(s) : (n = 0 \/ s[n] # Space) /\ (\A i \in (n + 1)..Len(s) : s[i] = Space)
                             /\ Stripped(s) = First(n, s)
  BY StrippedAt
<1>3. /\ First(n, s) \in Seq(S) /\ Len(First(n, s)) = n
      /\ \A i \in 1..n : First(n, s)[i] = s[i]
  BY FirstFrom
<1>4. ASSUME NEW T, Space \in T, Stripped(s) \in Seq(T) PROVE s \in Seq(T)
  <2>1. \A i \in 1..n : First(n, s)[i] \in T
    BY <1>2, <1>3, <1>4, ElementOfSeq
  <2>2. \A i \in 1..Len(s) : s[i] \in T
    <3> TAKE i \in 1..Len(s)
    <3>1. i \in 1..n \/ i \in (n + 1)..Len(s)
      BY <1>1
    <3> QED BY <1>2, <1>3, <1>4, <2>1, <3>1
  <2> QED BY <1>1, <2>2, SeqIs
<1>5. ASSUME s = <<>> \/ Last(s) # Space PROVE Stripped(s) = s
  <2>1. Len(s) = 0 \/ s[Len(s)] # Space
    BY <1>5, EmptySeq DEF Last
  <2>2. n = Len(s)
    <3> SUFFICES ASSUME n # Len(s) PROVE FALSE
      OBVIOUS
    <3>1. Len(s) \in (n + 1)..Len(s) /\ Len(s) # 0
      BY <1>1
    <3> QED BY <1>2, <2>1, <3>1
  <2> QED BY <1>1, <1>2, <2>2, FromEnds DEF First
<1>6. Len(Stripped(s)) <= Len(s)
  BY <1>1, <1>2, <1>3
<1> QED BY <1>2, <1>3, <1>4, <1>5, <1>6

\* Nothing is taken off a text that ends in something else.
\* One after the other, kept apart from what the provers know of \o.
Then(s, t) == s \o t
LEMMA ThenIs ==
  ASSUME NEW S, NEW s \in Seq(S), NEW t \in Seq(S), NEW u \in Seq(S)
  PROVE  Then(Then(s, t), u) = Then(s, Then(t, u))
BY Regroup DEF Then

LEMMA StrippedConcat ==
  ASSUME NEW S, NEW s \in Seq(S), NEW t \in Seq(S), s # <<>>, s[Len(s)] # Space
  PROVE  Stripped(s \o t) = s \o Stripped(t)
<1> DEFINE u == s \o t
      m == Len(s)
<1>1. m \in Nat /\ m > 0 /\ Len(t) \in Nat
  BY LenProperties, EmptySeq
<1>2. u \in Seq(S) /\ Len(u) = m + Len(t) /\ (\A i \in 1..m : u[i] = s[i]) /\ (\A i \in 1..Len(t) : u[m + i] = t[i])
  BY ConcatIs
<1>3. PICK n \in 0..Len(t) : (n = 0 \/ t[n] # Space) /\ (\A i \in (n + 1)..Len(t) : t[i] = Space)
                             /\ Stripped(t) = First(n, t)
  BY StrippedAt
<1> DEFINE a == First(n, t)
      b == From(n, t)
<1>4. a \in Seq(S) /\ b \in Seq(S) /\ Len(a) = n /\ a \o b = t
  BY FirstFrom
<1>0. s[m] # Space
  OBVIOUS
<1> HIDE DEF u, m
<1>5. Stripped(u) = First(m + n, u)
  <2> DEFINE k == m + n
  <2>1. k \in 0..Len(u)
    BY <1>1, <1>2
  <2>2. u[k] # Space
    <3>1. CASE n = 0
      <4>1. k = m /\ m \in 1..m
        BY <1>1, <3>1
      <4> QED BY <1>0, <1>2, <4>1
    <3>2. CASE n # 0
      <4>1. n \in 1..Len(t)
        BY <1>1, <3>2
      <4>2. u[m + n] = t[n]
        BY <1>2, <4>1
      <4> QED BY <1>3, <3>2, <4>2
    <3> QED BY <3>1, <3>2
  <2>3. \A i \in (k + 1)..Len(u) : u[i] = Space
    <3> TAKE i \in (k + 1)..Len(u)
    <3>1. i - m \in 1..Len(t) /\ i - m \in (n + 1)..Len(t) /\ m + (i - m) = i
      BY <1>1, <1>2
    <3>2. u[m + (i - m)] = t[i - m]
      BY <1>2, <3>1
    <3> QED BY <1>3, <3>1, <3>2
  <2> HIDE DEF k
  <2>4. Stripped(u) = First(k, u)
    BY <1>2, <2>1, <2>2, <2>3, StrippedIs
  <2> QED BY <2>4 DEF k
<1> HIDE DEF a, b
<1>6. s \o a \in Seq(S) /\ Len(s \o a) = m + n /\ (s \o a) \o b = u
  <2>1. s \o a \in Seq(S) /\ Len(s \o a) = m + n
    BY <1>4, ConcatIs DEF m
  <2>2. (s \o a) \o b = s \o (a \o b)
    <3>1. a \in Seq(S) /\ b \in Seq(S)
      BY <1>4
    <3>2. Then(Then(s, a), b) = Then(s, Then(a, b))
      BY <3>1, ThenIs
    <3> QED BY <3>2 DEF Then
  <2> QED BY <1>4, <2>1, <2>2 DEF u
<1>7. First(m + n, u) = s \o a
  <2> DEFINE x == s \o a
  <2>1. x \in Seq(S) /\ Len(x) = m + n /\ x \o b = u
    BY <1>6
  <2> HIDE DEF x
  <2>2. First(Len(x), x \o b) = x
    BY <1>4, <2>1, FirstOfConcat
  <2>3. First(m + n, u) = x
    BY <2>1, <2>2
  <2> QED BY <2>3 DEF x
<1>8. Stripped(u) = s \o a
  BY <1>5, <1>7
<1> QED BY <1>3, <1>8 DEF a, u

LEMMA APTextIs ==
  ASSUME NEW v, v.path = <<"applyAP">>, \A k \in ToSet(APKeys) : v.typed[k] \in Seq(Char)
  PROVE  Query(v) = Escape(Stripped(BeforeFragment(APText(v.typed))))
<1> DEFINE keys == Keys(v.path)
      E(i) == ((IF i = 1 THEN <<>> ELSE <<"&">>) \o <<keys[i], "=">>) \o v.typed[keys[i]]
      X == [i \in DOMAIN keys |-> E(i)]
      t1 == v.typed["txtaplan"]
      t2 == v.typed["txtssid"]
      t3 == v.typed["txtpass"]
      k1 == <<"txtaplan", "=">>
      k2 == <<"txtssid", "=">>
      k3 == <<"txtpass", "=">>
      A == <<"&">>
<1>1. keys = APKeys
  <2>1. "ap" \in Forms5
    BY DEF Forms5
  <2> QED BY <2>1, FormRouteIs, KeysOf, FormsAre
<1>2. DOMAIN keys = 1..3 /\ keys[1] = "txtaplan" /\ keys[2] = "txtssid" /\ keys[3] = "txtpass"
  BY <1>1, APKeysAre, LenProperties
<1>3. Query(v) = Escape(Stripped(BeforeFragment(FlattenSeq(X))))
  BY DEF Query
<1>4. "txtaplan" \in Char /\ "txtssid" \in Char /\ "txtpass" \in Char /\ "=" \in Char /\ "&" \in Char
  BY CharHas, KeyChars, APKeysAre, FormsAre, ListsAre DEF Forms5
<1>5. k1 \in Seq(Char) /\ k2 \in Seq(Char) /\ k3 \in Seq(Char) /\ A \in Seq(Char)
  <2>1. A \in Seq(Char)
    BY <1>4, SingleType
  <2> QED BY <1>4, <2>1, PairType
<1>6. t1 \in Seq(Char) /\ t2 \in Seq(Char) /\ t3 \in Seq(Char)
  BY APKeysAre
<1> DEFINE p1 == k1 \o t1
      p2 == k2 \o t2
      p3 == k3 \o t3
      y1 == (<<>> \o k1) \o t1
      y2 == (A \o k2) \o t2
      y3 == (A \o k3) \o t3
<1>7. X = [i \in 1..3 |-> X[i]] /\ X[1] = y1 /\ X[2] = y2 /\ X[3] = y3
  <2>1. E(1) = y1
    BY <1>2
  <2>2. E(2) = y2
    BY <1>2
  <2>3. E(3) = y3
    BY <1>2
  <2> HIDE DEF E, y1, y2, y3
  <2>4. X = [i \in 1..3 |-> E(i)]
    BY <1>2
  <2>5. X = [i \in 1..3 |-> X[i]] /\ X[1] = E(1) /\ X[2] = E(2) /\ X[3] = E(3)
    BY <2>4
  <2> QED BY <2>1, <2>2, <2>3, <2>5
<1> HIDE DEF k1, k2, k3, A, t1, t2, t3, X
<1>8. p1 \in Seq(Char) /\ p2 \in Seq(Char) /\ p3 \in Seq(Char)
  BY <1>5, <1>6, ConcatIs
<1>9. y1 = p1 /\ y2 = A \o p2 /\ y3 = A \o p3
  <2>1. <<>> \o k1 = k1
    BY <1>5, EmptyLeft
  <2>2. (A \o k2) \o t2 = A \o (k2 \o t2)
    BY <1>5, <1>6, Assoc, SMTT(30)
  <2>3. (A \o k3) \o t3 = A \o (k3 \o t3)
    BY <1>5, <1>6, Assoc, ZenonT(30)
  <2> QED BY <2>1, <2>2, <2>3
<1> HIDE DEF y1, y2, y3, p1, p2, p3
<1>10. y1 \in Seq(Char) /\ y2 \in Seq(Char) /\ y3 \in Seq(Char)
  <2>1. A \o p2 \in Seq(Char) /\ A \o p3 \in Seq(Char)
    BY <1>5, <1>8, ConcatIs
  <2> QED BY <1>8, <1>9, <2>1
<1>11. X = <<y1, y2, y3>>
  <2> DEFINE Y == <<y1, y2, y3>>
  <2>1. Y = [i \in 1..3 |-> Y[i]] /\ Y[1] = y1 /\ Y[2] = y2 /\ Y[3] = y3
    OBVIOUS
  <2>2. X = [i \in 1..3 |-> Y[i]]
    <3>1. \A i \in 1..3 : X[i] = Y[i]
      <4>1. \A i \in 1..3 : i = 1 \/ i = 2 \/ i = 3
        OBVIOUS
      <4> HIDE DEF Y
      <4> QED BY <1>7, <2>1, <4>1
    <3> HIDE DEF Y
    <3> QED BY <1>7, <3>1
  <2> HIDE DEF Y
  <2>3. X = Y
    BY <2>1, <2>2
  <2> QED BY <2>3 DEF Y
<1>12. FlattenSeq(X) = y1 \o (y2 \o y3)
  <2>1. <<y1, y2, y3>> = << y1 >> \o (<< y2 >> \o << y3 >>) /\ << y1 >> \in Seq(Seq(Char)) /\ << y2 >> \in Seq(Seq(Char))
        /\ << y3 >> \in Seq(Seq(Char)) /\ << y2 >> \o << y3 >> \in Seq(Seq(Char))
    <3>1. << y2 >> \o << y3 >> = <<y2, y3>>
      BY <1>10, PairOf
    <3>2. << y1 >> \o <<y2, y3>> = <<y1, y2, y3>>
      BY <1>10, TripleIs
    <3>3. << y1 >> \in Seq(Seq(Char)) /\ << y2 >> \in Seq(Seq(Char)) /\ << y3 >> \in Seq(Seq(Char))
      BY <1>10, SingleType
    <3>4. << y2 >> \o << y3 >> \in Seq(Seq(Char))
      BY <3>3, ConcatIs
    <3> QED BY <3>1, <3>2, <3>3, <3>4
  <2> DEFINE z1 == << y1 >>
        z2 == << y2 >>
        z3 == << y3 >>
  <2>2. FlattenSeq(z1) = y1 /\ FlattenSeq(z2) = y2 /\ FlattenSeq(z3) = y3
    BY <1>10, FlattenOne
  <2>3. z1 \in Seq(Seq(Char)) /\ z2 \in Seq(Seq(Char)) /\ z3 \in Seq(Seq(Char)) /\ z2 \o z3 \in Seq(Seq(Char))
        /\ X = z1 \o (z2 \o z3)
    BY <1>11, <2>1
  <2> HIDE DEF z1, z2, z3
  <2>4. z1 \in Seq(Seq(Char)) /\ z2 \in Seq(Seq(Char)) /\ z3 \in Seq(Seq(Char)) /\ z2 \o z3 \in Seq(Seq(Char))
    BY <2>3
  <2>5. FlattenSeq(z2 \o z3) = FlattenSeq(z2) \o FlattenSeq(z3)
    BY <2>4, FlattenConcat
  <2>6. FlattenSeq(z1 \o (z2 \o z3)) = FlattenSeq(z1) \o FlattenSeq(z2 \o z3)
    BY <2>4, FlattenConcat
  <2> QED BY <2>2, <2>3, <2>5, <2>6
<1>13. y2 \o y3 = A \o (p2 \o (A \o p3))
  <2>1. A \o p3 \in Seq(Char)
    BY <1>9, <1>10
  <2>2. (A \o p2) \o (A \o p3) = A \o (p2 \o (A \o p3))
    BY <1>5, <1>8, <2>1, Assoc, ZenonT(30)
  <2> QED BY <1>9, <2>2
<1>14. FlattenSeq(X) = p1 \o (A \o (p2 \o (A \o p3)))
  BY <1>9, <1>12, <1>13
<1>15. APText(v.typed) = p1 \o (A \o (p2 \o (A \o p3)))
  BY DEF APText, p1, p2, p3, k1, k2, k3, A, t1, t2, t3
<1> QED BY <1>3, <1>14, <1>15

LEMMA UrlPairType ==
  ASSUME NEW k \in AllKeys, NEW t \in Seq(Char)
  PROVE  /\ UrlPair(k, t) \in Seq(Char) /\ UrlPair(k, t) = Escape(<<k, "=">> \o t)
         /\ t \in Seq(Clean) => /\ UrlPair(k, t) \in Seq(Char \ {"#"}) /\ UrlPair(k, t) \in Seq(Char \ {"&"})
                                /\ Escape(t) \in Seq(Char \ {"&"}) /\ urlDecode(Escape(t)) = t
<1> DEFINE a == <<k, "=">>
<1>1. k \in Char \ {"&", "=", "%", "+", "#", Space} /\ "=" \in Char /\ "=" # Space /\ {"%", "2", "0"} \subseteq Char
  BY KeyChars
<1>2. "=" # "#" /\ "=" # "&" /\ "%" # "#" /\ "2" # "#" /\ "0" # "#" /\ "%" # "&" /\ "2" # "&" /\ "0" # "&"
  OBVIOUS
<1>3. \A S : k \in S /\ "=" \in S => a \in Seq(S)
  OBVIOUS
<1> HIDE DEF a
<1>4. a \in Seq(Char) /\ a \in Seq(Char \ {Space}) /\ a \in Seq(Char \ {"#"}) /\ a \in Seq(Char \ {"&"})
  BY <1>1, <1>2, <1>3
<1>5. Escape(t) \in Seq(Char)
  BY <1>1, EscapeType
<1>6. a \o Escape(t) \in Seq(Char)
  BY <1>4, <1>5, ConcatIs
<1>7. Escape(a \o t) = a \o Escape(t)
  <2>1. Escape(a \o t) = Escape(a) \o Escape(t)
    BY <1>4, EscapeConcat
  <2>2. Escape(a) = a
    BY <1>4, EscapePlain
  <2> QED BY <2>1, <2>2
<1>8. ASSUME t \in Seq(Clean)
      PROVE  /\ a \o Escape(t) \in Seq(Char \ {"#"}) /\ a \o Escape(t) \in Seq(Char \ {"&"})
             /\ Escape(t) \in Seq(Char \ {"&"}) /\ urlDecode(Escape(t)) = t
  <2>1. Clean \subseteq Char \ {"#"} /\ Clean \subseteq Char \ {"&"} /\ Clean \subseteq Char \ {"%", "+"}
    BY DEF Clean
  <2>2. t \in Seq(Char \ {"#"}) /\ t \in Seq(Char \ {"&"}) /\ t \in Seq(Char \ {"%", "+"})
    BY <1>8, <2>1, SeqMonotonic
  <2>3. Escape(t) \in Seq(Char \ {"#"})
    <3>1. {"%", "2", "0"} \subseteq Char \ {"#"}
      BY <1>1, <1>2
    <3> QED BY <2>2, <3>1, EscapeType
  <2>4. Escape(t) \in Seq(Char \ {"&"})
    <3>1. {"%", "2", "0"} \subseteq Char \ {"&"}
      BY <1>1, <1>2
    <3> QED BY <2>2, <3>1, EscapeType
  <2>5. a \o Escape(t) \in Seq(Char \ {"#"}) /\ a \o Escape(t) \in Seq(Char \ {"&"})
    BY <1>4, <2>3, <2>4, ConcatIs
  <2> QED BY <2>2, <2>4, <2>5, EscapeDecode
<1> QED BY <1>6, <1>7, <1>8 DEF UrlPair, a

\* What the access point's page asks for.
Pass(v) == Stripped(v.typed["txtpass"])
LEMMA APQuery ==
  ASSUME NEW v, v.path = <<"applyAP">>, \A k \in ToSet(APKeys) : v.typed[k] \in Seq(Char)
  PROVE  LET t1 == v.typed["txtaplan"]
             t2 == v.typed["txtssid"]
             t3 == Pass(v)
         IN  /\ Query(v) \in Seq(Char)
             /\ t1 \in Seq(Clean) => \E y \in Seq(Char) : Query(v) = UrlPair("txtaplan", t1) \o (<<"&">> \o y)
             /\ t1 \in Seq(Clean) /\ t2 \in Seq(Clean) /\ t3 \in Seq(Clean) =>
                  Query(v) = UrlPair("txtaplan", t1)
                             \o (<<"&">> \o (UrlPair("txtssid", t2) \o (<<"&">> \o UrlPair("txtpass", t3))))
<1> DEFINE t1 == v.typed["txtaplan"]
      t2 == v.typed["txtssid"]
      t == v.typed["txtpass"]
      t3 == Pass(v)
      A == <<"&">>
      k1 == <<"txtaplan", "=">>
      k2 == <<"txtssid", "=">>
      k3 == <<"txtpass", "=">>
      b1 == k1 \o t1
      b2 == k2 \o t2
      b == k3 \o t
      b3 == k3 \o t3
      u1 == UrlPair("txtaplan", t1)
      u2 == UrlPair("txtssid", t2)
      u3 == UrlPair("txtpass", t3)
<1>1. t1 \in Seq(Char) /\ t2 \in Seq(Char) /\ t \in Seq(Char)
  BY APKeysAre
<1>0. t3 \in Seq(Char) /\ t3 = Stripped(t) /\ (t3 \in Seq(Clean) => t \in Seq(Clean))
  <2>1. Space \in Clean
    BY CharHas DEF Literals, Clean, Space
  <2> QED BY <1>1, <2>1, StrippedType DEF Pass
<1>2. "txtaplan" \in AllKeys /\ "txtssid" \in AllKeys /\ "txtpass" \in AllKeys
  BY APKeysAre, FormsAre, ListsAre DEF Forms5
<1>3. A \in Seq(Char) /\ A \in Seq(Char \ {"#"}) /\ Escape(A) = A /\ A # <<>> /\ A[Len(A)] # Space
  <2>1. "&" \in Char /\ "&" \in Char \ {"#"} /\ "&" \in Char \ {Space}
    BY KeyChars
  <2>2. A \in Seq(Char) /\ A \in Seq(Char \ {"#"}) /\ A \in Seq(Char \ {Space}) /\ A # <<>> /\ Len(A) = 1 /\ A[1] = "&"
    BY <2>1, SingleType
  <2>3. Escape(A) = A
    BY <2>2, EscapePlain
  <2> HIDE DEF A
  <2> QED BY <2>1, <2>2, <2>3
<1>4. \A k \in AllKeys : k \in Char \ {"#"} /\ "=" \in Char \ {"#"} /\ "=" # Space
  BY KeyChars
<1>5. \A k \in AllKeys : <<k, "=">> \in Seq(Char) /\ <<k, "=">> \in Seq(Char \ {"#"})
                         /\ <<k, "=">> # <<>> /\ <<k, "=">>[Len(<<k, "=">>)] # Space
  <2> TAKE k \in AllKeys
  <2> DEFINE a == <<k, "=">>
  <2>1. Len(a) = 2 /\ a[2] = "=" /\ a # <<>>
    OBVIOUS
  <2>2. \A S : k \in S /\ "=" \in S => a \in Seq(S)
    OBVIOUS
  <2> HIDE DEF a
  <2>3. a \in Seq(Char) /\ a \in Seq(Char \ {"#"}) /\ a # <<>> /\ a[Len(a)] # Space
    BY <1>4, <2>1, <2>2
  <2> QED BY <2>3 DEF a
<1>6. /\ k1 \in Seq(Char) /\ k2 \in Seq(Char) /\ k3 \in Seq(Char)
      /\ k1 \in Seq(Char \ {"#"}) /\ k2 \in Seq(Char \ {"#"}) /\ k3 \in Seq(Char \ {"#"})
      /\ k1 # <<>> /\ k2 # <<>> /\ k3 # <<>>
      /\ k1[Len(k1)] # Space /\ k2[Len(k2)] # Space /\ k3[Len(k3)] # Space
  BY <1>2, <1>5
<1>7. u1 = Escape(b1) /\ u2 = Escape(b2) /\ u3 = Escape(b3)
  BY <1>0, <1>1, <1>2, UrlPairType
<1>8. APText(v.typed) = b1 \o (A \o (b2 \o (A \o b)))
  BY DEF APText
<1>9. Query(v) = Escape(Stripped(BeforeFragment(APText(v.typed))))
  BY APTextIs
<1>10. \A x \in Seq(Clean) : x \in Seq(Char \ {"#"})
  <2>1. Clean \subseteq Char \ {"#"}
    BY DEF Clean
  <2> QED BY <2>1, SeqMonotonic
<1> HIDE DEF t1, t2, t3, t, k1, k2, k3, u1, u2, u3, A
<1>11. b1 \in Seq(Char) /\ b2 \in Seq(Char) /\ b3 \in Seq(Char) /\ b \in Seq(Char) /\ b1 # <<>> /\ b2 # <<>>
  <2>1. b1 \in Seq(Char) /\ b2 \in Seq(Char) /\ b3 \in Seq(Char) /\ b \in Seq(Char)
    BY <1>0, <1>1, <1>6, ConcatIs
  <2>2. b1 # <<>> /\ b2 # <<>>
    BY <1>1, <1>6, Peel
  <2> QED BY <2>1, <2>2
<1>12. Stripped(b) = b3
  BY <1>0, <1>1, <1>6, StrippedConcat
<1>13. t1 \in Seq(Clean) => b1 \in Seq(Char \ {"#"})
  BY <1>6, <1>10, ConcatIs
<1>14. t2 \in Seq(Clean) => b2 \in Seq(Char \ {"#"})
  BY <1>6, <1>10, ConcatIs
<1>15. t3 \in Seq(Clean) => b \in Seq(Char \ {"#"})
  BY <1>0, <1>6, <1>10, ConcatIs
<1> HIDE DEF b1, b2, b, b3
<1> DEFINE y == b2 \o (A \o b)
      z == b2 \o (A \o b3)
      c == b1 \o A
<1>16. /\ y \in Seq(Char) /\ A \o y \in Seq(Char) /\ A \o b \in Seq(Char) /\ A \o b3 \in Seq(Char)
       /\ z \in Seq(Char) /\ A \o z \in Seq(Char)
  <2>1. A \o b \in Seq(Char) /\ A \o b3 \in Seq(Char)
    BY <1>3, <1>11, ConcatIs
  <2>2. y \in Seq(Char) /\ z \in Seq(Char)
    BY <1>11, <2>1, ConcatIs
  <2> HIDE DEF y, z
  <2>3. A \o y \in Seq(Char) /\ A \o z \in Seq(Char)
    BY <1>3, <2>2, ConcatIs
  <2> QED BY <2>1, <2>2, <2>3
<1>17. \A s \in Seq(Char) : BeforeFragment(s) \in Seq(Char) /\ Stripped(s) \in Seq(Char)
  <2>1. <<>> \in Seq(Char \ {"#"})
    BY EmptySeq
  <2> QED BY <2>1, FragmentOf, StrippedType
\* What ends in "&" keeps its end.
<1>18. \A s, r \in Seq(Char) : Stripped(s \o (A \o r)) = s \o (A \o Stripped(r))
  <2> SUFFICES ASSUME NEW s \in Seq(Char), NEW r \in Seq(Char) PROVE Stripped(s \o (A \o r)) = s \o (A \o Stripped(r))
    OBVIOUS
  <2> DEFINE d == s \o A
        w == Stripped(r)
  <2>1. d \in Seq(Char) /\ Len(d) = Len(s) + Len(A) /\ Len(A) \in Nat /\ Len(s) \in Nat /\ d[Len(s) + Len(A)] = A[Len(A)]
    <3>1. /\ d \in Seq(Char) /\ Len(d) = Len(s) + Len(A) /\ Len(s) \in Nat /\ Len(A) \in Nat
          /\ \A i \in 1..Len(A) : d[Len(s) + i] = A[i]
      BY <1>3, ConcatIs
    <3>2. Len(A) \in 1..Len(A)
      BY <1>3, <3>1, EmptySeq
    <3> HIDE DEF d
    <3> QED BY <3>1, <3>2
  <2>2. w \in Seq(Char)
    BY <1>17
  <2>3. s \o (A \o r) = d \o r /\ s \o (A \o w) = d \o w
    <3>1. A \in Seq(Char) /\ w \in Seq(Char)
      BY <1>3, <2>2
    <3> HIDE DEF w
    <3>2. s \o (A \o r) = (s \o A) \o r /\ s \o (A \o w) = (s \o A) \o w
      <4>1. Then(s, Then(A, r)) = Then(Then(s, A), r) /\ Then(s, Then(A, w)) = Then(Then(s, A), w)
        BY <3>1, ThenIs
      <4> QED BY <4>1 DEF Then
    <3> QED BY <3>2
  <2>4. d # <<>> /\ d[Len(d)] # Space
    <3>1. Len(d) # 0
      BY <1>3, <2>1, EmptySeq
    <3>2. d # <<>>
      BY <2>1, <3>1, EmptySeq
    <3> HIDE DEF d
    <3> QED BY <1>3, <2>1, <3>2
  <2> HIDE DEF d
  <2>5. Stripped(d \o r) = d \o w
    BY <2>1, <2>4, StrippedConcat
  <2> QED BY <2>3, <2>5 DEF w
<1>19. ASSUME t1 \in Seq(Clean) PROVE Query(v) = u1 \o (A \o Escape(Stripped(BeforeFragment(y))))
  <2> DEFINE w == BeforeFragment(y)
        x == Stripped(w)
  <2>1. BeforeFragment(b1 \o (A \o y)) = b1 \o BeforeFragment(A \o y)
    <3> HIDE DEF y
    <3> QED BY <1>13, <1>16, <1>19, FragmentOf
  <2>2. BeforeFragment(A \o y) = A \o w
    BY <1>3, <1>16, FragmentOf
  <2> HIDE DEF y
  <2>3. w \in Seq(Char) /\ x \in Seq(Char)
    BY <1>16, <1>17
  <2> HIDE DEF w
  <2>4. Stripped(b1 \o (A \o w)) = b1 \o (A \o x)
    BY <1>11, <1>18, <2>3
  <2> HIDE DEF x
  <2>5. A \o x \in Seq(Char)
    BY <1>3, <2>3, ConcatIs
  <2>6. Escape(b1 \o (A \o x)) = Escape(b1) \o Escape(A \o x)
    BY <1>11, <2>5, EscapeConcat
  <2>7. Escape(A \o x) = Escape(A) \o Escape(x)
    BY <1>3, <2>3, EscapeConcat
  <2>8. APText(v.typed) = b1 \o (A \o y)
    BY <1>8 DEF y
  <2> QED BY <1>3, <1>7, <1>9, <2>1, <2>2, <2>4, <2>6, <2>7, <2>8 DEF w, x
<1>20. ASSUME t2 \in Seq(Clean), t3 \in Seq(Clean) PROVE Escape(Stripped(BeforeFragment(y))) = u2 \o (A \o u3)
  <2>1. A \o b \in Seq(Char \ {"#"})
    BY <1>3, <1>15, <1>20, ConcatIs
  <2>2. y \in Seq(Char \ {"#"})
    BY <1>14, <1>20, <2>1, ConcatIs
  <2>3. BeforeFragment(y) = y
    <3>1. <<>> \in Seq(Char)
      BY EmptySeq
    <3> HIDE DEF y
    <3> QED BY <2>2, <3>1, FragmentOf
  <2>4. Stripped(y) = z
    BY <1>11, <1>12, <1>18
  <2>5. Escape(A \o b3) = Escape(A) \o Escape(b3)
    BY <1>3, <1>11, EscapeConcat
  <2>6. Escape(z) = Escape(b2) \o Escape(A \o b3)
    BY <1>11, <1>16, EscapeConcat
  <2> HIDE DEF y, z
  <2> QED BY <1>3, <1>7, <2>3, <2>4, <2>5, <2>6
<1>21. Query(v) \in Seq(Char)
  <2> DEFINE x == APText(v.typed)
  <2>1. x \in Seq(Char)
    <3> HIDE DEF y
    <3>1. b1 \o (A \o y) \in Seq(Char)
      BY <1>11, <1>16, ConcatIs
    <3> QED BY <1>8, <3>1 DEF y
  <2> HIDE DEF x
  <2>2. Stripped(BeforeFragment(x)) \in Seq(Char)
    BY <1>17, <2>1
  <2>3. {"%", "2", "0"} \subseteq Char
    BY KeyChars
  <2> QED BY <1>9, <2>2, <2>3, EscapeType DEF x
<1>22. t1 \in Seq(Clean) => \E x \in Seq(Char) : Query(v) = u1 \o (A \o x)
  <2> DEFINE x == Escape(Stripped(BeforeFragment(y)))
  <2>1. x \in Seq(Char)
    <3> HIDE DEF y
    <3>1. Stripped(BeforeFragment(y)) \in Seq(Char)
      BY <1>16, <1>17
    <3> QED BY <3>1, KeyChars, EscapeType
  <2> HIDE DEF x
  <2> QED BY <1>19, <2>1 DEF x
<1>23. t1 \in Seq(Clean) /\ t2 \in Seq(Clean) /\ t3 \in Seq(Clean) => Query(v) = u1 \o (A \o (u2 \o (A \o u3)))
  BY <1>19, <1>20
<1> QED BY <1>21, <1>22, <1>23 DEF u1, u2, u3, A, t1, t2, t3

UrlParam(k, t) == Parameter(<< k >>, t, "query")
JsonHead(v, f, Q, rest) ==
  \/ Q = <<>> /\ rest = Query(v)
  \/ rest = <<>> /\ Q = << UrlParam("parameters", Json(FormKeys[f], v.typed)) >>
\* The three parameters of the access point's page, if nothing in them has a
\* meaning in a url.
APHead(Q, rest, t1, t2, t3, all) ==
  /\ t1 \in Seq(Clean) => \/ Q = <<>> /\ rest = all
                          \/ Q # <<>> /\ Q[1] = UrlParam("txtaplan", t1)
  /\ t1 \in Seq(Clean) /\ t2 \in Seq(Clean) /\ t3 \in Seq(Clean) =>
       \/ Q = <<>> /\ rest = all
       \/ /\ Q = << UrlParam("txtaplan", t1) >>
          /\ rest = UrlPair("txtssid", t2) \o (<<"&">> \o UrlPair("txtpass", t3))
       \/ Q = <<UrlParam("txtaplan", t1), UrlParam("txtssid", t2)>> /\ rest = UrlPair("txtpass", t3)
       \/ Q = <<UrlParam("txtaplan", t1), UrlParam("txtssid", t2), UrlParam("txtpass", t3)>> /\ rest = <<>>
\* The parameters read from a url, and what is left of it.
HeadOK(v, Q, rest) ==
  /\ Q \in Seq(QueryParam) /\ rest \in Seq(Char)
  /\ \A f \in Forms5 \ {"ap"} : v.path = Routes[FormRoute[f]].uri => JsonHead(v, f, Q, rest)
  /\ v.path = <<"applyAP">> =>
       APHead(Q, rest, v.typed["txtaplan"], v.typed["txtssid"], Pass(v), Query(v))

VisitTyped(v) == v.typed \in [ToSet(Keys(v.path)) -> Seq(Char)] /\ v.asked \in Seq(Char)

LEMMA TypedOf ==
  ASSUME NEW v, VisitTyped(v)
  PROVE  /\ v.path = <<"applyAP">> => \A k \in ToSet(APKeys) : v.typed[k] \in Seq(Char)
         /\ \A f \in Forms5 : v.path = Routes[FormRoute[f]].uri =>
              /\ \A i \in DOMAIN FormKeys[f] : v.typed[FormKeys[f][i]] \in Seq(Char)
              /\ DOMAIN v.typed = ToSet(FormKeys[f])
              /\ Json(FormKeys[f], v.typed) \in Seq(Char)
<1>1. "ap" \in Forms5
  BY DEF Forms5
<1>2. ASSUME v.path = <<"applyAP">> PROVE \A k \in ToSet(APKeys) : v.typed[k] \in Seq(Char)
  <2>1. Keys(v.path) = APKeys
    BY <1>1, <1>2, FormRouteIs, KeysOf, FormsAre
  <2> QED BY <2>1 DEF VisitTyped
<1>3. ASSUME NEW f \in Forms5, v.path = Routes[FormRoute[f]].uri
      PROVE  /\ \A i \in DOMAIN FormKeys[f] : v.typed[FormKeys[f][i]] \in Seq(Char)
             /\ DOMAIN v.typed = ToSet(FormKeys[f])
             /\ Json(FormKeys[f], v.typed) \in Seq(Char)
  <2>1. Keys(v.path) = FormKeys[f]
    BY <1>3, KeysOf
  <2>2. v.typed \in [ToSet(FormKeys[f]) -> Seq(Char)]
    BY <2>1 DEF VisitTyped
  <2>3. \A i \in DOMAIN FormKeys[f] : FormKeys[f][i] \in ToSet(FormKeys[f])
    BY DEF ToSet
  <2>4. \A i \in DOMAIN FormKeys[f] : v.typed[FormKeys[f][i]] \in Seq(Char)
    BY <2>2, <2>3
  <2>5. Json(FormKeys[f], v.typed) \in Seq(Char)
    BY <2>4, ListsAre, JsonTextsAre
  <2> QED BY <2>2, <2>4, <2>5
<1> QED BY <1>2, <1>3

LEMMA QueryType ==
  ASSUME NEW v, VisitTyped(v)
  PROVE  Query(v) \in Seq(Char)
<1>1. CASE v.path = <<"applyAP">>
  BY <1>1, TypedOf, APQuery
<1>2. CASE v.path # <<"applyAP">>
  <2>1. CASE Keys(v.path) = <<>>
    BY <1>2, <2>1 DEF Query, VisitTyped
  <2>2. ASSUME NEW f \in Forms5, v.path = Routes[FormRoute[f]].uri PROVE Query(v) \in Seq(Char)
    <3>1. f # "ap"
      BY <1>2, <2>2, KeysOf
    <3>2. Query(v) = <<"parameters", "=">> \o Encode(Json(FormKeys[f], v.typed))
      BY <2>2, <3>1, JsonQuery
    <3>3. Encode(Json(FormKeys[f], v.typed)) \in Seq(Char)
      BY <2>2, TypedOf, EncodeType
    <3>4. "parameters" \in Char /\ "=" \in Char
      BY KeyChars
    <3>5. <<"parameters", "=">> \in Seq(Char)
      BY <3>4, PairType
    <3> QED BY <3>2, <3>3, <3>5, ConcatIs
  <2> QED BY <2>1, <2>2, KeysAre
<1> QED BY <1>1, <1>2

LEMMA UrlStarts ==
  ASSUME NEW v, VisitTyped(v)
  PROVE  HeadOK(v, <<>>, Query(v))
<1> DEFINE q == Query(v)
<1>1. q \in Seq(Char) /\ <<>> \in Seq(QueryParam)
  BY QueryType, EmptySeq
<1>2. \A f \in Forms5 \ {"ap"} : JsonHead(v, f, <<>>, q)
  BY DEF JsonHead
<1> HIDE DEF q
<1>3. \A t1, t2, t3 : APHead(<<>>, q, t1, t2, t3, q)
  BY DEF APHead
<1> QED BY <1>1, <1>2, <1>3 DEF HeadOK, q

LEMMA AppendIs ==
  /\ \A S : \A s \in Seq(S), a \in S : /\ Append(s, a) \in Seq(S) /\ Append(s, a) # <<>>
                                       /\ s # <<>> => Append(s, a)[1] = s[1]
                                       /\ s = <<>> => Append(s, a)[1] = a
  /\ \A a : Append(<<>>, a) = << a >>
  /\ \A a, b : Append(<< a >>, b) = <<a, b>>
  /\ \A a, b, c : Append(<<a, b>>, c) = <<a, b, c>>
<1>1. \A a : Append(<<>>, a) = << a >>
  OBVIOUS
<1>2. ASSUME NEW a, NEW b PROVE Append(<< a >>, b) = <<a, b>>
  <2> DEFINE S == {a, b}
        x == << a >>
        z == <<a, b>>
  <2>1. x \in Seq(S) /\ z \in Seq(S) /\ Len(x) = 1 /\ Len(z) = 2 /\ x[1] = a /\ z[1] = a /\ z[2] = b /\ b \in S
    OBVIOUS
  <2> HIDE DEF S, x, z
  <2>2. Append(x, b) \in Seq(S) /\ Len(Append(x, b)) = Len(x) + 1 /\ Append(x, b)[Len(x) + 1] = b
        /\ \A i \in 1..Len(x) : Append(x, b)[i] = x[i]
    <3>1. x \in Seq(S) /\ b \in S
      BY <2>1
    <3> QED BY <3>1, AppendProperties
  <2>3. Len(Append(x, b)) = 2 /\ Append(x, b)[1] = a /\ Append(x, b)[2] = b
    BY <2>1, <2>2
  <2>4. Append(x, b) = z
    BY <2>1, <2>2, <2>3, SeqEqual
  <2> QED BY <2>4 DEF x, z
<1>3. ASSUME NEW a, NEW b, NEW c PROVE Append(<<a, b>>, c) = <<a, b, c>>
  <2> DEFINE S == {a, b, c}
        x == <<a, b>>
        z == <<a, b, c>>
  <2>1. /\ x \in Seq(S) /\ z \in Seq(S) /\ Len(x) = 2 /\ Len(z) = 3 /\ x[1] = a /\ x[2] = b /\ z[1] = a /\ z[2] = b
        /\ z[3] = c /\ c \in S
    OBVIOUS
  <2> HIDE DEF S, x, z
  <2>2. Append(x, c) \in Seq(S) /\ Len(Append(x, c)) = Len(x) + 1 /\ Append(x, c)[Len(x) + 1] = c
        /\ \A i \in 1..Len(x) : Append(x, c)[i] = x[i]
    <3>1. x \in Seq(S) /\ c \in S
      BY <2>1
    <3> QED BY <3>1, AppendProperties
  <2>3. Len(Append(x, c)) = 3 /\ Append(x, c)[1] = a /\ Append(x, c)[2] = b /\ Append(x, c)[3] = c
    BY <2>1, <2>2
  <2>4. Append(x, c) = z
    BY <2>1, <2>2, <2>3, SeqEqual
  <2> QED BY <2>4 DEF x, z
<1>4. ASSUME NEW S, NEW s \in Seq(S), NEW a \in S
      PROVE  Append(s, a) \in Seq(S) /\ Append(s, a) # <<>> /\ (s # <<>> => Append(s, a)[1] = s[1])
             /\ (s = <<>> => Append(s, a)[1] = a)
  <2>1. Append(s, a) \in Seq(S) /\ Len(Append(s, a)) = Len(s) + 1 /\ Append(s, a)[Len(s) + 1] = a
        /\ \A i \in 1..Len(s) : Append(s, a)[i] = s[i]
    BY AppendProperties
  <2>2. Len(s) \in Nat /\ (s = <<>> => Len(s) = 0) /\ (s # <<>> => Len(s) > 0)
    BY LenProperties, EmptySeq
  <2> DEFINE r == Append(s, a)
  <2> HIDE DEF r
  <2>3. r \in Seq(S) /\ Len(r) = Len(s) + 1 /\ r[Len(s) + 1] = a /\ \A i \in 1..Len(s) : r[i] = s[i]
    BY <2>1 DEF r
  <2>4. r # <<>>
    BY <2>2, <2>3, EmptySeq
  <2>5. s # <<>> => r[1] = s[1]
    BY <2>2, <2>3
  <2>6. s = <<>> => r[1] = a
    <3> SUFFICES ASSUME s = <<>> PROVE r[1] = a
      OBVIOUS
    <3>1. Len(s) + 1 = 1
      BY <2>2
    <3> QED BY <2>3, <3>1
  <2> QED BY <2>3, <2>4, <2>5, <2>6 DEF r
<1> QED BY <1>1, <1>2, <1>3, <1>4

LEMMA JsonStep ==
  ASSUME NEW v, VisitTyped(v), NEW f \in Forms5 \ {"ap"}, v.path = Routes[FormRoute[f]].uri, NEW Q, NEW rest,
         JsonHead(v, f, Q, rest), rest # <<>>
  PROVE  JsonHead(v, f, Append(Q, TurnOf(rest)), TurnLeaves(rest))
<1> DEFINE json == Json(FormKeys[f], v.typed)
<1>1. Q = <<>> /\ rest = Query(v)
  BY DEF JsonHead
<1>2. Query(v) = <<"parameters", "=">> \o Encode(json)
  BY JsonQuery
<1>3. json \in Seq(Char)
  BY TypedOf
<1> HIDE DEF json
<1>4. Encode(json) \in Seq(Char \ {"&"}) /\ urlDecode(Encode(json)) = json
  <2>1. Encode(json) \in Seq(Char \ {"&", "="}) /\ Char \ {"&", "="} \subseteq Char \ {"&"}
    BY <1>3, EncodeType
  <2> QED BY <1>3, <2>1, SeqMonotonic, EncodeDecode
<1>5. "parameters" \in Char \ {"&", "=", "%", "+"} /\ <<>> \in Seq(Char)
  BY KeyChars, EmptySeq
<1> DEFINE e == Encode(json)
      s == <<"parameters", "=">> \o e
<1>6. e \in Seq(Char \ {"&"})
  BY <1>4
<1> HIDE DEF e
<1>7. TurnOf(s) = Parameter(<<"parameters">>, urlDecode(e), "query") /\ TurnLeaves(s) = <<>>
  BY <1>5, <1>6, TurnIs
<1>8. rest = s
  BY <1>1, <1>2 DEF e
<1> HIDE DEF s
<1>9. TurnOf(rest) = UrlParam("parameters", json) /\ TurnLeaves(rest) = <<>>
  BY <1>4, <1>7, <1>8 DEF e, UrlParam
<1>10. Append(Q, TurnOf(rest)) = << UrlParam("parameters", json) >>
  BY <1>1, <1>9, AppendIs
<1> QED BY <1>9, <1>10 DEF JsonHead, json

LEMMA APStep ==
  ASSUME NEW v, VisitTyped(v), v.path = <<"applyAP">>, NEW Q \in Seq(QueryParam), NEW rest \in Seq(Char), rest # <<>>,
         APHead(Q, rest, v.typed["txtaplan"], v.typed["txtssid"], Pass(v), Query(v))
  PROVE  APHead(Append(Q, TurnOf(rest)), TurnLeaves(rest),
                v.typed["txtaplan"], v.typed["txtssid"], Pass(v), Query(v))
<1> DEFINE t1 == v.typed["txtaplan"]
      t2 == v.typed["txtssid"]
      t3 == Pass(v)
      P1 == UrlParam("txtaplan", t1)
      P2 == UrlParam("txtssid", t2)
      P3 == UrlParam("txtpass", t3)
      u1 == UrlPair("txtaplan", t1)
      u2 == UrlPair("txtssid", t2)
      u3 == UrlPair("txtpass", t3)
      A == <<"&">>
      T == TurnOf(rest)
      L == TurnLeaves(rest)
<1>1. t1 \in Seq(Char) /\ t2 \in Seq(Char) /\ t3 \in Seq(Char)
  BY TypedOf, APKeysAre, StrippedType DEF Pass
<1>2. "txtaplan" \in AllKeys /\ "txtssid" \in AllKeys /\ "txtpass" \in AllKeys
  BY APKeysAre, FormsAre, ListsAre DEF Forms5
<1>3. T \in QueryParam /\ L \in Seq(Char)
  BY TurnType
\* A pair as a turn reads it.
<1>4. ASSUME NEW k \in AllKeys, NEW t \in Seq(Clean), NEW z \in Seq(Char)
      PROVE  /\ UrlPair(k, t) \in Seq(Char)
             /\ TurnOf(UrlPair(k, t)) = UrlParam(k, t) /\ TurnLeaves(UrlPair(k, t)) = <<>>
             /\ TurnOf(UrlPair(k, t) \o (A \o z)) = UrlParam(k, t) /\ TurnLeaves(UrlPair(k, t) \o (A \o z)) = z
  <2>1. t \in Seq(Char)
    <3>1. Clean \subseteq Char
      BY DEF Clean
    <3> QED BY <3>1, SeqMonotonic
  <2>2. Escape(t) \in Seq(Char \ {"&"}) /\ urlDecode(Escape(t)) = t /\ UrlPair(k, t) \in Seq(Char)
    BY <2>1, UrlPairType
  <2> DEFINE e == Escape(t)
        s == <<k, "=">> \o e
  <2>3. e \in Seq(Char \ {"&"}) /\ k \in Char \ {"&", "=", "%", "+"}
    BY <2>2, KeyChars
  <2> HIDE DEF e
  <2>4. TurnOf(s) = Parameter(<< k >>, urlDecode(e), "query") /\ TurnLeaves(s) = <<>>
        /\ TurnOf(s \o (A \o z)) = Parameter(<< k >>, urlDecode(e), "query") /\ TurnLeaves(s \o (A \o z)) = z
    BY <2>3, TurnIs
  <2>5. s = UrlPair(k, t)
    BY DEF UrlPair, e
  <2> HIDE DEF s
  <2> QED BY <2>2, <2>4, <2>5 DEF UrlParam, e
<1>5. ASSUME t1 \in Seq(Clean), Q = <<>>, rest = Query(v)
      PROVE  T = P1
  <2>1. PICK y \in Seq(Char) : Query(v) = u1 \o (A \o y)
    BY <1>5, TypedOf, APQuery
  <2>2. TurnOf(u1 \o (A \o y)) = P1
    BY <1>2, <1>4, <1>5
  <2> QED BY <1>5, <2>1, <2>2
<1>6. ASSUME t1 \in Seq(Clean)
      PROVE  Append(Q, T) # <<>> /\ Append(Q, T)[1] = P1
  <2>1. (Q = <<>> /\ rest = Query(v)) \/ (Q # <<>> /\ Q[1] = P1)
    BY <1>6 DEF APHead
  <2> HIDE DEF T, P1
  <2> QED BY <1>3, <1>5, <1>6, <2>1, AppendIs
<1>7. ASSUME t1 \in Seq(Clean), t2 \in Seq(Clean), t3 \in Seq(Clean)
      PROVE  \/ Append(Q, T) = << P1 >> /\ L = u2 \o (A \o u3)
             \/ Append(Q, T) = <<P1, P2>> /\ L = u3
             \/ Append(Q, T) = <<P1, P2, P3>> /\ L = <<>>
  <2>1. \/ Q = <<>> /\ rest = Query(v)
        \/ Q = << P1 >> /\ rest = u2 \o (A \o u3)
        \/ Q = <<P1, P2>> /\ rest = u3
        \/ Q = <<P1, P2, P3>> /\ rest = <<>>
    BY <1>7 DEF APHead
  <2>0. <<>> \in Seq(Char)
    BY EmptySeq
  <2>2. u2 \in Seq(Char) /\ u3 \in Seq(Char)
    BY <1>2, <1>4, <1>7, <2>0
  <2>3. CASE Q = <<>> /\ rest = Query(v)
    <3> DEFINE y == u2 \o (A \o u3)
    <3>1. y \in Seq(Char) /\ Query(v) = u1 \o (A \o y)
      <4>1. Query(v) = u1 \o (A \o y)
        BY <1>7, TypedOf, APQuery
      <4>2. "&" \in Char
        BY KeyChars
      <4>3. A \o u3 \in Seq(Char)
        BY <2>2, <4>2, OneBefore
      <4>4. y \in Seq(Char)
        BY <2>2, <4>3, ConcatIs
      <4> QED BY <4>1, <4>4
    <3> HIDE DEF y
    <3>2. TurnOf(u1 \o (A \o y)) = P1 /\ TurnLeaves(u1 \o (A \o y)) = y
      BY <1>2, <1>4, <1>7, <3>1
    <3>3. T = P1 /\ L = y
      BY <2>3, <3>1, <3>2
    <3>4. Append(Q, T) = << P1 >>
      BY <2>3, <3>3, AppendIs
    <3> QED BY <3>3, <3>4 DEF y
  <2>4. CASE Q = << P1 >> /\ rest = u2 \o (A \o u3)
    <3>1. TurnOf(u2 \o (A \o u3)) = P2 /\ TurnLeaves(u2 \o (A \o u3)) = u3
      BY <1>2, <1>4, <1>7, <2>2
    <3>2. T = P2 /\ L = u3
      BY <2>4, <3>1
    <3>3. Append(Q, T) = <<P1, P2>>
      BY <2>4, <3>2, AppendIs
    <3> QED BY <3>2, <3>3
  <2>5. CASE Q = <<P1, P2>> /\ rest = u3
    <3>1. TurnOf(u3) = P3 /\ TurnLeaves(u3) = <<>>
      BY <1>2, <1>4, <1>7, <2>0
    <3>2. T = P3 /\ L = <<>>
      BY <2>5, <3>1
    <3>3. Append(Q, T) = <<P1, P2, P3>>
      BY <2>5, <3>2, AppendIs
    <3> QED BY <3>2, <3>3
  <2> QED BY <2>1, <2>3, <2>4, <2>5
<1> QED BY <1>6, <1>7 DEF APHead

LEMMA UrlStep ==
  ASSUME NEW v, VisitTyped(v), NEW Q, NEW rest, HeadOK(v, Q, rest), rest # <<>>
  PROVE  HeadOK(v, Append(Q, TurnOf(rest)), TurnLeaves(rest))
<1>1. Q \in Seq(QueryParam) /\ rest \in Seq(Char)
  BY DEF HeadOK
<1>2. Append(Q, TurnOf(rest)) \in Seq(QueryParam) /\ TurnLeaves(rest) \in Seq(Char)
  BY <1>1, TurnType, AppendIs
<1>3. ASSUME NEW f \in Forms5 \ {"ap"}, v.path = Routes[FormRoute[f]].uri
      PROVE  JsonHead(v, f, Append(Q, TurnOf(rest)), TurnLeaves(rest))
  BY <1>3, JsonStep DEF HeadOK
<1>4. ASSUME v.path = <<"applyAP">>
      PROVE  APHead(Append(Q, TurnOf(rest)), TurnLeaves(rest),
                    v.typed["txtaplan"], v.typed["txtssid"], Pass(v), Query(v))
  BY <1>1, <1>4, APStep DEF HeadOK
<1> QED BY <1>2, <1>3, <1>4 DEF HeadOK

\* The parameters of a whole url.
LEMMA UrlEnds ==
  ASSUME NEW v, VisitTyped(v), NEW Q, HeadOK(v, Q, <<>>)
  PROVE  LET t1 == v.typed["txtaplan"]
             t2 == v.typed["txtssid"]
             t3 == Pass(v)
         IN  /\ Q \in Seq(QueryParam)
             /\ \A f \in Forms5 \ {"ap"} : v.path = Routes[FormRoute[f]].uri =>
                  Q = << UrlParam("parameters", Json(FormKeys[f], v.typed)) >>
             /\ v.path = <<"applyAP">> =>
                  /\ t1 \in Seq(Clean) => Q # <<>> /\ Q[1] = UrlParam("txtaplan", t1)
                  /\ t1 \in Seq(Clean) /\ t2 \in Seq(Clean) /\ t3 \in Seq(Clean) =>
                       Q = <<UrlParam("txtaplan", t1), UrlParam("txtssid", t2), UrlParam("txtpass", t3)>>
<1> DEFINE t1 == v.typed["txtaplan"]
      t2 == v.typed["txtssid"]
      t3 == Pass(v)
\* A pair is not empty, and nothing that goes on with one.
<1>1. \A a, b : \A e \in Seq(Char) : a \in Char /\ b \in Char => <<a, b>> \o e # <<>>
  <2> SUFFICES ASSUME NEW a \in Char, NEW b \in Char, NEW e \in Seq(Char) PROVE <<a, b>> \o e # <<>>
    OBVIOUS
  <2> DEFINE s == <<a, b>>
  <2>1. s \in Seq(Char) /\ s # <<>>
    OBVIOUS
  <2> HIDE DEF s
  <2>2. s \o e # <<>>
    BY <2>1, Peel
  <2> QED BY <2>2 DEF s
<1>2. ASSUME NEW f \in Forms5 \ {"ap"}, v.path = Routes[FormRoute[f]].uri
      PROVE  Q = << UrlParam("parameters", Json(FormKeys[f], v.typed)) >>
  <2>1. Query(v) = <<"parameters", "=">> \o Encode(Json(FormKeys[f], v.typed))
    BY <1>2, JsonQuery
  <2>2. Encode(Json(FormKeys[f], v.typed)) \in Seq(Char) /\ "parameters" \in Char /\ "=" \in Char
    BY <1>2, TypedOf, EncodeType, KeyChars
  <2>3. Query(v) # <<>>
    BY <1>1, <2>1, <2>2
  <2> QED BY <1>2, <2>3 DEF HeadOK, JsonHead
<1>3. ASSUME v.path = <<"applyAP">>
      PROVE  /\ t1 \in Seq(Clean) => Q # <<>> /\ Q[1] = UrlParam("txtaplan", t1)
             /\ t1 \in Seq(Clean) /\ t2 \in Seq(Clean) /\ t3 \in Seq(Clean) =>
                  Q = <<UrlParam("txtaplan", t1), UrlParam("txtssid", t2), UrlParam("txtpass", t3)>>
  <2>1. t1 \in Seq(Char) /\ t2 \in Seq(Char) /\ t3 \in Seq(Char)
    BY <1>3, TypedOf, APKeysAre, StrippedType DEF Pass
  <2>2. \A k \in ToSet(APKeys), t \in Seq(Char) : UrlPair(k, t) \in Seq(Char) /\ UrlPair(k, t) # <<>>
    <3> TAKE k \in ToSet(APKeys), t \in Seq(Char)
    <3>1. k \in AllKeys
      BY FormsAre, ListsAre DEF Forms5
    <3>2. k \in Char /\ "=" \in Char /\ {"%", "2", "0"} \subseteq Char
      BY <3>1, KeyChars
    <3>3. Escape(t) \in Seq(Char)
      BY <3>2, EscapeType
    <3>4. <<k, "=">> \o Escape(t) # <<>>
      BY <1>1, <3>2, <3>3
    <3> QED BY <3>1, <3>4, UrlPairType DEF UrlPair
  <2>3. \A k \in ToSet(APKeys), t \in Seq(Char), y \in Seq(Char) : UrlPair(k, t) \o (<<"&">> \o y) # <<>>
    <3> TAKE k \in ToSet(APKeys), t \in Seq(Char), y \in Seq(Char)
    <3>1. <<"&">> \o y \in Seq(Char)
      BY KeyChars, OneBefore
    <3> DEFINE a == UrlPair(k, t)
          b == <<"&">> \o y
    <3>2. a \in Seq(Char) /\ a # <<>> /\ b \in Seq(Char)
      BY <2>2, <3>1
    <3> HIDE DEF a, b
    <3>3. a \o b # <<>>
      BY <3>2, Peel
    <3> QED BY <3>3 DEF a, b
  <2>4. APHead(Q, <<>>, t1, t2, t3, Query(v))
    BY <1>3 DEF HeadOK
  <2>5. "txtaplan" \in ToSet(APKeys) /\ "txtssid" \in ToSet(APKeys) /\ "txtpass" \in ToSet(APKeys)
    BY APKeysAre
  <2>6. t1 \in Seq(Clean) => Query(v) # <<>>
    <3> SUFFICES ASSUME t1 \in Seq(Clean) PROVE Query(v) # <<>>
      OBVIOUS
    <3>1. PICK y \in Seq(Char) : Query(v) = UrlPair("txtaplan", t1) \o (<<"&">> \o y)
      BY <1>3, TypedOf, APQuery
    <3> QED BY <2>1, <2>3, <2>5, <3>1
  <2>7. UrlPair("txtssid", t2) \o (<<"&">> \o UrlPair("txtpass", t3)) # <<>> /\ UrlPair("txtpass", t3) # <<>>
    BY <2>1, <2>2, <2>3, <2>5
  <2> HIDE DEF t1, t2, t3
  <2> QED BY <2>4, <2>6, <2>7 DEF APHead
<1> QED BY <1>2, <1>3 DEF HeadOK

-----------------------------------------------------------------------------
(* The parameters the handlers look for.                                   *)

\* Those of the url, Q, come before those of the body.
UrlGives(p, Q) == \E r \in Seq(BodyParam) : p.params = Q \o r

LEMMA NamedAre ==
  ASSUME NEW Q \in Seq(QueryParam), UrlGives(parser, Q)
  PROVE  /\ \A i \in 1..Len(Q) : parser.params[i] = Q[i] /\ Q[i] \in QueryParam
         /\ \A name : Named(name) = {i \in 1..Len(Q) : Q[i].name = << name >>}
<1>1. PICK r \in Seq(BodyParam) : parser.params = Q \o r
  BY DEF UrlGives
<1> DEFINE P == Q \o r
      S == QueryParam \union BodyParam
<1>2. Q \in Seq(S) /\ r \in Seq(S)
  BY SeqMonotonic
<1>3. /\ P \in Seq(S) /\ Len(P) = Len(Q) + Len(r)
      /\ \A i \in 1..Len(Q) : P[i] = Q[i]
      /\ \A i \in 1..Len(r) : P[Len(Q) + i] = r[i]
  BY <1>2, ConcatIs
<1>4. \A i \in 1..Len(Q) : Q[i] \in QueryParam
  BY ElementOfSeq
<1>5. \A i \in 1..Len(r) : r[i] \in BodyParam
  BY ElementOfSeq
<1>6. Len(Q) \in Nat /\ Len(r) \in Nat
  BY LenProperties
<1> HIDE DEF P, S
<1>7. DOMAIN P = 1..(Len(Q) + Len(r))
  BY <1>3, LenProperties
<1>8. \A i \in 1..Len(Q) : Q[i].kind = "query"
  BY <1>4 DEF QueryParam
<1>9. \A i \in 1..Len(r) : r[i].kind # "query"
  BY <1>5 DEF BodyParam
<1>10. \A i \in DOMAIN P : P[i].kind = "query" => i \in 1..Len(Q)
  <2> SUFFICES ASSUME NEW i \in DOMAIN P, i \notin 1..Len(Q) PROVE P[i].kind # "query"
    OBVIOUS
  <2>1. i - Len(Q) \in 1..Len(r) /\ Len(Q) + (i - Len(Q)) = i
    BY <1>6, <1>7
  <2>2. P[Len(Q) + (i - Len(Q))] = r[i - Len(Q)]
    BY <1>3, <2>1
  <2> QED BY <1>9, <2>1, <2>2
<1>11. ASSUME NEW name PROVE {i \in DOMAIN P : P[i].name = << name >> /\ P[i].kind = "query"}
                             = {i \in 1..Len(Q) : Q[i].name = << name >>}
  <2>1. \A i \in 1..Len(Q) : i \in DOMAIN P /\ P[i] = Q[i]
    BY <1>3, <1>6, <1>7
  <2> QED BY <1>8, <1>10, <2>1
<1>12. parser.params = P
  BY <1>1 DEF P
<1>13. \A name : Named(name) = {i \in 1..Len(Q) : Q[i].name = << name >>}
  BY <1>11, <1>12 DEF Named
<1> QED BY <1>3, <1>4, <1>12, <1>13

LEMMA FirstNamed ==
  ASSUME NEW Q \in Seq(QueryParam), UrlGives(parser, Q), NEW name
  PROVE  /\ Named(name) # {} => getParam(name) \in Seq(Char)
         /\ \A n \in 1..Len(Q) : Q[n].name = << name >> /\ (\A i \in 1..(n - 1) : Q[i].name # << name >>) =>
              getParam(name) = Q[n].value /\ Named(name) # {}
<1> DEFINE N == Named(name)
<1>1. N = {i \in 1..Len(Q) : Q[i].name = << name >>} /\ Len(Q) \in Nat
  BY NamedAre, LenProperties
<1>2. \A i \in 1..Len(Q) : parser.params[i] = Q[i] /\ Q[i] \in QueryParam
  BY NamedAre
<1>3. getParam(name) = parser.params[CHOOSE i \in N : \A j \in N : i <= j].value
  BY DEF getParam
<1> HIDE DEF N
<1>4. N \in SUBSET Nat
  BY <1>1
<1>5. ASSUME N # {} PROVE getParam(name) \in Seq(Char)
  <2>1. \E x \in N : \A y \in N : x <= y
    BY <1>4, <1>5, LeastOf
  <2> DEFINE c == CHOOSE i \in N : \A j \in N : i <= j
  <2>2. c \in N
    BY <2>1
  <2> HIDE DEF c
  <2>3. c \in 1..Len(Q)
    BY <1>1, <2>2
  <2>4. parser.params[c].value \in Seq(Char)
    BY <1>2, <2>3 DEF QueryParam
  <2> QED BY <1>3, <2>4 DEF c
<1>6. ASSUME NEW n \in 1..Len(Q), Q[n].name = << name >>, \A i \in 1..(n - 1) : Q[i].name # << name >>
      PROVE  getParam(name) = Q[n].value /\ N # {}
  <2>1. n \in N
    BY <1>1, <1>6
  <2>2. \A j \in N : n <= j
    BY <1>1, <1>6
  <2>3. (CHOOSE i \in N : \A j \in N : i <= j) = n
    <3> DEFINE c == CHOOSE i \in N : \A j \in N : i <= j
    <3>1. c \in N /\ \A j \in N : c <= j
      BY <2>1, <2>2
    <3> HIDE DEF c
    <3>2. c <= n /\ n <= c /\ c \in Nat /\ n \in Nat
      BY <1>4, <2>1, <2>2, <3>1
    <3>3. c = n
      BY <3>2
    <3> QED BY <3>3 DEF c
  <2> QED BY <1>2, <1>3, <2>1, <2>3
<1> QED BY <1>5, <1>6 DEF N

LEMMA UrlParamIs ==
  \A k, t : UrlParam(k, t).name = << k >> /\ UrlParam(k, t).value = t /\ UrlParam(k, t).kind = "query"
BY DEF UrlParam, Parameter

LEMMA SinglesDiffer == \A a, b : << a >> = << b >> => a = b
<1> SUFFICES ASSUME NEW a, NEW b, << a >> = << b >> PROVE a = b
  OBVIOUS
<1>1. << a >>[1] = a /\ << b >>[1] = b
  BY Firsts
<1> QED BY <1>1

\* The one parameter of a form of JSON.
LEMMA JsonGiven ==
  ASSUME NEW json, << UrlParam("parameters", json) >> \in Seq(QueryParam),
         UrlGives(parser, << UrlParam("parameters", json) >>)
  PROVE  getParam("parameters") = json
<1> DEFINE a == UrlParam("parameters", json)
      Q == << a >>
<1>1. a.name = <<"parameters">> /\ a.value = json
  BY UrlParamIs
<1> HIDE DEF a
<1>2. Len(Q) = 1 /\ Q[1] = a
  OBVIOUS
<1>3. Q \in Seq(QueryParam) /\ UrlGives(parser, Q)
  BY DEF a
<1> HIDE DEF Q
<1>4. 1 \in 1..Len(Q) /\ Q[1].name = <<"parameters">> /\ \A i \in 1..(1 - 1) : Q[i].name # <<"parameters">>
  BY <1>1, <1>2
<1>5. getParam("parameters") = Q[1].value
  BY <1>3, <1>4, FirstNamed
<1> QED BY <1>1, <1>2, <1>5

\* The first of the access point's page, and all three.
LEMMA APGiven ==
  ASSUME NEW Q \in Seq(QueryParam), UrlGives(parser, Q)
  PROVE  /\ \A t1 : Q # <<>> /\ Q[1] = UrlParam("txtaplan", t1) => getParam("txtaplan") = t1
         /\ \A t1, t2, t3 : Q = <<UrlParam("txtaplan", t1), UrlParam("txtssid", t2), UrlParam("txtpass", t3)>> =>
              getParam("txtaplan") = t1 /\ getParam("txtssid") = t2 /\ getParam("txtpass") = t3
<1>1. Len(Q) \in Nat /\ (Q # <<>> => Len(Q) > 0)
  BY LenProperties, EmptySeq
<1>2. ASSUME NEW t1, Q # <<>>, Q[1] = UrlParam("txtaplan", t1) PROVE getParam("txtaplan") = t1
  <2> DEFINE a == UrlParam("txtaplan", t1)
  <2>1. a.name = <<"txtaplan">> /\ a.value = t1
    BY UrlParamIs
  <2> HIDE DEF a
  <2>2. Q[1] = a /\ 1 \in 1..Len(Q)
    BY <1>1, <1>2 DEF a
  <2>3. 1 \in 1..Len(Q) /\ Q[1].name = <<"txtaplan">> /\ \A i \in 1..(1 - 1) : Q[i].name # <<"txtaplan">>
    BY <2>1, <2>2
  <2>4. getParam("txtaplan") = Q[1].value
    BY <2>3, FirstNamed
  <2> QED BY <2>1, <2>2, <2>4
<1>3. ASSUME NEW t1, NEW t2, NEW t3,
             Q = <<UrlParam("txtaplan", t1), UrlParam("txtssid", t2), UrlParam("txtpass", t3)>>
      PROVE  getParam("txtaplan") = t1 /\ getParam("txtssid") = t2 /\ getParam("txtpass") = t3
  <2> DEFINE a == UrlParam("txtaplan", t1)
        b == UrlParam("txtssid", t2)
        c == UrlParam("txtpass", t3)
  <2>1. a.name = <<"txtaplan">> /\ a.value = t1 /\ b.name = <<"txtssid">> /\ b.value = t2
        /\ c.name = <<"txtpass">> /\ c.value = t3
    BY UrlParamIs
  <2>2. <<"txtaplan">> # <<"txtssid">> /\ <<"txtaplan">> # <<"txtpass">> /\ <<"txtssid">> # <<"txtpass">>
    BY SinglesDiffer
  <2> HIDE DEF a, b, c
  <2>3. Q = <<a, b, c>>
    BY <1>3 DEF a, b, c
  <2>4. Len(Q) = 3 /\ Q[1] = a /\ Q[2] = b /\ Q[3] = c
    BY <2>3, ThreeIs
  <2>5. 2 - 1 = 1 /\ 3 - 1 = 2
    OBVIOUS
  <2>6. getParam("txtaplan") = Q[1].value
    <3>1. 1 \in 1..Len(Q) /\ Q[1].name = <<"txtaplan">> /\ \A i \in 1..(1 - 1) : Q[i].name # <<"txtaplan">>
      BY <2>1, <2>4
    <3> QED BY <3>1, FirstNamed
  <2>7. getParam("txtssid") = Q[2].value
    <3>1. 2 \in 1..Len(Q) /\ Q[2].name = <<"txtssid">> /\ \A i \in 1..(2 - 1) : Q[i].name # <<"txtssid">>
      BY <2>1, <2>2, <2>4
    <3> QED BY <3>1, FirstNamed
  <2>8. getParam("txtpass") = Q[3].value
    <3>1. 3 \in 1..Len(Q) /\ Q[3].name = <<"txtpass">> /\ \A i \in 1..(3 - 1) : Q[i].name # <<"txtpass">>
      BY <2>1, <2>2, <2>4
    <3> QED BY <3>1, FirstNamed
  <2> QED BY <2>1, <2>4, <2>6, <2>7, <2>8
<1> QED BY <1>2, <1>3

\* A member of the form's JSON is what was typed.
LEMMA MemberIs ==
  ASSUME NEW f \in Forms5, NEW typed, Typed(FormKeys[f], typed), NEW k \in ToSet(FormKeys[f]),
         getParam("parameters") = Json(FormKeys[f], typed)
  PROVE  Member(f, k) = typed[k]
<1> DEFINE keys == FormKeys[f]
<1>1. PICK n \in DOMAIN keys : keys[n] = k
  BY DEF ToSet
<1>2. keys \in Seq(Char) /\ Distinct(keys)
  BY ListsAre
<1>3. Typed(keys, typed)
  OBVIOUS
<1>4. Member(f, k) = Text(getParam("parameters"), k, ToSet(keys))
  BY DEF Member, Text
<1>5. Member(f, k) = Text(Json(keys, typed), k, ToSet(keys))
  BY <1>4
<1> HIDE DEF keys
<1>6. Text(Json(keys, typed), keys[n], ToSet(keys)) = typed[keys[n]]
  BY <1>2, <1>3, MemberOf
<1> QED BY <1>1, <1>5, <1>6

-----------------------------------------------------------------------------
(* What JSON makes of a text.                                              *)

\* Some member of a finite set has n smaller ones, for each n there is room for.
LEMMA Ranked ==
  ASSUME NEW K \in SUBSET Nat, IsFiniteSet(K)
  PROVE  \A n \in 1..Cardinality(K) : \E i \in K : Cardinality({j \in K : j < i}) = n - 1
<1> DEFINE Below(i) == {j \in K : j < i}
      T == {n \in Nat : n + 1 <= Cardinality(K) => \E i \in K : Cardinality(Below(i)) = n}
<1>1. Cardinality(K) \in Nat
  BY FS_CardinalityType
<1>0. \A j \in K : j \in Nat
  OBVIOUS
<1>2. \A i : IsFiniteSet(Below(i)) /\ Cardinality(Below(i)) \in Nat
  <2> TAKE i
  <2>1. Below(i) \subseteq K
    OBVIOUS
  <2> QED BY <2>1, FS_Subset, FS_CardinalityType
<1>3. 0 \in T
  <2> SUFFICES ASSUME 0 + 1 <= Cardinality(K) PROVE \E i \in K : Cardinality(Below(i)) = 0
    BY <1>1
  <2>1. K # {}
    BY FS_EmptySet
  <2>2. PICK i \in K : \A j \in K : i <= j
    BY <2>1, LeastOf
  <2>3. Below(i) = {}
    <3>1. \A j \in K : ~(j < i)
      BY <1>0, <2>2
    <3> QED BY <3>1
  <2> QED BY <2>3, FS_EmptySet
<1>4. ASSUME NEW n \in Nat, n \in T PROVE n + 1 \in T
  <2> SUFFICES ASSUME n + 1 + 1 <= Cardinality(K) PROVE \E i \in K : Cardinality(Below(i)) = n + 1
    BY <1>4
  <2>1. PICK i \in K : Cardinality(Below(i)) = n
    BY <1>1, <1>4
  <2> DEFINE B == Below(i) \union {i}
        A == {j \in K : j > i}
  <2>2. IsFiniteSet(B) /\ Cardinality(B) = n + 1
    <3>1. i \notin Below(i)
      OBVIOUS
    <3> DEFINE W == Below(i)
    <3>2. IsFiniteSet(W) /\ i \notin W /\ Cardinality(W) = n
      BY <1>2, <2>1, <3>1
    <3> HIDE DEF W
    <3>3. IsFiniteSet(W \union {i}) /\ Cardinality(W \union {i}) = Cardinality(W) + 1
      BY <3>2, FS_AddElement
    <3>4. IsFiniteSet(W \union {i}) /\ Cardinality(W \union {i}) = n + 1
      BY <3>2, <3>3
    <3> QED BY <3>4 DEF W
  <2>3. A # {}
    <3> SUFFICES ASSUME A = {} PROVE FALSE
      OBVIOUS
    <3>0. \A j \in K : ~(j > i)
      OBVIOUS
    <3>1. K = B
      <4>1. \A j \in K : j < i \/ j = i
        BY <1>0, <3>0
      <4> QED BY <4>1
    <3>2. Cardinality(K) = n + 1
      BY <2>2, <3>1
    <3> QED BY <1>4, <3>2
  <2>4. PICK k \in A : \A j \in A : k <= j
    <3>1. A \in SUBSET Nat
      OBVIOUS
    <3> QED BY <2>3, <3>1, LeastOf
  <2>5. k \in K /\ k > i
    BY <2>4
  <2>6. Below(k) = B
    <3>1. \A j \in K : j < k => j < i \/ j = i
      <4> TAKE j \in K
      <4>1. j > i => k <= j
        BY <2>4
      <4> QED BY <1>0, <2>5, <4>1
    <3>2. \A j \in K : j < i \/ j = i => j < k
      BY <1>0, <2>5
    <3> QED BY <3>1, <3>2
  <2> QED BY <2>2, <2>5, <2>6
<1> HIDE DEF T
<1>5. Nat \subseteq T
  BY <1>3, <1>4, Inductive
<1>6. \A n \in 1..Cardinality(K) : \E i \in K : Cardinality(Below(i)) = n - 1
  <2> TAKE n \in 1..Cardinality(K)
  <2>1. n - 1 \in T /\ n - 1 + 1 <= Cardinality(K)
    BY <1>1, <1>5
  <2> QED BY <2>1 DEF T
<1> QED BY <1>6

\* Some characters of a text, and all of them.
LEMMA OnlyType ==
  ASSUME NEW S, NEW m \in Nat, NEW text, NEW K \in SUBSET (1..m), \A i \in K : text[i] \in S
  PROVE  Only(text, K) \in Seq(S) /\ Len(Only(text, K)) <= m
<1> DEFINE at(n) == CHOOSE i \in K : Cardinality({j \in K : j < i}) = n - 1
      c == Cardinality(K)
      o == Only(text, K)
<1>1. IsFiniteSet(K) /\ K \in SUBSET Nat /\ c <= m
  <2>1. IsFiniteSet(1..m) /\ Cardinality(1..m) = m
    BY FS_Interval
  <2>2. IsFiniteSet(K) /\ Cardinality(K) <= Cardinality(1..m)
    BY <2>1, FS_Subset
  <2>3. K \in SUBSET Nat
    OBVIOUS
  <2> QED BY <2>1, <2>2, <2>3
<1>2. c \in Nat
  BY <1>1, FS_CardinalityType
<1>3. o = [n \in 1..c |-> text[at(n)]]
  BY DEF Only
<1>4. \A n \in 1..c : \E i \in K : Cardinality({j \in K : j < i}) = n - 1
  BY <1>1, Ranked
<1>5. \A n \in 1..c : at(n) \in K
  BY <1>4
<1> HIDE DEF at, c, o
<1>6. o = [n \in 1..c |-> o[n]] /\ \A n \in 1..c : o[n] \in S
  BY <1>3, <1>5
<1>7. o \in Seq(S) /\ Len(o) = c
  BY <1>2, <1>6, SeqIs
<1> QED BY <1>1, <1>7 DEF o

LEMMA OnlyAll ==
  ASSUME NEW S, NEW text \in Seq(S)
  PROVE  Only(text, DOMAIN text) = text
<1> DEFINE keep == DOMAIN text
      at(n) == CHOOSE i \in keep : Cardinality({j \in keep : j < i}) = n - 1
<1>1. DOMAIN text = 1..Len(text) /\ Len(text) \in Nat
  BY LenProperties
<1>2. Only(text, keep) = [n \in 1..Cardinality(keep) |-> text[at(n)]]
  BY DEF Only
<1>3. keep = 1..Len(text)
  BY <1>1
<1> HIDE DEF keep
<1>4. Cardinality(keep) = Len(text)
  BY <1>1, <1>3, FS_Interval
<1>5. \A i \in keep : Cardinality({j \in keep : j < i}) = i - 1
  <2> TAKE i \in keep
  <2>1. {j \in keep : j < i} = 1..(i - 1) /\ i - 1 \in Nat
    BY <1>1, <1>3
  <2>2. Cardinality(1..(i - 1)) = i - 1
    <3> DEFINE m == i - 1
    <3> HIDE DEF m
    <3>1. m \in Nat
      BY <2>1 DEF m
    <3>2. Cardinality(1..m) = m
      BY <3>1, FS_Interval
    <3> QED BY <3>2 DEF m
  <2> QED BY <2>1, <2>2
<1>6. \A n \in keep : at(n) = n
  <2> TAKE n \in keep
  <2>1. at(n) \in keep /\ Cardinality({j \in keep : j < at(n)}) = n - 1
    BY <1>5
  <2> HIDE DEF at
  <2>2. Cardinality({j \in keep : j < at(n)}) = at(n) - 1
    BY <1>5, <2>1
  <2>3. at(n) - 1 = n - 1 /\ at(n) \in Int /\ n \in Int
    BY <1>1, <1>3, <2>1, <2>2
  <2> QED BY <2>3
<1> HIDE DEF at
<1>7. \A n \in 1..Len(text) : text[at(n)] = text[n]
  BY <1>3, <1>6
<1>8. Only(text, keep) = [n \in 1..Len(text) |-> text[n]]
  BY <1>2, <1>4, <1>7
<1>9. text = [n \in 1..Len(text) |-> text[n]]
  BY <1>1
<1> QED BY <1>8, <1>9 DEF keep

\* A text that can be read is one of the characters of its own, and of those
\* a backslash makes of others.
LEMMA UnescapedType ==
  ASSUME NEW S, NEW text \in Seq(S), \A c \in DOMAIN Escapes : Escapes[c] \in S, ReadsAsString(text)
  PROVE  Unescaped(text) \in Seq(S)
<1> DEFINE read == [i \in DOMAIN text |-> IF i \in Escaped(text) THEN Escapes[text[i]] ELSE text[i]]
      keep == {i \in DOMAIN text : text[i] # Backslash \/ i \in Escaped(text)}
<1>1. DOMAIN text = 1..Len(text) /\ Len(text) \in Nat
  BY LenProperties
<1>2. \A i \in DOMAIN text : text[i] \in S
  BY <1>1, ElementOfSeq
<1>3. \A i \in Escaped(text) : text[i] \in DOMAIN Escapes
  BY DEF ReadsAsString
<1>4. Unescaped(text) = Only(read, keep)
  BY DEF Unescaped
<1>5. keep \in SUBSET (1..Len(text))
  BY <1>1
<1>6. \A i \in keep : read[i] \in S
  BY <1>2, <1>3
<1> HIDE DEF read, keep
<1> QED BY <1>1, <1>4, <1>5, <1>6, OnlyType

\* A text without a backslash is read as it is.
LEMMA NoBackslash ==
  ASSUME NEW text \in Seq(Char), Backslash \notin ToSet(text)
  PROVE  /\ Unescaped(text) = text
         /\ Quote \notin ToSet(text) => ReadsAsString(text)
<1>1. DOMAIN text = 1..Len(text) /\ Len(text) \in Nat
  BY LenProperties
<1>2. \A i \in DOMAIN text : text[i] # Backslash
  BY DEF ToSet
<1>3. Escaped(text) = {}
  <2> DEFINE E(f) == [i \in DOMAIN text |-> i > 1 /\ text[i - 1] = Backslash /\ ~f[i - 1]]
        none == [i \in DOMAIN text |-> FALSE]
        escaped == CHOOSE f : f = E(f)
  <2>1. \A f : E(f) = none
    <3> TAKE f
    <3>1. \A i \in DOMAIN text : ~(i > 1 /\ text[i - 1] = Backslash /\ ~f[i - 1])
      <4> TAKE i \in DOMAIN text
      <4>1. i > 1 => i - 1 \in DOMAIN text
        BY <1>1
      <4> QED BY <1>2, <4>1
    <3> QED BY <3>1
  <2>2. none = E(none)
    BY <2>1
  <2> HIDE DEF E, none
  <2>3. escaped = E(escaped)
    BY <2>2
  <2>4. escaped = none
    BY <2>1, <2>3
  <2>5. \A i \in DOMAIN text : ~escaped[i]
    BY <2>4 DEF none
  <2>6. Escaped(text) = {i \in DOMAIN text : escaped[i]}
    BY DEF Escaped, E
  <2> HIDE DEF escaped
  <2> QED BY <2>5, <2>6
<1>4. Unescaped(text) = text
  <2> DEFINE read == [i \in DOMAIN text |-> IF i \in Escaped(text) THEN Escapes[text[i]] ELSE text[i]]
        keep == {i \in DOMAIN text : text[i] # Backslash \/ i \in Escaped(text)}
  <2>1. Unescaped(text) = Only(read, keep)
    BY DEF Unescaped
  <2>2. keep = DOMAIN text
    BY <1>2
  <2>3. read = text
    <3>1. read = [i \in DOMAIN text |-> text[i]]
      BY <1>3
    <3>2. text = [i \in DOMAIN text |-> text[i]]
      BY <1>1
    <3> QED BY <3>1, <3>2
  <2> HIDE DEF read, keep
  <2> QED BY <2>1, <2>2, <2>3, OnlyAll
<1>5. ASSUME Quote \notin ToSet(text) PROVE ReadsAsString(text)
  <2>1. \A i \in DOMAIN text : text[i] # Quote
    BY <1>5 DEF ToSet
  <2>2. text # <<>> => Last(text) # Backslash
    <3> SUFFICES ASSUME text # <<>> PROVE Last(text) # Backslash
      OBVIOUS
    <3>1. Len(text) \in DOMAIN text
      BY <1>1, EmptySeq
    <3> QED BY <1>2, <3>1 DEF Last
  <2> QED BY <1>3, <2>1, <2>2 DEF ReadsAsString
<1> QED BY <1>4, <1>5

-----------------------------------------------------------------------------
(* Addresses.                                                              *)

\* The bytes that can be written.
Octets == {n \in 0..255 : \E c \in DOMAIN Number : Number[c] = n}

LEMMA NumbersAre ==
  /\ \A c \in DOMAIN Number : /\ Number[c] \in Int /\ Number[c] % 256 \in Octets /\ c \in Char
                              /\ c # "." /\ c \notin DOMAIN HexDigits /\ c \notin AllKeys
  /\ {0, 1, 4, 168, 192} \subseteq Octets
  /\ \A n \in Octets : n \in 0..255 /\ Digits(n) \in DOMAIN Number /\ Number[Digits(n)] = n
  /\ \A n : (\E c \in DOMAIN Number : Number[c] = n) => Digits(n) \in DOMAIN Number /\ Number[Digits(n)] = n
<1>1. \A c \in DOMAIN Number : Number[c] \in Int
  BY FormsAssumption
<1>2. \A c \in DOMAIN Number : c \in STRING /\ c # "." /\ c \notin DOMAIN HexDigits /\ c \notin AllKeys
  BY FormsAssumption DEF AllKeys, FormFields
<1>3. \A c \in DOMAIN Number : c \in Char
  BY <1>2, CharHas
<1>4. \A n \in {0, 1, 4, 168, 192} \union {Number[c] % 256 : c \in DOMAIN Number} :
         \E c \in DOMAIN Number : Number[c] = n
  BY FormsAssumption
<1>5. \A c \in DOMAIN Number : Number[c] % 256 \in 0..255
  BY <1>1
<1>6. \A c \in DOMAIN Number : Number[c] % 256 \in Octets
  BY <1>4, <1>5 DEF Octets
<1>7. {0, 1, 4, 168, 192} \subseteq Octets
  BY <1>4 DEF Octets
<1>8. \A n : (\E c \in DOMAIN Number : Number[c] = n) => Digits(n) \in DOMAIN Number /\ Number[Digits(n)] = n
  BY DEF Digits
<1>9. \A n \in Octets : n \in 0..255 /\ Digits(n) \in DOMAIN Number /\ Number[Digits(n)] = n
  BY <1>8 DEF Octets
<1> QED BY <1>1, <1>2, <1>3, <1>6, <1>7, <1>8, <1>9

LEMMA StringToIpType ==
  ASSUME NEW text
  PROVE  /\ stringToIp(text).ok \in BOOLEAN
         /\ stringToIp(text).ok => stringToIp(text).ip \in [1..4 -> Octets]
<1>1. \A part : Atoi(part) % 256 \in Octets
  <2> TAKE part
  <2>1. CASE part[1] \in DOMAIN Number
    BY <2>1, NumbersAre DEF Atoi
  <2>2. CASE part[1] \notin DOMAIN Number
    <3>1. Atoi(part) = 0 /\ 0 % 256 = 0 /\ 0 \in Octets
      BY <2>2, NumbersAre DEF Atoi
    <3> QED BY <3>1
  <2> QED BY <2>1, <2>2
<1> DEFINE r == [ok |-> TRUE, ip |-> [n \in 1..4 |-> Atoi(Parts(text)[n]) % 256]]
      e == [ok |-> FALSE, ip |-> <<>>]
<1>2. stringToIp(text) = IF Len(Parts(text)) # 4 THEN e ELSE r
  BY DEF stringToIp
<1>3. r.ok = TRUE /\ r.ip \in [1..4 -> Octets] /\ e.ok = FALSE
  BY <1>1
<1> HIDE DEF r, e
<1> QED BY <1>2, <1>3

\* The parts of an address a user means.
LEMMA PartsAre ==
  ASSUME NEW text \in Seq(Char), Canonical(text)
  PROVE  Len(Parts(text)) = 4 /\ \A n \in 1..4 : Parts(text)[n] = << text[2 * n - 1] >>
<1> DEFINE starts == {i \in DOMAIN text : text[i] # "." /\ (i = 1 \/ text[i - 1] = ".")}
      at(n) == CHOOSE i \in starts : Cardinality({j \in starts : j < i}) = n - 1
      part(n) == SubSeq(text, at(n), at(n) + IndexOf(SubSeq(text, at(n), Len(text)), ".") - 2)
<1>1. Len(text) = 7 /\ DOMAIN text = 1..7
  BY LenProperties DEF Canonical
<1>2. text[2] = "." /\ text[4] = "." /\ text[6] = "."
  BY DEF Canonical
<1>3. text[1] # "." /\ text[3] # "." /\ text[5] # "." /\ text[7] # "."
  BY NumbersAre DEF Canonical
<1>4. \A i : i \in 1..7 <=> i \in {1, 2, 3, 4, 5, 6, 7}
  OBVIOUS
<1>5. starts = {1, 3, 5, 7}
  <2>1. \A i \in starts : i \in {1, 3, 5, 7}
    BY <1>1, <1>2, <1>4
  <2>2. 3 - 1 = 2 /\ 5 - 1 = 4 /\ 7 - 1 = 6
    OBVIOUS
  <2>3. 1 \in starts /\ 3 \in starts /\ 5 \in starts /\ 7 \in starts
    BY <1>1, <1>2, <1>3, <2>2
  <2> QED BY <2>1, <2>3
<1>6. Parts(text) = [n \in 1..Cardinality(starts) |-> part(n)]
  BY DEF Parts
<1> DEFINE s1 == {1}
      s2 == s1 \union {3}
      s3 == s2 \union {5}
      s4 == s3 \union {7}
      below(i) == {j \in starts : j < i}
<1>7. 3 \notin s1 /\ 5 \notin s2 /\ 7 \notin s3 /\ s4 = {1, 3, 5, 7}
  OBVIOUS
<1>8. /\ below(1) = {} /\ below(3) = s1 /\ below(5) = s2 /\ below(7) = s3
  <2>1. \A i : below(i) = {j \in {1, 3, 5, 7} : j < i}
    BY <1>5
  <2>2. {j \in {1, 3, 5, 7} : j < 1} = {}
    OBVIOUS
  <2>3. {j \in {1, 3, 5, 7} : j < 3} = {1}
    OBVIOUS
  <2>4. {j \in {1, 3, 5, 7} : j < 5} = {1} \union {3}
    OBVIOUS
  <2>5. {j \in {1, 3, 5, 7} : j < 7} = ({1} \union {3}) \union {5}
    OBVIOUS
  <2> QED BY <2>1, <2>2, <2>3, <2>4, <2>5
<1>9. /\ Cardinality(below(1)) = 0 /\ Cardinality(below(3)) = 1 /\ Cardinality(below(5)) = 2
      /\ Cardinality(below(7)) = 3 /\ Cardinality(starts) = 4
  <2>1. IsFiniteSet(s1) /\ Cardinality(s1) = 1 /\ Cardinality({}) = 0
    BY FS_Singleton, FS_EmptySet
  <2>2. starts = s4
    BY <1>5, <1>7
  <2> HIDE DEF s1, starts, below
  <2>3. IsFiniteSet(s2) /\ Cardinality(s2) = Cardinality(s1) + 1
    BY <1>7, <2>1, FS_AddElement
  <2> HIDE DEF s2
  <2>4. IsFiniteSet(s3) /\ Cardinality(s3) = Cardinality(s2) + 1
    BY <1>7, <2>3, FS_AddElement
  <2> HIDE DEF s3
  <2>5. Cardinality(s4) = Cardinality(s3) + 1
    BY <1>7, <2>4, FS_AddElement
  <2> HIDE DEF s4
  <2> QED BY <1>8, <2>1, <2>2, <2>3, <2>4, <2>5, SMTT(30)
<1> HIDE DEF below, s1, s2, s3, s4
<1>10. \A n \in 1..4 : at(n) = 2 * n - 1
  <2> TAKE n \in 1..4
  <2> DEFINE c(i) == Cardinality(below(i))
  <2>1. at(n) = CHOOSE i \in starts : c(i) = n - 1
    BY DEF below
  <2>2. c(1) = 0 /\ c(3) = 1 /\ c(5) = 2 /\ c(7) = 3
    BY <1>9
  <2> HIDE DEF c, at, starts
  <2>3. 2 * n - 1 \in {1, 3, 5, 7} /\ c(2 * n - 1) = n - 1
    <3>1. n = 1 \/ n = 2 \/ n = 3 \/ n = 4
      OBVIOUS
    <3>2. 2 * 1 - 1 = 1 /\ 2 * 2 - 1 = 3 /\ 2 * 3 - 1 = 5 /\ 2 * 4 - 1 = 7
      OBVIOUS
    <3> QED BY <2>2, <3>1, <3>2
  <2>4. \A i \in starts : c(i) = n - 1 => i = 2 * n - 1
    <3> SUFFICES ASSUME NEW i \in starts, c(i) = n - 1 PROVE i = 2 * n - 1
      OBVIOUS
    <3>1. i = 1 \/ i = 3 \/ i = 5 \/ i = 7
      BY <1>5
    <3> QED BY <2>2, <3>1
  <2>5. at(n) \in starts /\ c(at(n)) = n - 1
    BY <1>5, <2>1, <2>3
  <2> QED BY <2>4, <2>5
<1>11. \A n \in 1..4 : part(n) = << text[2 * n - 1] >>
  <2> TAKE n \in 1..4
  <2> DEFINE a == 2 * n - 2
        s == SubSeq(text, at(n), Len(text))
  <2>0. a \in {0, 2, 4, 6}
    BY SMT
  <2>1. at(n) = a + 1 /\ a \in 0..6
    <3> HIDE DEF at
    <3>1. at(n) = 2 * n - 1 /\ 2 * n - 1 = a + 1
      BY <1>10
    <3> HIDE DEF a
    <3> QED BY <2>0, <3>1
  <2>11. a + 1 = 2 * n - 1
    BY DEF a
  <2> HIDE DEF at, a
  <2>2. s = From(a, text)
    BY <2>1 DEF From
  <2>3. s \in Seq(Char) /\ Len(s) = 7 - a /\ \A i \in 1..(7 - a) : s[i] = text[a + i]
    <3>1. a \in 0..Len(text)
      BY <1>1, <2>1
    <3>2. From(a, text) \in Seq(Char) /\ Len(From(a, text)) = Len(text) - a
          /\ \A i \in 1..(Len(text) - a) : From(a, text)[i] = text[a + i]
      BY <3>1, FirstFrom
    <3> QED BY <1>1, <2>2, <3>2
  <2> HIDE DEF s
  <2>4. IndexOf(s, ".") = 2
    <3>1. 2 \in 1..(Len(s) + 1)
      BY <2>1, <2>3
    <3>2. \A j \in 1..(2 - 1) : s[j] # "."
      <4>1. s[1] = text[a + 1]
        BY <2>1, <2>3
      <4>2. text[a + 1] # "."
        BY <1>3, <2>0
      <4> QED BY <4>1, <4>2
    <3>3. 2 <= Len(s) => s[2] = "."
      <4> SUFFICES ASSUME 2 <= Len(s) PROVE s[2] = "."
        OBVIOUS
      <4>1. s[2] = text[a + 2] /\ a # 6
        BY <2>1, <2>3
      <4>2. text[a + 2] = "."
        BY <1>2, <2>0, <4>1
      <4> QED BY <4>1, <4>2
    <3> QED BY <2>3, <3>1, <3>2, <3>3, IndexOfIs
  <2>5. at(n) + IndexOf(s, ".") - 2 = a + 1
    BY <2>1, <2>4
  <2>6. part(n) = SubSeq(text, a + 1, a + 1)
    BY <2>1, <2>5 DEF s
  <2>7. SubSeq(text, a + 1, a + 1) \in Seq(Char) /\ Len(SubSeq(text, a + 1, a + 1)) = 1
        /\ \A i \in 1..1 : SubSeq(text, a + 1, a + 1)[i] = text[a + i]
    <3>1. a \in Nat /\ 1 \in Nat /\ a + 1 <= Len(text)
      BY <1>1, <2>1
    <3> QED BY <3>1, SubIs
  <2> DEFINE r == SubSeq(text, a + 1, a + 1)
  <2>8. r \in Seq(Char) /\ Len(r) = 1 /\ r[1] = text[a + 1]
    BY <2>7
  <2> HIDE DEF r
  <2>9. r = << text[a + 1] >>
    BY <2>8
  <2> QED BY <2>6, <2>9, <2>11 DEF r
<1> HIDE DEF starts, at, part
<1>12. Parts(text) = [n \in 1..4 |-> << text[2 * n - 1] >>]
  BY <1>6, <1>9, <1>11
<1>13. Len(Parts(text)) = 4
  <2> DEFINE r == [n \in 1..4 |-> << text[2 * n - 1] >>]
  <2>1. Len(r) = 4
    OBVIOUS
  <2> QED BY <1>12, <2>1
<1> QED BY <1>12, <1>13

\* They are always accepted.
LEMMA CanonicalIs ==
  ASSUME NEW text \in Seq(Char), Canonical(text)
  PROVE  stringToIp(text).ok = TRUE /\ stringToIp(text).ip = Meant(text)
<1>1. Len(Parts(text)) = 4 /\ \A n \in 1..4 : Parts(text)[n] = << text[2 * n - 1] >>
  BY PartsAre
<1>2. \A n \in 1..4 : Atoi(Parts(text)[n]) % 256 = Number[text[2 * n - 1]]
  <2> TAKE n \in 1..4
  <2>1. 2 * n - 1 \in {1, 3, 5, 7}
    BY SMT
  <2>2. text[2 * n - 1] \in DOMAIN Number /\ Number[text[2 * n - 1]] \in 0..255
    BY <2>1 DEF Canonical
  <2> DEFINE c == text[2 * n - 1]
  <2>3. Parts(text)[n] = << c >>
    BY <1>1
  <2>4. c \in DOMAIN Number /\ Number[c] \in 0..255
    BY <2>2
  <2> HIDE DEF c
  <2>5. << c >>[1] = c
    BY Firsts
  <2>6. Atoi(Parts(text)[n]) = Number[c]
    BY <2>3, <2>4, <2>5 DEF Atoi
  <2>7. \A x \in 0..255 : x % 256 = x
    OBVIOUS
  <2>8. Atoi(Parts(text)[n]) % 256 = Number[c]
    BY <2>4, <2>6, <2>7
  <2> QED BY <2>8 DEF c
<1> DEFINE r == [ok |-> TRUE, ip |-> [n \in 1..4 |-> Atoi(Parts(text)[n]) % 256]]
<1>3. stringToIp(text) = r
  BY <1>1 DEF stringToIp
<1>4. r.ok = TRUE /\ r.ip = [n \in 1..4 |-> Atoi(Parts(text)[n]) % 256]
  OBVIOUS
<1> HIDE DEF r
<1>5. [n \in 1..4 |-> Atoi(Parts(text)[n]) % 256] = Meant(text)
  BY <1>2 DEF Meant
<1> QED BY <1>3, <1>4, <1>5

LEMMA FlattenFour ==
  ASSUME NEW S, NEW ss \in Seq(Seq(S)), Len(ss) = 4
  PROVE  FlattenSeq(ss) = ((ss[1] \o ss[2]) \o ss[3]) \o ss[4]
<1>1. PICK g : /\ \A i \in 0..Len(ss) : g[i] \in Seq(S)
               /\ g[0] = <<>> /\ \A i \in 1..Len(ss) : g[i] = g[i - 1] \o ss[i]
               /\ FlattenSeq(ss) = g[Len(ss)]
  BY FlattenFun
<1>2. g[1] = g[0] \o ss[1] /\ g[2] = g[1] \o ss[2] /\ g[3] = g[2] \o ss[3] /\ g[4] = g[3] \o ss[4]
  <2>1. 1 \in 1..Len(ss) /\ 2 \in 1..Len(ss) /\ 3 \in 1..Len(ss) /\ 4 \in 1..Len(ss)
    OBVIOUS
  <2>2. 1 - 1 = 0 /\ 2 - 1 = 1 /\ 3 - 1 = 2 /\ 4 - 1 = 3
    OBVIOUS
  <2> QED BY <1>1, <2>1, <2>2
<1>3. g[0] \o ss[1] = ss[1]
  <2>1. ss[1] \in Seq(S)
    OBVIOUS
  <2> QED BY <1>1, <2>1, EmptyLeft
<1> QED BY <1>1, <1>2, <1>3

LEMMA AddTwo ==
  ASSUME NEW S, NEW s \in Seq(S), NEW x \in S, NEW y \in S
  PROVE  LET r == s \o <<x, y>>
         IN  /\ r \in Seq(S) /\ Len(r) = Len(s) + 2
             /\ \A i \in 1..Len(s) : r[i] = s[i]
             /\ r[Len(s) + 1] = x /\ r[Len(s) + 2] = y
<1> DEFINE t == <<x, y>>
<1>1. t \in Seq(S) /\ Len(t) = 2 /\ t[1] = x /\ t[2] = y
  <2>1. t \in Seq({x, y}) /\ Len(t) = 2 /\ t[1] = x /\ t[2] = y
    BY TwoIs
  <2> HIDE DEF t
  <2> QED BY <2>1
<1> HIDE DEF t
<1>2. /\ s \o t \in Seq(S) /\ Len(s \o t) = Len(s) + Len(t)
      /\ \A i \in 1..Len(s) : (s \o t)[i] = s[i]
      /\ \A i \in 1..Len(t) : (s \o t)[Len(s) + i] = t[i]
  <2>1. t \in Seq(S)
    BY <1>1
  <2> QED BY <2>1, ConcatProperties
<1>3. 1 \in 1..Len(t) /\ 2 \in 1..Len(t)
  BY <1>1
<1>4. s \o t \in Seq(S) /\ Len(s \o t) = Len(s) + 2 /\ (\A i \in 1..Len(s) : (s \o t)[i] = s[i])
      /\ (s \o t)[Len(s) + 1] = x /\ (s \o t)[Len(s) + 2] = y
  BY <1>1, <1>2, <1>3
<1> QED BY <1>4 DEF t

\* An address as it is shown.
AddressText(a, b, c, d) == ((<< a >> \o <<".", b>>) \o <<".", c>>) \o <<".", d>>

LEMMA AddressTextIs ==
  ASSUME NEW S, NEW a \in S, NEW b \in S, NEW c \in S, NEW d \in S, "." \in S
  PROVE  LET s == AddressText(a, b, c, d)
         IN  /\ s \in Seq(S) /\ Len(s) = 7 /\ s[1] = a /\ s[2] = "." /\ s[3] = b /\ s[4] = "."
             /\ s[5] = c /\ s[6] = "." /\ s[7] = d
<1> DEFINE u1 == << a >>
      u2 == u1 \o <<".", b>>
      u3 == u2 \o <<".", c>>
      u4 == u3 \o <<".", d>>
<1>1. u1 \in Seq(S) /\ Len(u1) = 1 /\ u1[1] = a
  BY SingleType
<1>0. AddressText(a, b, c, d) = u4
  BY DEF AddressText
<1> HIDE DEF u1
<1>2. u2 \in Seq(S) /\ Len(u2) = Len(u1) + 2 /\ (\A i \in 1..Len(u1) : u2[i] = u1[i])
      /\ u2[Len(u1) + 1] = "." /\ u2[Len(u1) + 2] = b
  <2>1. u1 \in Seq(S) /\ "." \in S /\ b \in S
    BY <1>1
  <2> QED BY <2>1, AddTwo
<1> HIDE DEF u2
<1>3. u3 \in Seq(S) /\ Len(u3) = Len(u2) + 2 /\ (\A i \in 1..Len(u2) : u3[i] = u2[i])
      /\ u3[Len(u2) + 1] = "." /\ u3[Len(u2) + 2] = c
  BY <1>2, AddTwo
<1> HIDE DEF u3
<1>4. u4 \in Seq(S) /\ Len(u4) = Len(u3) + 2 /\ (\A i \in 1..Len(u3) : u4[i] = u3[i])
      /\ u4[Len(u3) + 1] = "." /\ u4[Len(u3) + 2] = d
  BY <1>3, AddTwo
<1> HIDE DEF u4
<1>5. Len(u2) = 3 /\ u2[1] = a /\ u2[2] = "." /\ u2[3] = b
  BY <1>1, <1>2
<1>6. Len(u3) = 5 /\ (\A i \in 1..3 : u3[i] = u2[i]) /\ u3[4] = "." /\ u3[5] = c
  BY <1>3, <1>5
<1>7. Len(u4) = 7 /\ (\A i \in 1..5 : u4[i] = u3[i]) /\ u4[6] = "." /\ u4[7] = d
  BY <1>4, <1>6
<1>8. u4[1] = a /\ u4[2] = "." /\ u4[3] = b /\ u4[4] = "." /\ u4[5] = c
  <2>1. 1 \in 1..3 /\ 2 \in 1..3 /\ 3 \in 1..3
    OBVIOUS
  <2>2. 1 \in 1..5 /\ 2 \in 1..5 /\ 3 \in 1..5 /\ 4 \in 1..5 /\ 5 \in 1..5
    OBVIOUS
  <2> QED BY <1>5, <1>6, <1>7, <2>1, <2>2
<1> QED BY <1>0, <1>4, <1>7, <1>8

LEMMA ShownAddress ==
  ASSUME NEW ip \in [1..4 -> Octets]
  PROVE  /\ ipToString(ip) \in Seq(DOMAIN Number \union {"."}) /\ ipToString(ip) \in Seq(Char)
         /\ Canonical(ipToString(ip)) /\ Meant(ipToString(ip)) = ip
<1> DEFINE d(n) == Digits(ip[n])
      each == [n \in DOMAIN ip |-> (IF n = 1 THEN <<>> ELSE <<".">>) \o << d(n) >>]
      s == AddressText(d(1), d(2), d(3), d(4))
<1>1. \A n \in 1..4 : ip[n] \in Octets
  OBVIOUS
<1>2. \A n \in 1..4 : d(n) \in DOMAIN Number /\ Number[d(n)] = ip[n] /\ ip[n] \in 0..255
  BY <1>1, NumbersAre
<1>3. \A n \in 1..4 : d(n) \in Char
  BY <1>2, NumbersAre
<1>4. "." \in Char
  BY CharHas DEF Literals
<1>5. ipToString(ip) = FlattenSeq(each) /\ DOMAIN ip = 1..4
  BY DEF ipToString
<1> HIDE DEF d
<1>6. Len(each) = 4 /\ each[1] = << d(1) >> /\ each[2] = <<".", d(2)>> /\ each[3] = <<".", d(3)>>
      /\ each[4] = <<".", d(4)>>
  <2>1. \A n \in 1..4 : each[n] = (IF n = 1 THEN <<>> ELSE <<".">>) \o << d(n) >>
    BY <1>5
  <2>2. Len(each) = 4
    BY <1>5
  <2>3. <<>> \o << d(1) >> = << d(1) >>
    BY <1>3, SingleType, EmptyLeft
  <2>4. \A n \in 2..4 : <<".">> \o << d(n) >> = <<".", d(n)>>
    BY <1>3, <1>4, PairOf
  <2> HIDE DEF each
  <2> QED BY <2>1, <2>2, <2>3, <2>4
<1>7. /\ << d(1) >> \in Seq(Char) /\ <<".", d(2)>> \in Seq(Char) /\ <<".", d(3)>> \in Seq(Char)
      /\ <<".", d(4)>> \in Seq(Char)
  BY <1>3, <1>4, SingleType, PairType
<1>8. each \in Seq(Seq(Char))
  <2>1. each = [i \in 1..4 |-> each[i]]
    BY <1>5
  <2>2. \A i \in 1..4 : each[i] \in Seq(Char)
    <3>1. \A i \in 1..4 : i = 1 \/ i = 2 \/ i = 3 \/ i = 4
      OBVIOUS
    <3> HIDE DEF each
    <3> QED BY <1>6, <1>7, <3>1
  <2> HIDE DEF each
  <2> QED BY <2>1, <2>2, SeqIs
<1> HIDE DEF each
<1>9. FlattenSeq(each) = s
  <2> DEFINE a1 == << d(1) >>
        a2 == <<".", d(2)>>
        a3 == <<".", d(3)>>
        a4 == <<".", d(4)>>
  <2>1. s = ((a1 \o a2) \o a3) \o a4
    BY DEF AddressText
  <2>2. each[1] = a1 /\ each[2] = a2 /\ each[3] = a3 /\ each[4] = a4 /\ Len(each) = 4
    BY <1>6
  <2>3. a1 \in Seq(Char) /\ a2 \in Seq(Char) /\ a3 \in Seq(Char) /\ a4 \in Seq(Char)
    BY <1>7
  <2> HIDE DEF a1, a2, a3, a4, s
  <2>4. FlattenSeq(each) = ((a1 \o a2) \o a3) \o a4
    <3>1. FlattenSeq(each) = ((each[1] \o each[2]) \o each[3]) \o each[4]
      <4>1. each \in Seq(Seq(Char)) /\ Len(each) = 4
        BY <1>8, <2>2
      <4> QED BY <4>1, FlattenFour
    <3> QED BY <2>2, <3>1
  <2> QED BY <2>1, <2>4
<1>10. /\ s \in Seq(DOMAIN Number \union {"."}) /\ Len(s) = 7 /\ s[1] = d(1) /\ s[2] = "." /\ s[3] = d(2)
       /\ s[4] = "." /\ s[5] = d(3) /\ s[6] = "." /\ s[7] = d(4)
  <2> DEFINE T == DOMAIN Number \union {"."}
  <2>1. d(1) \in T /\ d(2) \in T /\ d(3) \in T /\ d(4) \in T /\ "." \in T
    BY <1>2
  <2> HIDE DEF T
  <2>2. s \in Seq(T) /\ Len(s) = 7 /\ s[1] = d(1) /\ s[2] = "." /\ s[3] = d(2)
       /\ s[4] = "." /\ s[5] = d(3) /\ s[6] = "." /\ s[7] = d(4)
    BY <2>1, AddressTextIs
  <2> QED BY <2>2 DEF T
<1> HIDE DEF s
<1>11. ipToString(ip) = s
  BY <1>5, <1>9
<1>12. s \in Seq(Char)
  <2>1. DOMAIN Number \union {"."} \subseteq Char
    BY <1>4, NumbersAre
  <2> QED BY <1>10, <2>1
<1>13. \A n \in 1..4 : s[2 * n - 1] = d(n)
  <2> TAKE n \in 1..4
  <2>1. \/ n = 1 /\ 2 * n - 1 = 1
        \/ n = 2 /\ 2 * n - 1 = 3
        \/ n = 3 /\ 2 * n - 1 = 5
        \/ n = 4 /\ 2 * n - 1 = 7
    OBVIOUS
  <2> QED BY <1>10, <2>1
<1>14. Canonical(s)
  <2>1. \A i \in {2, 4, 6} : s[i] = "."
    BY <1>10
  <2>2. \A n \in 1..4 : s[2 * n - 1] \in DOMAIN Number /\ Number[s[2 * n - 1]] \in 0..255
    BY <1>2, <1>13
  <2>3. 1 = 2 * 1 - 1 /\ 3 = 2 * 2 - 1 /\ 5 = 2 * 3 - 1 /\ 7 = 2 * 4 - 1
    OBVIOUS
  <2>4. 1 \in 1..4 /\ 2 \in 1..4 /\ 3 \in 1..4 /\ 4 \in 1..4
    OBVIOUS
  <2>5. \A i \in {1, 3, 5, 7} : s[i] \in DOMAIN Number /\ Number[s[i]] \in 0..255
    BY <2>2, <2>3, <2>4
  <2> QED BY <1>10, <2>1, <2>5 DEF Canonical
<1>15. Meant(s) = [n \in 1..4 |-> Number[s[2 * n - 1]]]
  BY DEF Meant
<1>16. Meant(s) = [n \in 1..4 |-> ip[n]]
  BY <1>2, <1>13, <1>15
<1>17. [n \in 1..4 |-> ip[n]] = ip
  OBVIOUS
<1>18. s \in Seq(DOMAIN Number \union {"."}) /\ s \in Seq(Char) /\ Canonical(s) /\ Meant(s) = ip
  BY <1>10, <1>12, <1>14, <1>16, <1>17
<1> QED BY <1>11, <1>18

\* None of the characters with a meaning is in it.
LEMMA PlainAddress ==
  ASSUME NEW text \in Seq(DOMAIN Number \union {"."})
  PROVE  /\ text \in Seq(Char \ (AllKeys \union DOMAIN HexDigits)) /\ text \in Seq(Clean)
         /\ Backslash \notin ToSet(text) /\ Quote \notin ToSet(text)
<1>1. "." \in Char \ DOMAIN HexDigits
  BY CharHas, HexValues DEF Literals, Space, Quote, Backslash
<1>2. "." \notin AllKeys
  <2>1. \A f \in Forms5 : "." \notin ToSet(FormKeys[f])
    <3>1. "." \notin ToSet(APKeys) /\ "." \notin ToSet(NetworkKeys) /\ "." \notin ToSet(NtpKeys)
      BY APKeysAre, NetworkKeysAre, NtpKeysAre
    <3>2. "." \notin ToSet(CalibrationKeys) /\ "." \notin ToSet(ServiceKeys)
      BY CalibrationKeysAre, ServiceKeysAre DEF ServiceTexts
    <3> QED BY <3>1, <3>2, FormsAre DEF Forms5
  <2> QED BY <2>1, ListsAre
<1>3. DOMAIN Number \union {"."} \subseteq Char \ (AllKeys \union DOMAIN HexDigits)
  BY <1>1, <1>2, NumbersAre
<1>4. text \in Seq(Char \ (AllKeys \union DOMAIN HexDigits))
  BY <1>3
<1>5. Char \ (AllKeys \union DOMAIN HexDigits) \subseteq Clean
  BY HexValues DEF Clean
<1>6. text \in Seq(Clean)
  BY <1>4, <1>5
<1>7. Backslash \in DOMAIN HexDigits /\ Quote \in DOMAIN HexDigits
  BY HexValues
<1>8. \A c \in ToSet(text) : c \notin DOMAIN HexDigits
  BY <1>4 DEF ToSet
<1> QED BY <1>4, <1>6, <1>7, <1>8

-----------------------------------------------------------------------------
(* Bytes, what strcpy leaves of a text, and what a page shows of one.      *)

LEMMA BytesIs ==
  ASSUME NEW S, NEW t \in Seq(S)
  PROVE  /\ Bytes(t) \in Nat /\ Bytes(t) >= Len(t)
         /\ (\A i \in 1..Len(t) : t[i] \notin Wide) => Bytes(t) = Len(t)
<1> DEFINE W == {i \in DOMAIN t : t[i] \in Wide}
           c == Cardinality(W)
<1>1. DOMAIN t = 1..Len(t) /\ Len(t) \in Nat
  BY LenProperties
<1>2. IsFiniteSet(W)
  <2>1. IsFiniteSet(1..Len(t)) /\ W \subseteq 1..Len(t)
    BY <1>1, FS_Interval
  <2> QED BY <2>1, FS_Subset
<1>3. Bytes(t) = Len(t) + c
  BY DEF Bytes
<1>4. (\A i \in 1..Len(t) : t[i] \notin Wide) => W = {}
  BY <1>1
<1> HIDE DEF W
<1>5. c \in Nat /\ (W = {} => c = 0)
  BY <1>2, FS_CardinalityType, FS_EmptySet
<1> DEFINE l == Len(t)
<1> HIDE DEF c, l
<1>6. l \in Nat /\ Bytes(t) = l + c
  BY <1>1, <1>3 DEF l
<1>7. l + c \in Nat /\ l + c >= l /\ (c = 0 => l + c = l)
  BY <1>5, <1>6
<1>8. W = {} => c = 0
  BY <1>5
<1> QED BY <1>4, <1>6, <1>7, <1>8 DEF l

LEMMA FirstIs ==
  ASSUME NEW S, NEW t \in Seq(S), NEW n \in 0..Len(t)
  PROVE  /\ SubSeq(t, 1, n) \in Seq(S) /\ Len(SubSeq(t, 1, n)) = n
         /\ \A i \in 1..n : SubSeq(t, 1, n)[i] = t[i]
BY FirstFrom DEF First

\* A longer beginning has more bytes.
LEMMA MoreBytes ==
  ASSUME NEW S, NEW t \in Seq(S), NEW m \in 0..Len(t), NEW n \in 0..Len(t), m < n
  PROVE  Bytes(SubSeq(t, 1, m)) < Bytes(SubSeq(t, 1, n))
<1> DEFINE a == SubSeq(t, 1, m)
           b == SubSeq(t, 1, n)
           A == {i \in DOMAIN a : a[i] \in Wide}
           B == {i \in DOMAIN b : b[i] \in Wide}
<1>1. /\ Len(a) = m /\ (\A i \in 1..m : a[i] = t[i]) /\ DOMAIN a = 1..m
      /\ Len(b) = n /\ (\A i \in 1..n : b[i] = t[i]) /\ DOMAIN b = 1..n
  <2>1. /\ a \in Seq(S) /\ Len(a) = m /\ (\A i \in 1..m : a[i] = t[i])
        /\ b \in Seq(S) /\ Len(b) = n /\ (\A i \in 1..n : b[i] = t[i])
    BY FirstIs
  <2> HIDE DEF a, b
  <2> QED BY <2>1, LenProperties
<1>2. Bytes(a) = Len(a) + Cardinality(A) /\ Bytes(b) = Len(b) + Cardinality(B)
  BY DEF Bytes
<1>3. m \in Nat /\ n \in Nat
  BY LenProperties
<1> HIDE DEF a, b
<1>4. A \subseteq B /\ B \subseteq 1..n
  BY <1>1, <1>3
<1>5. IsFiniteSet(1..n)
  BY <1>3, FS_Interval
<1> HIDE DEF A, B
<1>6. IsFiniteSet(B)
  BY <1>4, <1>5, FS_Subset
<1>7. Cardinality(A) <= Cardinality(B) /\ Cardinality(A) \in Nat /\ Cardinality(B) \in Nat
  BY <1>4, <1>6, FS_Subset, FS_CardinalityType
<1> QED BY <1>1, <1>2, <1>3, <1>7 DEF a, b

LEMMA NextIs ==
  /\ DOMAIN NextField = {"c_id", "wifi_ssid"}
  /\ NextField["c_id"] = "U_name" /\ NextField["wifi_ssid"] = "wifi_pass"
BY DEF NextField

\* A text t in the field k, with u in the one after it.
ReadOn(k, t, u) ==
  IF k \in DOMAIN NextField /\ Bytes(t) >= Size[k] THEN SubSeq(t, 1, CHOOSE n \in Cuts(k, t) : TRUE) \o u ELSE t

\* What was read on is read on to the same when it is stored again.
LEMMA ReadOnIs ==
  ASSUME NEW S, NEW t \in Seq(S), NEW u \in Seq(S), NEW k \in TextFields, ~RunsOver(k, t)
  PROVE  /\ ReadOn(k, t, u) \in Seq(S) /\ ReadOn(k, ReadOn(k, t, u), u) = ReadOn(k, t, u)
         /\ ~(k \in DOMAIN NextField /\ Bytes(t) >= Size[k]) => ReadOn(k, t, u) = t
         /\ k \notin DOMAIN NextField => Len(ReadOn(k, t, u)) < Size[k]
<1>1. Size[k] \in Nat /\ Bytes(t) \in Nat /\ Bytes(t) >= Len(t) /\ Len(t) \in Nat
  BY FormsAssumption, BytesIs, LenProperties
<1>2. CASE ~(k \in DOMAIN NextField /\ Bytes(t) >= Size[k])
  <2>1. ReadOn(k, t, u) = t
    BY <1>2 DEF ReadOn
  <2>2. k \notin DOMAIN NextField => Len(t) < Size[k]
    BY <1>1 DEF RunsOver
  <2> QED BY <2>1, <2>2
<1>3. CASE k \in DOMAIN NextField /\ Bytes(t) >= Size[k]
  <2> DEFINE n == CHOOSE m \in Cuts(k, t) : TRUE
        a == SubSeq(t, 1, n)
        r == a \o u
  <2>1. Cuts(k, t) # {}
    BY <1>3 DEF RunsOver
  <2>2. n \in Cuts(k, t)
    BY <2>1
  <2>3. ReadOn(k, t, u) = r
    BY <1>3 DEF ReadOn
  <2> HIDE DEF n
  <2>4. n \in 1..Len(t) /\ Bytes(a) = Size[k]
    BY <2>2, LenProperties DEF Cuts
  <2>5. a \in Seq(S) /\ Len(a) = n
    BY <2>4, FirstIs
  <2> HIDE DEF a
  <2>6. r \in Seq(S) /\ Len(r) = n + Len(u) /\ Len(u) \in Nat /\ n \in Nat
    BY <2>4, <2>5, ConcatIs, LenProperties
  <2>7. SubSeq(r, 1, n) = a
    <3>1. First(Len(a), a \o u) = a
      BY <2>5, FirstOfConcat
    <3> QED BY <2>5, <3>1 DEF First
  <2> HIDE DEF r
  <2>8. n \in DOMAIN r /\ n \in 1..Len(r)
    BY <2>4, <2>6, LenProperties
  <2>9. n \in Cuts(k, r)
    BY <2>4, <2>7, <2>8 DEF Cuts
  <2>10. \A m \in Cuts(k, r) : m = n
    <3> TAKE m \in Cuts(k, r)
    <3>1. m \in 1..Len(r) /\ Bytes(SubSeq(r, 1, m)) = Size[k] /\ Bytes(SubSeq(r, 1, n)) = Size[k]
      BY <2>4, <2>6, <2>7, LenProperties DEF Cuts
    <3>2. m \in 0..Len(r) /\ n \in 0..Len(r) /\ m \in Int /\ n \in Int
      BY <2>6, <2>8, <3>1
    <3>3. ~(m < n)
      <4> SUFFICES ASSUME m < n PROVE FALSE
        OBVIOUS
      <4>1. Bytes(SubSeq(r, 1, m)) < Bytes(SubSeq(r, 1, n))
        BY <2>6, <3>2, MoreBytes
      <4> QED BY <1>1, <3>1, <4>1
    <3>4. ~(n < m)
      <4> SUFFICES ASSUME n < m PROVE FALSE
        OBVIOUS
      <4>1. Bytes(SubSeq(r, 1, n)) < Bytes(SubSeq(r, 1, m))
        BY <2>6, <3>2, MoreBytes
      <4> QED BY <1>1, <3>1, <4>1
    <3> QED BY <3>2, <3>3, <3>4
  <2>11. (CHOOSE m \in Cuts(k, r) : TRUE) = n
    <3> DEFINE c == CHOOSE m \in Cuts(k, r) : TRUE
    <3>1. c \in Cuts(k, r)
      BY <2>9
    <3> HIDE DEF c
    <3>2. c = n
      BY <2>10, <3>1
    <3> QED BY <3>2 DEF c
  <2>12. Bytes(r) >= Size[k]
    <3>1. SubSeq(r, 1, Len(r)) = r
      BY <2>6, FromEnds DEF First
    <3>2. n = Len(r) \/ n < Len(r)
      BY <2>6
    <3>3. CASE n = Len(r)
      BY <1>1, <2>4, <2>7, <3>1, <3>3
    <3>4. CASE n < Len(r)
      <4>1. n \in 0..Len(r) /\ Len(r) \in 0..Len(r)
        BY <2>6, <2>8
      <4>2. Bytes(SubSeq(r, 1, n)) < Bytes(SubSeq(r, 1, Len(r)))
        BY <2>6, <3>4, <4>1, MoreBytes
      <4>3. Bytes(r) \in Nat
        BY <2>6, BytesIs
      <4>4. Size[k] < Bytes(r)
        BY <2>4, <2>7, <3>1, <4>2
      <4> QED BY <1>1, <4>3, <4>4
    <3> QED BY <3>2, <3>3, <3>4
  <2>13. ReadOn(k, r, u) = SubSeq(r, 1, n) \o u
    BY <1>3, <2>11, <2>12 DEF ReadOn
  <2>14. ReadOn(k, r, u) = r
    BY <2>7, <2>13 DEF r
  <2> QED BY <1>3, <2>3, <2>6, <2>14
<1> QED BY <1>2, <1>3

\* A text within its limit, all of characters of one byte, runs over nothing.
LEMMA NarrowStays ==
  ASSUME NEW t \in Seq(Char), NEW k \in TextFields, Limited(k, t), \A i \in 1..Len(t) : t[i] \notin Wide
  PROVE  ~RunsOver(k, t)
<1>1. Bytes(t) = Len(t) /\ Len(t) \in Nat /\ Size[k] \in Nat /\ Size[k] > 0
  BY FormsAssumption, BytesIs, LenProperties
<1>2. CASE k \notin DOMAIN NextField
  <2>1. Len(t) < Size[k]
    BY <1>2, NextIs DEF Limited
  <2>2. ~(Bytes(t) >= Size[k])
    BY <1>1, <2>1
  <2> QED BY <2>2 DEF RunsOver
<1>3. CASE k \in DOMAIN NextField
  <2> SUFFICES ASSUME Bytes(t) >= Size[k] PROVE Cuts(k, t) # {}
    BY <1>3 DEF RunsOver
  <2> DEFINE n == Size[k]
        a == SubSeq(t, 1, n)
  <2>1. n \in 1..Len(t) /\ n \in 0..Len(t)
    BY <1>1
  <2>2. a \in Seq(Char) /\ Len(a) = n /\ \A i \in 1..n : a[i] = t[i]
    BY <2>1, FirstIs
  <2> HIDE DEF a
  <2>3. \A i \in 1..Len(a) : a[i] \notin Wide
    BY <1>1, <2>1, <2>2
  <2>4. Bytes(a) = n
    BY <2>2, <2>3, BytesIs
  <2>5. n \in Cuts(k, t)
    BY <2>1, <2>4, LenProperties DEF Cuts, a
  <2> QED BY <2>5
<1> QED BY <1>2, <1>3

\* What a page shows of a text.
Visible(text) == Only(text, {i \in DOMAIN text : text[i] \notin Hidden})
LEMMA VisibleIs ==
  ASSUME NEW S, NEW t \in Seq(S)
  PROVE  /\ Visible(t) \in Seq(S) /\ Len(Visible(t)) <= Len(t)
         /\ ToSet(t) \intersect Hidden = {} => Visible(t) = t
<1> DEFINE K == {i \in DOMAIN t : t[i] \notin Hidden}
<1>1. DOMAIN t = 1..Len(t) /\ Len(t) \in Nat
  BY LenProperties
<1>2. K \in SUBSET (1..Len(t)) /\ \A i \in K : t[i] \in S
  BY <1>1, ElementOfSeq
<1>3. ToSet(t) \intersect Hidden = {} => K = DOMAIN t
  BY DEF ToSet
<1>4. Visible(t) = Only(t, K)
  BY DEF Visible
<1> HIDE DEF K
<1>5. Only(t, K) \in Seq(S) /\ Len(Only(t, K)) <= Len(t)
  BY <1>1, <1>2, OnlyType
<1> QED BY <1>3, <1>4, <1>5, OnlyAll

-----------------------------------------------------------------------------
(* The invariant.                                                          *)

Uri(f) == Routes[FormRoute[f]].uri
JsonForms5 == Forms5 \ {"ap"}
TextKeys(f) == ToSet(FormKeys[f]) \ (Addresses \union NumberFields)
Modes == {<<"static">>, <<"dhcp">>}

\* What is typed stays in the alphabet of its form.
TypedOK(path, typed) ==
  /\ typed \in [ToSet(Keys(path)) -> Seq(Char)]
  /\ \A f \in JsonForms5 : path = Uri(f) => Typed(FormKeys[f], typed)
  /\ path = Uri("network") => typed["wifi_MODE"] \in Modes
  /\ \A k \in DOMAIN typed \intersect TextFields : Limited(k, typed[k])
Fields == {"path", "typed", "beside", "asked", "kind", "fields", "tail", "memory"}
VisitOK(v) ==
  /\ v = [k \in Fields |-> v[k]] /\ TypedOK(v.path, v.typed) /\ OwnUrl(v.path) /\ v.asked \in Seq(Char)
  /\ v.kind \in {"none", "post", "multipart"} /\ v.memory \in BOOLEAN
  /\ v.kind = "none" => v.fields = <<>>
  /\ v.kind = "post" => PostVisit(v)
  /\ v.kind = "multipart" => MultiVisit(v)

\* The settings are such as can be shown and confirmed.
NumberOK(k, n) == (\E d \in DOMAIN Number : Number[d] = n) /\ Converted(k, n) = n
CfgOK(c) ==
  /\ c = [k \in AllKeys |-> c[k]]
  /\ \A k \in Addresses : c[k] \in [1..4 -> Octets]
  /\ \A k \in NumberFields : NumberOK(k, c[k])
  /\ \A f \in JsonForms5 : \A k \in TextKeys(f) : c[k] \in Seq(Char \ ToSet(FormKeys[f]))
  /\ c["txtssid"] \in Seq(Char) /\ c["txtpass"] \in Seq(Char)
  /\ c["wifi_MODE"] \in Modes
  /\ \A k \in TextFields \ DOMAIN NextField : Len(c[k]) < Size[k]
  /\ ReadOn("c_id", c["c_id"], c["U_name"]) = c["c_id"]

\* Where the parser is, whatever it has read.
Small(p, n) == p \in ParserType /\ p.at < Len(Boundary) /\ Len(p.buffer) < BufferSize /\ p.parsed <= n

\* In the body: without a route its bytes are only counted.
Counts(v, Q, p, b) ==
  /\ Small(p, Len(BodyOf(v))) /\ b \in Seq(Char) /\ p.params = Q
  /\ p.parsed + Len(b) = Len(BodyOf(v)) /\ p.length = Len(BodyOf(v))
InStage(v, h, Q, p, b) ==
  IF h = 0 THEN Counts(v, Q, p, b)
  ELSE IF v.kind = "post" THEN PostReads(v, Q, p, b) ELSE Reads(v, Q, p, b)
InBody(v, h, Q, p, b) ==
  v.kind # "none" /\ (b = <<>> => p.parsed # p.length) /\ InStage(v, h, Q, p, b)

\* All parameters are read.
BodyParams(v) ==
  CASE v.kind = "none" -> <<>>
    [] v.kind = "post" -> FlattenSeq(PostParams(v))
    [] OTHER -> FlattenSeq(ParamsOf(v))
AllRead(v, Q, p) ==
  /\ p.params = Q \o BodyParams(v)
  /\ v.kind = "multipart" => FilesIn(v, Len(v.fields), Len(v.fields), p.uploads)

\* From the url to the handler.
ReadAt(v, ph, q, h, b, p) ==
  /\ VisitOK(v)
  /\ ph \in {"unsent", "head", "body", "handle", "answered", "closed", "restart", "overrun"}
  /\ h \in 0..Len(Routes) /\ (h # 0 => canHandle(Routes[h], v.path))
  /\ Small(p, Len(BodyOf(v)))
  /\ ph \in {"unsent", "head"} => h = 0 /\ b = BodyOf(v) /\ Fresh(p, b) /\ HeadOK(v, p.params, q)
  /\ ph = "body" => \E Q : HeadOK(v, Q, <<>>) /\ InBody(v, h, Q, p, b)
  /\ ph \in {"handle", "answered"} =>
       \E Q : /\ HeadOK(v, Q, <<>>) /\ UrlGives(p, Q)
              /\ h # 0 /\ v.memory => AllRead(v, Q, p)
ReadInv == ReadAt(visit, phase, query, handler, body, parser)

\* The page that showed c is confirmed as it was.
Confirms(v, c) ==
  \A k \in DOMAIN v.typed :
    v.typed[k] = CASE k = "txtpass" -> <<>>
                   [] k = "txtaplan" -> ipToString(Shipped.txtaplan)
                   [] k \in {"txtipadd", "net_m"} -> ipToString(c[k])
                   [] k \in NumberFields -> << Digits(c[k]) >>
                   [] k \in {"wifi_ssid", "wifi_pass"} -> v.typed[k]
                   [] OTHER -> Visible(c[k])
\* What the network page does not show is still in the browser.
WifiKept(v, c) ==
  LET ssid == v.typed["wifi_ssid"]
      pass == v.typed["wifi_pass"]
  IN  "wifi_ssid" \in DOMAIN v.typed =>
        /\ ReadsAsString(ssid) /\ ReadsAsString(pass)
        /\ c["wifi_pass"] = Unescaped(pass)
        /\ c["wifi_ssid"] = ReadOn("wifi_ssid", Unescaped(ssid), Unescaped(pass))

AgainInv ==
  kept = <<>> \/ \E c : /\ kept = << c >> /\ CfgOK(c) /\ Confirms(visit, c) /\ WifiKept(visit, c)
                        /\ phase # "answered" => cfg = c

AnswerInv ==
  /\ answer \in {"none", "ok", "error", "500"} \union {Routes[i].kind : i \in DOMAIN Routes}
  /\ phase # "answered" => answer = "none"
  /\ answer = "ok" => Kind \in Forms5 /\ WifiKept(visit, cfg)

IInv ==
  /\ ReadInv /\ CfgOK(cfg) /\ AgainInv /\ AnswerInv
  /\ StoredAsTyped /\ RefusedIsMalformed /\ ConfirmedAgainIsKept

-----------------------------------------------------------------------------
(* The visits, and the reading of the url.                                 *)

\* The visits are such.
LEMMA FieldsAre ==
  ASSUME NEW kind, NEW fields, FromForm(kind, fields)
  PROVE  /\ kind \in {"none", "post", "multipart"} /\ (kind = "none" => fields = <<>>)
         /\ kind = "post" => fields \in Seq(PostType)
         /\ kind = "multipart" =>
              /\ fields \in Seq(ItemType)
              /\ \A i \in DOMAIN fields, j \in DOMAIN fields : IsFile(fields[i]) /\ fields[j].name = fields[i].name => i = j
<1>1. kind \in {"none", "post", "multipart"} /\ (kind = "none" => fields = <<>>)
  BY DEF FromForm
<1> DEFINE T == [name : Seq(STRING), value : Seq(STRING)]
<1>7. fields \in Seq(T)
  BY DEF FromForm
<1> HIDE DEF T
<1>2. fields = [i \in 1..Len(fields) |-> fields[i]] /\ Len(fields) \in Nat /\ DOMAIN fields = 1..Len(fields)
  BY <1>7
<1>3. \A i \in 1..Len(fields) : fields[i] \in [name : Seq(STRING), value : Seq(STRING)]
  <2>1. \A i \in 1..Len(fields) : fields[i] \in T
    BY <1>7
  <2> QED BY <2>1 DEF T
<1>4. \A i \in 1..Len(fields) : fields[i] \in FieldType
  <2> TAKE i \in 1..Len(fields)
  <2> DEFINE f == fields[i]
  <2>1. f \in [name : Seq(STRING), value : Seq(STRING)]
    BY <1>3
  <2> HIDE DEF f
  <2>2. f.name \in Seq(Char) /\ f.value \in Seq(Char)
    BY <2>1, TextOf
  <2>3. f \in FieldType
    BY <2>1, <2>2 DEF FieldType
  <2> QED BY <2>3 DEF f
<1>5. ASSUME kind = "post" PROVE fields \in Seq(PostType)
  <2>1. \A i \in 1..Len(fields) : fields[i] \in PostType
    BY <1>2, <1>4, <1>5 DEF FromForm, PostType
  <2> QED BY <1>2, <2>1, SeqIs
<1>6. ASSUME kind = "multipart"
      PROVE  /\ fields \in Seq(ItemType)
             /\ \A i \in DOMAIN fields, j \in DOMAIN fields : IsFile(fields[i]) /\ fields[j].name = fields[i].name => i = j
  <2>1. \A i \in 1..Len(fields) : fields[i] \in ItemType
    <3> TAKE i \in 1..Len(fields)
    <3> DEFINE f == fields[i]
    <3>1. Len(f.name) = 1 /\ f.name[1] \in DOMAIN FileNames
          /\ \A n \in 0..Len(f.value) : ~IsPrefix(CRLF \o Delimiter, SubSeq(f.value, n + 1, Len(f.value)))
      BY <1>2, <1>6 DEF FromForm
    <3>2. f \in FieldType
      BY <1>4
    <3> HIDE DEF f
    <3>3. Plain(f.value)
      BY <3>1 DEF Plain, Pattern, From
    <3>4. f \in ItemType
      BY <3>1, <3>2, <3>3 DEF ItemType
    <3> QED BY <3>4 DEF f
  <2>2. fields \in Seq(ItemType)
    BY <1>2, <2>1, SeqIs
  <2>3. \A i \in DOMAIN fields, j \in DOMAIN fields : IsFile(fields[i]) /\ fields[j].name = fields[i].name => i = j
    BY <1>6 DEF FromForm
  <2> QED BY <2>2, <2>3
<1> QED BY <1>1, <1>5, <1>6

LEMMA UrisAre ==
  /\ \A f \in Forms5 : \A path : path = Uri(f) => Keys(path) = FormKeys[f] /\ (path = <<"applyAP">> <=> f = "ap")
  /\ \A f \in Forms5, g \in Forms5 : Uri(f) = Uri(g) => f = g
  /\ Uri("ap") = <<"applyAP">>
<1>1. \A f \in Forms5 : \A path : path = Uri(f) => Keys(path) = FormKeys[f] /\ (path = <<"applyAP">> <=> f = "ap")
  BY KeysOf DEF Uri
<1>2. \A f \in Forms5, g \in Forms5 : Uri(f) = Uri(g) => f = g
  BY FormRouteIs DEF Uri
<1>3. Uri("ap") = <<"applyAP">>
  BY FormRouteIs DEF Uri
<1> QED BY <1>1, <1>2, <1>3

LEMMA TypedFromPage ==
  ASSUME NEW path, NEW typed, FromPage(path, typed)
  PROVE  TypedOK(path, typed) /\ OwnUrl(path)
<1>1. OwnUrl(path)
  BY DEF FromPage, OwnUrl
<1>2. DOMAIN typed = ToSet(Keys(path)) /\ \A k \in ToSet(Keys(path)) : typed[k] \in Seq(STRING)
  BY DEF FromPage
<1>3. typed \in [ToSet(Keys(path)) -> Seq(Char)]
  <2>1. typed \in [ToSet(Keys(path)) -> Seq(STRING)]
    BY DEF FromPage
  <2>2. Seq(STRING) \subseteq Seq(Char)
    BY TextOf
  <2> QED BY <2>1, <2>2
<1>4. ASSUME NEW f \in JsonForms5, path = Uri(f)
      PROVE  Typed(FormKeys[f], typed)
  <2>0. f \in Forms5 /\ f # "ap"
    BY DEF JsonForms5
  <2>1. Keys(path) = FormKeys[f] /\ path # <<"applyAP">>
    BY <1>4, <2>0, UrisAre
  <2>2. \A k \in ToSet(FormKeys[f]) : ToSet(typed[k]) \intersect ToSet(FormKeys[f]) = {}
    BY <1>2, <2>1 DEF FromPage
  <2>3. ASSUME NEW i \in DOMAIN FormKeys[f]
        PROVE  typed[FormKeys[f][i]] \in Seq(Char \ ToSet(FormKeys[f]))
    <3> DEFINE k == FormKeys[f][i]
               t == typed[k]
    <3>1. k \in ToSet(FormKeys[f])
      BY DEF ToSet
    <3>2. t \in Seq(Char) /\ \A n \in DOMAIN t : t[n] \notin ToSet(FormKeys[f])
      <4>1. t \in Seq(STRING)
        BY <1>2, <2>1, <3>1
      <4>2. ToSet(t) \intersect ToSet(FormKeys[f]) = {}
        BY <2>2, <3>1
      <4> HIDE DEF t
      <4> QED BY <4>1, <4>2, TextOf DEF ToSet
    <3> HIDE DEF t
    <3>3. t \in Seq(Char \ ToSet(FormKeys[f]))
      <4>1. t = [n \in 1..Len(t) |-> t[n]] /\ Len(t) \in Nat /\ \A n \in 1..Len(t) : t[n] \in Char \ ToSet(FormKeys[f])
        BY <3>2
      <4> QED BY <4>1, SeqIs
    <3> QED BY <3>3 DEF t
  <2> QED BY <2>3 DEF Typed
<1>5. path = Uri("network") => typed["wifi_MODE"] \in Modes
  <2> SUFFICES ASSUME path = Uri("network") PROVE typed["wifi_MODE"] \in Modes
    OBVIOUS
  <2>1. "network" \in Forms5
    BY DEF Forms5
  <2>2. Keys(path) = NetworkKeys
    BY <2>1, UrisAre, FormsAre
  <2>3. "wifi_MODE" \in DOMAIN typed
    BY <1>2, <2>2, NetworkKeysAre
  <2> QED BY <2>3 DEF FromPage, Modes
<1>6. \A k \in DOMAIN typed \intersect TextFields : Limited(k, typed[k])
  BY DEF FromPage
<1> QED BY <1>1, <1>3, <1>4, <1>5, <1>6 DEF TypedOK

LEMMA VisitsAre ==
  ASSUME NEW v, IsVisit(v)
  PROVE  VisitOK(v)
<1>1. FromPage(v.path, v.typed) /\ FromForm(v.kind, v.fields)
  BY DEF IsVisit
<1>2. v = [k \in Fields |-> v[k]] /\ v.memory \in BOOLEAN /\ v.tail \in Seq(STRING) /\ v.asked \in Seq(STRING)
  BY DEF IsVisit, Fields
<1>3. v.tail \in Seq(Char) /\ v.asked \in Seq(Char)
  BY <1>2, TextOf
<1>4. TypedOK(v.path, v.typed) /\ OwnUrl(v.path)
  BY <1>1, TypedFromPage
<1>5. /\ v.kind \in {"none", "post", "multipart"} /\ (v.kind = "none" => v.fields = <<>>)
      /\ v.kind = "post" => v.fields \in Seq(PostType)
      /\ v.kind = "multipart" =>
              /\ v.fields \in Seq(ItemType)
              /\ \A i \in DOMAIN v.fields, j \in DOMAIN v.fields :
                   IsFile(v.fields[i]) /\ v.fields[j].name = v.fields[i].name => i = j
  BY <1>1, FieldsAre
<1>6. (v.kind = "post" => PostVisit(v)) /\ (v.kind = "multipart" => MultiVisit(v))
  BY <1>2, <1>3, <1>5 DEF PostVisit, MultiVisit
<1> QED BY <1>2, <1>3, <1>4, <1>5, <1>6 DEF VisitOK

LEMMA BodyOfType ==
  ASSUME NEW v, VisitOK(v)
  PROVE  /\ BodyOf(v) \in Seq(Char)
         /\ v.kind = "none" => BodyOf(v) = <<>>
         /\ v.kind = "post" => PostVisit(v) /\ BodyOf(v) = PostBody(v)
         /\ v.kind = "multipart" => MultiVisit(v) /\ BodyOf(v) = MultipartBody(v)
         /\ v.kind \in {"none", "post", "multipart"} /\ v.memory \in BOOLEAN
<1>1. v.kind \in {"none", "post", "multipart"} /\ v.memory \in BOOLEAN
  BY DEF VisitOK
<1>2. CASE v.kind = "none"
  BY <1>1, <1>2 DEF BodyOf
<1>3. CASE v.kind = "post"
  <2>1. PostVisit(v) /\ BodyOf(v) = PostBody(v)
    BY <1>3 DEF VisitOK, BodyOf
  <2>2. PostBody(v) \in Seq(Char)
    BY <2>1, PostIs
  <2> QED BY <1>1, <1>3, <2>1, <2>2
<1>4. CASE v.kind = "multipart"
  <2>1. MultiVisit(v) /\ BodyOf(v) = MultipartBody(v)
    BY <1>4 DEF VisitOK, BodyOf
  <2>2. MultipartBody(v) \in Seq(Char)
    BY <2>1, BodyIs
  <2> QED BY <1>1, <1>4, <2>1, <2>2
<1> QED BY <1>1, <1>2, <1>3, <1>4

LEMMA NewIs ==
  ASSUME NEW b \in Seq(Char)
  PROVE  /\ Fresh(NewParser(Len(b)), b) /\ NewParser(Len(b)).params = <<>> /\ Small(NewParser(Len(b)), Len(b))
<1> DEFINE n == Len(b)
           p == NewParser(n)
<1>1. n \in Nat
  OBVIOUS
<1> HIDE DEF n
<1>2. /\ p.state = "EXPECT_BOUNDARY" /\ p.parsed = 0 /\ p.length = n /\ p.temp = <<>> /\ p.at = 0 /\ p.buffer = <<>>
      /\ p.uploads = <<>> /\ p.params = <<>>
  BY DEF NewParser
<1>3. p \in ParserType
  <2>1. "EXPECT_BOUNDARY" \in MultiStates
    BY DEF MultiStates
  <2>2. <<>> \in Seq(Char) /\ <<>> \in Seq(Param) /\ <<>> \in Seq(Piece)
    OBVIOUS
  <2> QED BY <1>1, <2>1, <2>2 DEF NewParser, ParserType
<1> HIDE DEF p
<1>4. Len(p.buffer) = 0 /\ p.params \in Seq(QueryParam)
  BY <1>2
<1>5. Fresh(p, b) /\ p.params = <<>>
  BY <1>2, <1>3, <1>4 DEF Fresh, n
<1>6. Small(p, n)
  BY <1>1, <1>2, <1>3, <1>4, Smaller DEF Small
<1> QED BY <1>5, <1>6 DEF p, n

LEMMA TypedIs ==
  ASSUME NEW v, VisitOK(v)
  PROVE  VisitTyped(v)
BY DEF VisitOK, TypedOK, VisitTyped

LEMMA SentIs ==
  ASSUME NEW v, VisitOK(v), NEW ph \in {"unsent", "head"}
  PROVE  ReadAt(v, ph, Query(v), 0, BodyOf(v), NewParser(Len(BodyOf(v))))
<1>1. BodyOf(v) \in Seq(Char)
  BY BodyOfType
<1>2. /\ Fresh(NewParser(Len(BodyOf(v))), BodyOf(v)) /\ NewParser(Len(BodyOf(v))).params = <<>>
      /\ Small(NewParser(Len(BodyOf(v))), Len(BodyOf(v)))
  BY <1>1, NewIs
<1>3. HeadOK(v, <<>>, Query(v))
  BY TypedIs, UrlStarts
<1>4. 0 \in 0..Len(Routes)
  BY RoutesAre
<1> QED BY <1>2, <1>3, <1>4 DEF ReadAt

\* A parameter of the url is read.
LEMMA UrlTurn ==
  ASSUME NEW v, NEW q, NEW b, NEW p, ReadAt(v, "head", q, 0, b, p), q # <<>>
  PROVE  ReadAt(v, "head", TurnLeaves(q), 0, b, [p EXCEPT !.params = Append(p.params, TurnOf(q))])
<1> DEFINE r == [p EXCEPT !.params = Append(p.params, TurnOf(q))]
<1>1. VisitOK(v) /\ Small(p, Len(BodyOf(v))) /\ b = BodyOf(v) /\ Fresh(p, b) /\ HeadOK(v, p.params, q)
  BY DEF ReadAt
<1>2. HeadOK(v, Append(p.params, TurnOf(q)), TurnLeaves(q))
  BY <1>1, TypedIs, UrlStep
<1>3. TurnOf(q) \in QueryParam
  <2>1. q \in Seq(Char)
    BY <1>1 DEF HeadOK
  <2> QED BY <2>1, TurnType
<1>4. p \in ParserType /\ p.params \in Seq(QueryParam)
  BY <1>1 DEF Fresh
<1>5. Append(p.params, TurnOf(q)) \in Seq(QueryParam) /\ Append(p.params, TurnOf(q)) \in Seq(Param)
  <2>1. Append(p.params, TurnOf(q)) \in Seq(QueryParam)
    BY <1>3, <1>4
  <2> QED BY <2>1, Smaller
<1>6. /\ r \in ParserType /\ r.params = Append(p.params, TurnOf(q)) /\ r.state = p.state /\ r.parsed = p.parsed
      /\ r.length = p.length /\ r.temp = p.temp /\ r.at = p.at /\ r.buffer = p.buffer /\ r.uploads = p.uploads
  <2> DEFINE ps == Append(p.params, TurnOf(q))
  <2>1. p \in ParserType /\ ps \in Seq(Param)
    BY <1>4, <1>5
  <2> HIDE DEF ps
  <2>2. LET x == [p EXCEPT !.params = ps]
        IN  /\ x \in ParserType /\ x.params = ps /\ x.state = p.state /\ x.parsed = p.parsed
            /\ x.length = p.length /\ x.temp = p.temp /\ x.at = p.at /\ x.buffer = p.buffer /\ x.uploads = p.uploads
    BY <2>1 DEF ParserType
  <2> QED BY <2>2 DEF ps
<1> HIDE DEF r
<1>7. Fresh(r, b) /\ Small(r, Len(BodyOf(v)))
  BY <1>1, <1>5, <1>6 DEF Fresh, Small
<1>8. HeadOK(v, r.params, TurnLeaves(q))
  BY <1>2, <1>6
<1>9. ReadAt(v, "head", TurnLeaves(q), 0, b, r)
  BY <1>1, <1>7, <1>8, RoutesAre DEF ReadAt
<1> QED BY <1>9 DEF r

\* The url is read, and a route is found or none.
LEMMA NoMore ==
  ASSUME NEW Q \in Seq(Param), NEW p, p.params = Q
  PROVE  UrlGives(p, Q)
<1>1. <<>> \in Seq(BodyParam)
  OBVIOUS
<1>2. Q = Q \o <<>>
  BY EmptyLeft
<1> QED BY <1>1, <1>2 DEF UrlGives

LEMMA NoFields ==
  ASSUME NEW v, VisitOK(v), BodyOf(v) = <<>>
  PROVE  v.kind # "multipart" /\ BodyParams(v) = <<>>
<1>1. v.kind # "multipart"
  <2> SUFFICES ASSUME v.kind = "multipart" PROVE FALSE
    OBVIOUS
  <2>1. MultiVisit(v) /\ MultipartBody(v) = <<>>
    BY BodyOfType
  <2>2. MultipartBody(v) \in Seq(Char) /\ Len(MultipartBody(v)) = Len(Boundary) + 2 + Len(Rest(v, 0))
        /\ Len(Rest(v, 0)) \in Nat /\ Len(Boundary) \in Nat \ {0}
    BY <2>1, BodyIs
  <2> QED BY <2>1, <2>2
<1>2. CASE v.kind = "none"
  BY <1>2 DEF BodyParams
<1>3. CASE v.kind = "post"
  <2>1. PostVisit(v) /\ PostBody(v) = <<>>
    BY <1>3, BodyOfType
  <2>2. v.fields = <<>>
    <3>1. Fresh(NewParser(Len(PostBody(v))), PostBody(v))
      <4>1. PostBody(v) \in Seq(Char)
        BY <2>1, PostIs
      <4> QED BY <4>1, NewIs
    <3> QED BY <2>1, <3>1, PostStarts
  <2>3. PostParams(v) = <<>>
    BY <2>2 DEF PostParams
  <2> QED BY <1>3, <2>3, FlattenEmpty DEF BodyParams
<1> QED BY <1>1, <1>2, <1>3, BodyOfType

LEMMA Attached ==
  ASSUME NEW v, NEW b, NEW p, ReadAt(v, "head", <<>>, 0, b, p),
         NEW h \in 0..Len(Routes), h # 0 => canHandle(Routes[h], v.path)
  PROVE  ReadAt(v, IF b = <<>> THEN "handle" ELSE "body", <<>>, h, b, p)
<1>1. VisitOK(v) /\ Small(p, Len(BodyOf(v))) /\ b = BodyOf(v) /\ Fresh(p, b) /\ HeadOK(v, p.params, <<>>)
  BY DEF ReadAt
<1> DEFINE Q == p.params
<1>2. p \in ParserType /\ Q \in Seq(QueryParam) /\ p.parsed = 0 /\ p.length = Len(b)
  BY <1>1 DEF Fresh
<1>3. Q \in Seq(Param)
  BY <1>2, Smaller
<1>4. CASE b = <<>>
  <2>1. v.kind # "multipart" /\ BodyParams(v) = <<>>
    BY <1>1, <1>4, NoFields
  <2>2. UrlGives(p, Q)
    BY <1>3, NoMore
  <2>3. Q = Q \o <<>>
    BY <1>3, EmptyLeft
  <2>4. AllRead(v, Q, p)
    BY <2>1, <2>3 DEF AllRead
  <2>5. ReadAt(v, "handle", <<>>, h, b, p)
    BY <1>1, <2>2, <2>4 DEF ReadAt
  <2> QED BY <1>4, <2>5
<1>5. CASE b # <<>>
  <2>1. v.kind # "none"
    BY <1>1, <1>5, BodyOfType
  <2>2. InBody(v, h, Q, p, b)
    <3>1. CASE h = 0
      <4>1. b \in Seq(Char) /\ Len(b) \in Nat
        BY <1>1, BodyOfType
      <4>2. Counts(v, Q, p, b)
        BY <1>1, <1>2, <4>1 DEF Counts
      <4> QED BY <1>5, <2>1, <3>1, <4>2 DEF InBody, InStage
    <3>2. CASE h # 0 /\ v.kind = "post"
      <4>1. PostVisit(v) /\ b = PostBody(v)
        BY <1>1, <3>2, BodyOfType
      <4>2. PostReads(v, Q, p, b)
        BY <1>1, <1>5, <4>1, PostStarts
      <4> QED BY <1>5, <2>1, <3>2, <4>2 DEF InBody, InStage
    <3>3. CASE h # 0 /\ v.kind # "post"
      <4>1. v.kind = "multipart"
        BY <1>1, <2>1, <3>3, BodyOfType
      <4>2. MultiVisit(v) /\ b = MultipartBody(v)
        BY <1>1, <4>1, BodyOfType
      <4>3. Reads(v, Q, p, b)
        BY <1>1, <4>2, MultiStarts
      <4> QED BY <1>5, <2>1, <3>3, <4>3 DEF InBody, InStage
    <3> QED BY <3>1, <3>2, <3>3
  <2>3. ReadAt(v, "body", <<>>, h, b, p)
    BY <1>1, <2>2 DEF ReadAt
  <2> QED BY <1>5, <2>3
<1> QED BY <1>4, <1>5

-----------------------------------------------------------------------------
(* The reading of a body.                                                  *)

LEMMA TailIs ==
  ASSUME NEW S, NEW b \in Seq(S), b # <<>>
  PROVE  /\ Tail(b) \in Seq(S) /\ Len(b) = Len(Tail(b)) + 1 /\ Len(Tail(b)) \in Nat
         /\ Tail(b) = <<>> => Len(b) = 1
<1>1. Len(b) \in Nat /\ Len(b) # 0
  BY EmptySeq
<1>2. Tail(b) \in Seq(S) /\ Len(Tail(b)) = Len(b) - 1
  <2>1. <<>> \in Seq(S)
    BY EmptySeq
  <2> QED BY <2>1, Peel
<1>3. Tail(b) = <<>> => Len(Tail(b)) = 0
  BY <1>2, EmptySeq
<1> QED BY <1>1, <1>2, <1>3

\* The end of a body that is read.
LEMMA MultiOver ==
  ASSUME NEW v, MultiVisit(v), NEW Q \in Seq(Param), NEW p, NEW b, Reads(v, Q, p, b), p.parsed = p.length
  PROVE  Finished(v, Q, p) \/ Failed(v, Q, p)
<1>1. Here(v, p, b) /\ Stage(v, Q, p, b)
  BY DEF Reads
<1>2. b \in Seq(Char) /\ p.parsed + Len(b) = Len(MultipartBody(v)) /\ p.parsed \in Nat
  BY <1>1 DEF Here, ParserType
<1>3. p.length = Len(MultipartBody(v)) => b = <<>>
  BY <1>2
<1>4. b # <<>> => Finished(v, Q, p) \/ Failed(v, Q, p)
  BY <1>1, <1>3 DEF Stage, Opens, Between, Feeds, Heads, Items, Upto
<1>5. b = <<>> => Finished(v, Q, p) \/ Failed(v, Q, p)
  <2>1. \A last \in BOOLEAN : b = <<>> => Finished(v, Q, p) \/ Failed(v, Q, p)
    BY ReadsStep
  <2>2. TRUE \in BOOLEAN
    OBVIOUS
  <2> QED BY <2>1, <2>2
<1> QED BY <1>4, <1>5

\* A byte of a body, and what it does to the parser.
ByteNext(v, h, p, c, last) ==
  IF h = 0 THEN [p EXCEPT !.parsed = @ + 1]
  ELSE IF v.kind = "post" THEN PlainPostChar(p, c) ELSE MultipartByte(p, c, last, v.memory)

LEMMA OneParsed ==
  ASSUME NEW p \in ParserType
  PROVE  LET r == [p EXCEPT !.parsed = @ + 1]
         IN  /\ r \in ParserType /\ r.parsed = p.parsed + 1 /\ r.at = p.at /\ r.buffer = p.buffer
             /\ r.params = p.params /\ r.length = p.length
<1> DEFINE n == p.parsed + 1
           r == [p EXCEPT !.parsed = n]
<1>1. n \in Nat
  BY DEF ParserType
<1> HIDE DEF n
<1>2. /\ r \in ParserType /\ r.parsed = n /\ r.at = p.at /\ r.buffer = p.buffer
      /\ r.params = p.params /\ r.length = p.length
  BY <1>1 DEF ParserType
<1>3. r = [p EXCEPT !.parsed = @ + 1] /\ n = p.parsed + 1
  BY DEF n
<1> HIDE DEF r
<1> QED BY <1>2, <1>3

LEMMA StageStep ==
  ASSUME NEW v, VisitOK(v), v.kind # "none", NEW h, NEW Q \in Seq(Param), NEW p, NEW b, InStage(v, h, Q, p, b),
         b # <<>>, NEW last \in BOOLEAN
  PROVE  InStage(v, h, Q, ByteNext(v, h, p, b[1], last), Tail(b))
<1>1. CASE h = 0
  <2> DEFINE r == [p EXCEPT !.parsed = @ + 1]
  <2>1. Counts(v, Q, p, b)
    BY <1>1 DEF InStage
  <2>2. /\ p \in ParserType /\ p.parsed \in Nat /\ b \in Seq(Char) /\ p.at < Len(Boundary)
        /\ Len(p.buffer) < BufferSize /\ p.params = Q /\ p.length = Len(BodyOf(v))
        /\ p.parsed + Len(b) = Len(BodyOf(v))
    BY <2>1 DEF Counts, Small, ParserType
  <2>3. /\ r \in ParserType /\ r.parsed = p.parsed + 1 /\ r.at = p.at /\ r.buffer = p.buffer /\ r.params = p.params
        /\ r.length = p.length
    <3>1. p \in ParserType
      BY <2>2
    <3> QED BY <3>1, OneParsed
  <2>4. Tail(b) \in Seq(Char) /\ Len(b) = Len(Tail(b)) + 1 /\ Len(Tail(b)) \in Nat
    BY <2>2, TailIs
  <2> HIDE DEF r
  <2>5. r.parsed + Len(Tail(b)) = Len(BodyOf(v)) /\ r.parsed <= Len(BodyOf(v))
    BY <2>2, <2>3, <2>4
  <2>6. Counts(v, Q, r, Tail(b))
    BY <2>2, <2>3, <2>4, <2>5 DEF Counts, Small
  <2> QED BY <1>1, <2>6 DEF InStage, ByteNext, r
<1>2. CASE h # 0 /\ v.kind = "post"
  <2>1. PostVisit(v) /\ PostReads(v, Q, p, b)
    BY <1>2, BodyOfType DEF InStage
  <2>2. PostReads(v, Q, PlainPostChar(p, b[1]), Tail(b))
    BY <2>1, PostStep
  <2> QED BY <1>2, <2>2 DEF InStage, ByteNext
<1>3. CASE h # 0 /\ v.kind # "post"
  <2>1. MultiVisit(v) /\ Reads(v, Q, p, b)
    BY <1>3, BodyOfType DEF InStage
  <2>2. Reads(v, Q, MultipartByte(p, b[1], last, v.memory), Tail(b))
    BY <2>1, ReadsStep
  <2> QED BY <1>3, <2>2 DEF InStage, ByteNext
<1> QED BY <1>1, <1>2, <1>3

LEMMA StageSmall ==
  ASSUME NEW v, VisitOK(v), v.kind # "none", NEW h, NEW Q \in Seq(Param), NEW p, NEW b, InStage(v, h, Q, p, b)
  PROVE  Small(p, Len(BodyOf(v))) /\ b \in Seq(Char)
<1>1. CASE h = 0
  BY <1>1 DEF InStage, Counts
<1>2. CASE h # 0 /\ v.kind = "post"
  <2>1. PostVisit(v) /\ PostHere(v, p, b) /\ BodyOf(v) = PostBody(v)
    BY <1>2, BodyOfType DEF InStage, PostReads
  <2>2. /\ p \in ParserType /\ b \in Seq(Char) /\ p.parsed + Len(b) = Len(PostBody(v)) /\ p.at = 0 /\ Len(p.buffer) = 0
    BY <2>1 DEF PostHere
  <2>3. p.parsed \in Nat /\ Len(b) \in Nat
    BY <2>2 DEF ParserType
  <2>4. p.parsed <= Len(PostBody(v))
    BY <2>2, <2>3
  <2> QED BY <2>1, <2>2, <2>4, Smaller DEF Small
<1>3. CASE h # 0 /\ v.kind # "post"
  <2>1. Here(v, p, b) /\ BodyOf(v) = MultipartBody(v)
    BY <1>3, BodyOfType DEF InStage, Reads
  <2>2. /\ p \in ParserType /\ b \in Seq(Char) /\ p.parsed + Len(b) = Len(MultipartBody(v)) /\ p.at < Len(Boundary)
        /\ Len(p.buffer) < BufferSize
    BY <2>1 DEF Here
  <2>3. p.parsed \in Nat /\ Len(b) \in Nat
    BY <2>2 DEF ParserType
  <2>4. p.parsed <= Len(MultipartBody(v))
    BY <2>2, <2>3
  <2> QED BY <2>1, <2>2, <2>4 DEF Small
<1> QED BY <1>1, <1>2, <1>3

LEMMA StageOver ==
  ASSUME NEW v, VisitOK(v), v.kind # "none", NEW h, NEW Q \in Seq(Param), NEW p, NEW b, InStage(v, h, Q, p, b),
         p.parsed = p.length
  PROVE  UrlGives(p, Q) /\ (h # 0 /\ v.memory => AllRead(v, Q, p))
<1>1. CASE h = 0
  <2>1. p.params = Q
    BY <1>1 DEF InStage, Counts
  <2> QED BY <1>1, <2>1, NoMore
<1>2. CASE h # 0 /\ v.kind = "post"
  <2>1. PostVisit(v) /\ PostReads(v, Q, p, b)
    BY <1>2, BodyOfType DEF InStage
  <2>2. b = <<>>
    <3>1. p \in ParserType /\ b \in Seq(Char) /\ p.parsed + Len(b) = Len(PostBody(v)) /\ p.length = Len(PostBody(v))
      BY <2>1 DEF PostReads, PostHere
    <3>2. p.parsed \in Nat /\ Len(b) \in Nat
      BY <3>1 DEF ParserType
    <3>3. Len(b) = 0
      BY <3>1, <3>2
    <3> QED BY <3>1, <3>3
  <2>3. (\E r \in Seq(BodyParam) : p.params = Q \o r) /\ p.params = Q \o FlattenSeq(PostParams(v))
    BY <2>1, <2>2, PostEnds
  <2> QED BY <1>2, <2>3 DEF UrlGives, AllRead, BodyParams
<1>3. CASE h # 0 /\ v.kind # "post"
  <2>1. MultiVisit(v) /\ Reads(v, Q, p, b) /\ v.kind = "multipart"
    BY <1>3, BodyOfType DEF InStage
  <2>2. Finished(v, Q, p) \/ Failed(v, Q, p)
    BY <2>1, MultiOver
  <2>3. /\ \E r \in Seq(BodyParam) : p.params = Q \o r
        /\ v.memory => /\ p.params = Q \o FlattenSeq(ParamsOf(v))
                       /\ FilesIn(v, Len(v.fields), Len(v.fields), p.uploads)
    BY <2>1, <2>2, MultiEnds
  <2> QED BY <2>1, <2>3 DEF UrlGives, AllRead, BodyParams
<1> QED BY <1>1, <1>2, <1>3

LEMMA ByteStep ==
  ASSUME NEW v, NEW q, NEW h, NEW b, NEW p, ReadAt(v, "body", q, h, b, p), b # <<>>,
         NEW last \in BOOLEAN, Len(b) = 1 => last
  PROVE  LET r == ByteNext(v, h, p, b[1], last)
         IN  ReadAt(v, IF last /\ r.parsed = r.length THEN "handle" ELSE "body", q, h, Tail(b), r)
<1> DEFINE r == ByteNext(v, h, p, b[1], last)
<1>1. VisitOK(v) /\ h \in 0..Len(Routes) /\ (h # 0 => canHandle(Routes[h], v.path))
  BY DEF ReadAt
<1>2. PICK Q : HeadOK(v, Q, <<>>) /\ InBody(v, h, Q, p, b)
  BY DEF ReadAt
<1>3. Q \in Seq(Param) /\ v.kind # "none" /\ InStage(v, h, Q, p, b)
  BY <1>2, Smaller DEF HeadOK, InBody
<1>4. InStage(v, h, Q, r, Tail(b))
  BY <1>1, <1>3, StageStep
<1>5. b \in Seq(Char)
  BY <1>1, <1>3, StageSmall
<1>6. Tail(b) = <<>> => last
  BY <1>5, TailIs
<1> HIDE DEF r
<1>7. Small(r, Len(BodyOf(v)))
  BY <1>1, <1>3, <1>4, StageSmall
<1>8. CASE last /\ r.parsed = r.length
  <2>1. UrlGives(r, Q) /\ (h # 0 /\ v.memory => AllRead(v, Q, r))
    BY <1>1, <1>3, <1>4, <1>8, StageOver
  <2>2. ReadAt(v, "handle", q, h, Tail(b), r)
    BY <1>1, <1>2, <1>7, <2>1 DEF ReadAt
  <2> QED BY <1>8, <2>2 DEF r
<1>9. CASE ~(last /\ r.parsed = r.length)
  <2>1. InBody(v, h, Q, r, Tail(b))
    BY <1>3, <1>4, <1>6, <1>9 DEF InBody
  <2>2. ReadAt(v, "body", q, h, Tail(b), r)
    BY <1>1, <1>2, <1>7, <2>1 DEF ReadAt
  <2> QED BY <1>9, <2>2 DEF r
<1> QED BY <1>8, <1>9

-----------------------------------------------------------------------------
(* The settings.                                                           *)

WifiTexts == {"wifi_ssid", "wifi_pass", "wifi_MODE"}

LEMMA KeySets ==
  /\ ToSet(FormKeys["ap"]) = {"txtaplan", "txtssid", "txtpass"}
  /\ ToSet(FormKeys["network"]) = WifiTexts \union {"txtipadd", "net_m"}
  /\ ToSet(FormKeys["ntp"]) = {"hntp", "pntp"}
  /\ ToSet(FormKeys["service"]) = ServiceTexts \union {"port", "interval_temp", "interval_ping"}
  /\ ToSet(FormKeys["calibration"]) = {"ical0", "ocal0", "ical1", "ocal1"}
BY FormsAre, APKeysAre, NetworkKeysAre, NtpKeysAre, ServiceKeysAre, CalibrationKeysAre DEF WifiTexts

LEMMA TextKeysAre ==
  /\ TextKeys("network") = WifiTexts /\ TextKeys("ntp") = {"hntp"} /\ TextKeys("service") = ServiceTexts
  /\ TextKeys("calibration") = {}
<1>1. TextKeys("network") = WifiTexts
  BY KeySets DEF TextKeys, Addresses, NumberFields, WifiTexts
<1>2. TextKeys("ntp") = {"hntp"}
  BY KeySets DEF TextKeys, Addresses, NumberFields
<1>3. TextKeys("service") = ServiceTexts
  BY KeySets DEF TextKeys, Addresses, NumberFields, ServiceTexts
<1>4. TextKeys("calibration") = {}
  BY KeySets DEF TextKeys, Addresses, NumberFields
<1> QED BY <1>1, <1>2, <1>3, <1>4

LEMMA AllKeysAre ==
  AllKeys = {"txtaplan", "txtssid", "txtpass", "txtipadd", "net_m"} \union WifiTexts \union {"hntp"} \union ServiceTexts
            \union NumberFields
<1>1. AllKeys = UNION {ToSet(FormKeys[f]) : f \in Forms5}
  BY ListsAre
<1>2. \A k : k \in AllKeys <=> \/ k \in ToSet(FormKeys["ap"]) \/ k \in ToSet(FormKeys["network"])
                              \/ k \in ToSet(FormKeys["ntp"]) \/ k \in ToSet(FormKeys["service"])
                              \/ k \in ToSet(FormKeys["calibration"])
  BY <1>1 DEF Forms5
<1> QED BY <1>2, KeySets DEF NumberFields

LEMMA Apart ==
  ASSUME NEW f \in Forms5, NEW g \in Forms5, f # g
  PROVE  ToSet(FormKeys[f]) \intersect ToSet(FormKeys[g]) = {}
BY KeySets DEF Forms5, WifiTexts, ServiceTexts

LEMMA KeysIn ==
  ASSUME NEW f \in Forms5
  PROVE  /\ ToSet(FormKeys[f]) \subseteq AllKeys
         /\ \A k \in ToSet(FormKeys[f]) : k \in Addresses \/ k \in NumberFields \/ k \in TextKeys(f)
         /\ TextKeys(f) \subseteq ToSet(FormKeys[f])
BY ListsAre DEF TextKeys

\* The fields of text, and those that are read on.
LEMMA TextFieldsAre ==
  /\ TextFields = {"txtssid", "txtpass", "hntp"} \union WifiTexts \union ServiceTexts
  /\ \A f \in Forms5 : TextKeys(f) = ToSet(FormKeys[f]) \intersect TextFields
  /\ \A k \in TextFields : k \in {"txtssid", "txtpass"} \/ \E f \in JsonForms5 : k \in TextKeys(f)
<1>1. TextFields = AllKeys \ (Addresses \union NumberFields)
  BY DEF TextFields, FormFields, AllKeys
<1>2. TextFields = {"txtssid", "txtpass", "hntp"} \union WifiTexts \union ServiceTexts
  BY <1>1, AllKeysAre DEF Addresses, NumberFields, WifiTexts, ServiceTexts
<1>3. \A f \in Forms5 : TextKeys(f) = ToSet(FormKeys[f]) \intersect TextFields
  BY <1>1, KeysIn DEF TextKeys
<1>4. {"network", "ntp", "service"} \subseteq JsonForms5
  BY DEF JsonForms5, Forms5
<1> QED BY <1>2, <1>3, <1>4, TextKeysAre

LEMMA HeldIs == \A k : 0 \in Held(k)
<1>1. 0 \in 0..65535 /\ 0 \in -32768..32767 /\ 0 \in Int
  OBVIOUS
<1>2. 0 \in (-Widest - 1)..Widest
  BY FormsAssumption
<1> QED BY <1>1, <1>2 DEF Held

LEMMA ShippedOK == CfgOK(Shipped)
<1> DEFINE s(k) == CASE k = "txtaplan" -> <<192, 168, 4, 1>> [] k \in {"txtipadd", "net_m"} -> <<0, 0, 0, 0>>
    [] k = "txtssid" -> <<"logger">> [] k = "txtpass" -> <<"k", "w">>
    [] k = "wifi_MODE" -> <<"dhcp">> [] k = "hntp" -> <<"pool">> [] k \in NumberFields -> 0 [] OTHER -> <<>>
<1>1. Shipped = [k \in AllKeys |-> s(k)]
  BY DEF Shipped, FormFields, AllKeys
<1>2. s("txtaplan") = <<192, 168, 4, 1>> /\ s("txtipadd") = <<0, 0, 0, 0>> /\ s("net_m") = <<0, 0, 0, 0>>
  BY DEF NumberFields
<1>3. s("txtssid") = <<"logger">> /\ s("txtpass") = <<"k", "w">> /\ s("wifi_MODE") = <<"dhcp">> /\ s("hntp") = <<"pool">>
  BY DEF NumberFields
<1>4. \A k \in NumberFields : s(k) = 0
  BY DEF NumberFields
<1>5. \A k \in ServiceTexts \union {"wifi_ssid", "wifi_pass"} : s(k) = <<>>
  BY DEF ServiceTexts, NumberFields
<1> HIDE DEF s
<1>6. \A k \in AllKeys : Shipped[k] = s(k)
  BY <1>1
<1>7. \A k \in Addresses : Shipped[k] \in [1..4 -> Octets]
  <2>1. <<192, 168, 4, 1>> \in [1..4 -> Octets]
    <3>1. 192 \in Octets /\ 168 \in Octets /\ 4 \in Octets /\ 1 \in Octets
      BY NumbersAre
    <3>2. \A a, b, c, d \in Octets : <<a, b, c, d>> \in [1..4 -> Octets]
      OBVIOUS
    <3> QED BY <3>1, <3>2
  <2>2. <<0, 0, 0, 0>> \in [1..4 -> Octets]
    <3>1. 0 \in Octets
      BY NumbersAre
    <3>2. \A a \in Octets : <<a, a, a, a>> \in [1..4 -> Octets]
      OBVIOUS
    <3> QED BY <3>1, <3>2
  <2>3. \A k \in Addresses : s(k) \in [1..4 -> Octets] /\ k \in AllKeys
    BY <1>2, <2>1, <2>2, AllKeysAre DEF Addresses
  <2> QED BY <1>6, <2>3
<1>8. \A k \in NumberFields : NumberOK(k, Shipped[k])
  <2>1. \E d \in DOMAIN Number : Number[d] = 0
    BY NumbersAre DEF Octets
  <2>2. \A k : Converted(k, 0) = 0
    BY HeldIs DEF Converted
  <2>3. \A k \in NumberFields : Shipped[k] = 0
    BY <1>4, <1>6, AllKeysAre
  <2> QED BY <2>1, <2>2, <2>3 DEF NumberOK
<1>9. \A f \in JsonForms5 : \A k \in TextKeys(f) : Shipped[k] \in Seq(Char \ ToSet(FormKeys[f]))
  <2> SUFFICES ASSUME NEW f \in JsonForms5, NEW k \in TextKeys(f) PROVE Shipped[k] \in Seq(Char \ ToSet(FormKeys[f]))
    OBVIOUS
  <2>0. f \in Forms5 /\ k \in AllKeys
    BY KeysIn DEF JsonForms5
  <2>1. CASE k \in ServiceTexts \union {"wifi_ssid", "wifi_pass"}
    BY <1>5, <1>6, <2>0, <2>1, EmptySeq
  <2>2. CASE k = "wifi_MODE"
    <3>1. f = "network"
      BY <2>2, TextKeysAre DEF JsonForms5, Forms5, ServiceTexts
    <3>2. "dhcp" \in Char \ ToSet(FormKeys["network"])
      BY KeySets, CharHas DEF Literals, WifiTexts
    <3>3. << "dhcp" >> \in Seq(Char \ ToSet(FormKeys["network"]))
      BY <3>2, SingleType
    <3> QED BY <1>3, <1>6, <2>0, <2>2, <3>1, <3>3
  <2>3. CASE k = "hntp"
    <3>1. f = "ntp"
      BY <2>3, TextKeysAre DEF JsonForms5, Forms5, ServiceTexts, WifiTexts
    <3>2. "pool" \in Char \ ToSet(FormKeys["ntp"])
      BY KeySets, CharHas DEF Literals
    <3>3. << "pool" >> \in Seq(Char \ ToSet(FormKeys["ntp"]))
      BY <3>2, SingleType
    <3> QED BY <1>3, <1>6, <2>0, <2>3, <3>1, <3>3
  <2>4. k \in ServiceTexts \union {"wifi_ssid", "wifi_pass"} \/ k = "wifi_MODE" \/ k = "hntp"
    BY TextKeysAre DEF JsonForms5, Forms5, WifiTexts
  <2> QED BY <2>1, <2>2, <2>3, <2>4
<1>10. Shipped["txtssid"] \in Seq(Char) /\ Shipped["txtpass"] \in Seq(Char)
  <2>1. "logger" \in Char /\ "k" \in Char /\ "w" \in Char
    BY CharHas DEF Literals
  <2>2. << "logger" >> \in Seq(Char) /\ <<"k", "w">> \in Seq(Char)
    BY <2>1, SingleType, PairType
  <2>3. "txtssid" \in AllKeys /\ "txtpass" \in AllKeys
    BY AllKeysAre
  <2> QED BY <1>3, <1>6, <2>2, <2>3
<1>11. Shipped["wifi_MODE"] \in Modes
  BY <1>3, <1>6, AllKeysAre DEF Modes, WifiTexts
<1>12. \A k \in TextFields : Shipped[k] \in Seq(Char)
  <2> SUFFICES ASSUME NEW k \in TextFields PROVE Shipped[k] \in Seq(Char)
    OBVIOUS
  <2>1. ASSUME NEW f \in JsonForms5, k \in TextKeys(f) PROVE Shipped[k] \in Seq(Char)
    <3>1. Shipped[k] \in Seq(Char \ ToSet(FormKeys[f]))
      BY <1>9, <2>1
    <3> QED BY <3>1
  <2> QED BY <1>10, <2>1, TextFieldsAre
<1>14. \A k \in TextFields : Len(Shipped[k]) < Size[k] /\ ~(Bytes(Shipped[k]) >= Size[k])
  <2> SUFFICES ASSUME NEW k \in TextFields PROVE Len(Shipped[k]) < Size[k] /\ ~(Bytes(Shipped[k]) >= Size[k])
    OBVIOUS
  <2> DEFINE t == Shipped[k]
  <2>1. t \in Seq(Char)
    BY <1>12
  <2> HIDE DEF t
  <2>2. Bytes(t) \in Nat /\ Bytes(t) >= Len(t) /\ Len(t) \in Nat
    BY <2>1, BytesIs, LenProperties
  <2>3. Bytes(t) < Size[k] /\ Size[k] \in Nat
    BY ShippedAssumption, FormsAssumption DEF t
  <2>4. Len(t) < Size[k] /\ ~(Bytes(t) >= Size[k])
    BY <2>2, <2>3
  <2> QED BY <2>4 DEF t
<1>15. ReadOn("c_id", Shipped["c_id"], Shipped["U_name"]) = Shipped["c_id"]
  BY <1>14, TextFieldsAre DEF ReadOn, ServiceTexts
<1>13. Shipped = [k \in AllKeys |-> Shipped[k]]
  BY <1>1
<1> QED BY <1>7, <1>8, <1>9, <1>10, <1>11, <1>13, <1>14, <1>15 DEF CfgOK

-----------------------------------------------------------------------------
(* What a handler reads, and what it stores.                               *)

\* The form a request was for.
LEMMA KindIs ==
  ASSUME ReadInv, Kind \in Forms5
  PROVE  /\ handler # 0 /\ visit.path = Uri(Kind) /\ DOMAIN visit.typed = ToSet(FormKeys[Kind])
         /\ Keys(visit.path) = FormKeys[Kind] /\ (visit.path = <<"applyAP">> <=> Kind = "ap")
         /\ \A k \in ToSet(FormKeys[Kind]) : visit.typed[k] \in Seq(Char)
<1>1. handler # 0 /\ handler \in 1..Len(Routes) /\ Kind = Routes[handler].kind
  <2>1. "none" \notin Forms5
    BY DEF Forms5
  <2>2. handler # 0 /\ Kind = Routes[handler].kind
    BY <2>1 DEF Kind
  <2>3. handler \in 0..Len(Routes)
    BY DEF ReadInv, ReadAt
  <2> QED BY <2>2, <2>3, RoutesAre
<1>2. canHandle(Routes[handler], visit.path) /\ OwnUrl(visit.path) /\ VisitOK(visit)
  BY <1>1 DEF ReadInv, ReadAt, VisitOK
<1>3. visit.path = Uri(Kind)
  <2>1. Routes[handler].kind \in Forms5
    BY <1>1
  <2>2. visit.path = Routes[FormRoute[Routes[handler].kind]].uri
    BY <1>1, <1>2, <2>1, HandlerIs
  <2> QED BY <1>1, <2>2 DEF Uri
<1>4. Keys(visit.path) = FormKeys[Kind] /\ (visit.path = <<"applyAP">> <=> Kind = "ap")
  BY <1>3, UrisAre
<1>5. visit.typed \in [ToSet(Keys(visit.path)) -> Seq(Char)]
  BY <1>2 DEF VisitOK, TypedOK
<1> QED BY <1>1, <1>3, <1>4, <1>5

\* The members of a form's JSON are what was typed.
LEMMA JsonRead ==
  ASSUME ReadInv, phase = "handle", Kind \in JsonForms5
  PROVE  \A k \in ToSet(FormKeys[Kind]) :
           Member(Kind, k) = visit.typed[k] /\ visit.typed[k] \in Seq(Char \ ToSet(FormKeys[Kind]))
<1> DEFINE f == Kind
           json == Json(FormKeys[f], visit.typed)
<1>1. f \in Forms5 /\ f \in Forms5 \ {"ap"}
  BY DEF JsonForms5
<1>2. visit.path = Uri(f)
  BY <1>1, KindIs
<1>3. PICK Q : HeadOK(visit, Q, <<>>) /\ UrlGives(parser, Q)
  BY DEF ReadInv, ReadAt
<1>4. VisitOK(visit) /\ VisitTyped(visit)
  BY TypedIs DEF ReadInv, ReadAt
<1> HIDE DEF f
<1>5. Q \in Seq(QueryParam) /\ Q = << UrlParam("parameters", Json(FormKeys[f], visit.typed)) >>
  <2>1. visit.path = Routes[FormRoute[f]].uri
    BY <1>2 DEF Uri
  <2> QED BY <1>1, <1>3, <1>4, <2>1, UrlEnds
<1>6. Typed(FormKeys[f], visit.typed)
  BY <1>1, <1>2, <1>4 DEF VisitOK, TypedOK, JsonForms5
<1>7. getParam("parameters") = Json(FormKeys[f], visit.typed)
  <2>1. << UrlParam("parameters", json) >> \in Seq(QueryParam) /\ UrlGives(parser, << UrlParam("parameters", json) >>)
    BY <1>3, <1>5
  <2> HIDE DEF json
  <2>2. getParam("parameters") = json
    BY <2>1, JsonGiven
  <2> QED BY <2>2 DEF json
<1>8. \A k \in ToSet(FormKeys[f]) : Member(f, k) = visit.typed[k]
  BY <1>1, <1>6, <1>7, MemberIs
<1>9. \A k \in ToSet(FormKeys[f]) : visit.typed[k] \in Seq(Char \ ToSet(FormKeys[f]))
  BY <1>6 DEF Typed, ToSet
<1> QED BY <1>8, <1>9 DEF f

\* The parameters of the access point's form: the password without the spaces
\* it ends with.
LEMMA APRead ==
  ASSUME ReadInv, phase = "handle", Kind = "ap"
  PROVE  LET t1 == visit.typed["txtaplan"]
             t2 == visit.typed["txtssid"]
             t3 == visit.typed["txtpass"]
         IN  /\ t1 \in Seq(Char) /\ t2 \in Seq(Char) /\ t3 \in Seq(Char)
             /\ \A k : Named(k) # {} => getParam(k) \in Seq(Char)
             /\ t1 \in Seq(Clean) => getParam("txtaplan") = t1
             /\ t1 \in Seq(Clean) /\ t2 \in Seq(Clean) /\ t3 \in Seq(Clean) =>
                  getParam("txtssid") = t2 /\ getParam("txtpass") = Stripped(t3)
<1> DEFINE t1 == visit.typed["txtaplan"]
           t2 == visit.typed["txtssid"]
           t3 == visit.typed["txtpass"]
           p3 == Pass(visit)
<1>1. visit.path = <<"applyAP">> /\ \A k \in {"txtaplan", "txtssid", "txtpass"} : visit.typed[k] \in Seq(Char)
  BY KindIs, KeySets DEF Forms5
<1>2. t1 \in Seq(Char) /\ t2 \in Seq(Char) /\ t3 \in Seq(Char)
  BY <1>1
<1>3. PICK Q : HeadOK(visit, Q, <<>>) /\ UrlGives(parser, Q)
  BY DEF ReadInv, ReadAt
<1>4. VisitTyped(visit)
  BY TypedIs DEF ReadInv, ReadAt
<1>5. /\ Q \in Seq(QueryParam)
      /\ t1 \in Seq(Clean) => Q # <<>> /\ Q[1] = UrlParam("txtaplan", t1)
      /\ t1 \in Seq(Clean) /\ t2 \in Seq(Clean) /\ p3 \in Seq(Clean) =>
           Q = <<UrlParam("txtaplan", t1), UrlParam("txtssid", t2), UrlParam("txtpass", p3)>>
  BY <1>1, <1>3, <1>4, UrlEnds
<1>0. p3 = Stripped(t3)
  BY DEF Pass
<1> HIDE DEF t1, t2, t3, p3
<1>6. \A k : Named(k) # {} => getParam(k) \in Seq(Char)
  BY <1>3, <1>5, FirstNamed
<1>7. /\ \A s : Q # <<>> /\ Q[1] = UrlParam("txtaplan", s) => getParam("txtaplan") = s
      /\ \A s, t, u : Q = <<UrlParam("txtaplan", s), UrlParam("txtssid", t), UrlParam("txtpass", u)>> =>
              getParam("txtaplan") = s /\ getParam("txtssid") = t /\ getParam("txtpass") = u
  BY <1>3, <1>5, APGiven
<1>8. t1 \in Seq(Clean) => getParam("txtaplan") = t1
  BY <1>5, <1>7
<1>9. t3 \in Seq(Clean) => p3 \in Seq(Clean)
  BY <1>0, StrippedType
<1>10. t1 \in Seq(Clean) /\ t2 \in Seq(Clean) /\ t3 \in Seq(Clean) =>
         getParam("txtssid") = t2 /\ getParam("txtpass") = p3
  BY <1>5, <1>7, <1>9
<1> QED BY <1>0, <1>2, <1>6, <1>8, <1>10 DEF t1, t2, t3

LEMMA StoredOK ==
  ASSUME NEW c, CfgOK(c), NEW f \in JsonForms5, NEW d, d = [k \in AllKeys |-> d[k]],
         \A k \in AllKeys \ ToSet(FormKeys[f]) : d[k] = c[k],
         \A k \in ToSet(FormKeys[f]) \intersect NumberFields : NumberOK(k, d[k]),
         \A k \in TextKeys(f) : d[k] \in Seq(Char \ ToSet(FormKeys[f])),
         \A k \in ToSet(FormKeys[f]) \intersect Addresses : d[k] \in [1..4 -> Octets],
         d["wifi_MODE"] \in Modes,
         \A k \in TextKeys(f) \ DOMAIN NextField : Len(d[k]) < Size[k],
         ReadOn("c_id", d["c_id"], d["U_name"]) = d["c_id"]
  PROVE  CfgOK(d)
<1> DEFINE K == ToSet(FormKeys[f])
<1>0. f \in Forms5 /\ f # "ap"
  BY DEF JsonForms5
<1>1. \A k \in Addresses : d[k] \in [1..4 -> Octets]
  <2> SUFFICES ASSUME NEW k \in Addresses PROVE d[k] \in [1..4 -> Octets]
    OBVIOUS
  <2>1. k \in AllKeys /\ c[k] \in [1..4 -> Octets]
    BY AllKeysAre DEF Addresses, CfgOK
  <2> QED BY <2>1
<1>2. \A k \in NumberFields : NumberOK(k, d[k])
  <2> SUFFICES ASSUME NEW k \in NumberFields PROVE NumberOK(k, d[k])
    OBVIOUS
  <2>1. k \in AllKeys /\ NumberOK(k, c[k])
    BY AllKeysAre DEF CfgOK
  <2> QED BY <2>1
<1>3. \A g \in JsonForms5 : \A k \in TextKeys(g) : d[k] \in Seq(Char \ ToSet(FormKeys[g]))
  <2> SUFFICES ASSUME NEW g \in JsonForms5, NEW k \in TextKeys(g) PROVE d[k] \in Seq(Char \ ToSet(FormKeys[g]))
    OBVIOUS
  <2>0. g \in Forms5
    BY DEF JsonForms5
  <2>1. k \in ToSet(FormKeys[g]) /\ k \in AllKeys
    BY <2>0, KeysIn
  <2>2. CASE g = f
    BY <2>2
  <2>3. CASE g # f
    <3>1. k \notin ToSet(FormKeys[f])
      BY <1>0, <2>0, <2>1, <2>3, Apart
    <3>2. c[k] \in Seq(Char \ ToSet(FormKeys[g]))
      BY DEF CfgOK
    <3> QED BY <2>1, <3>1, <3>2
  <2> QED BY <2>2, <2>3
<1>4. d["txtssid"] \in Seq(Char) /\ d["txtpass"] \in Seq(Char)
  <2>1. "ap" \in Forms5
    BY DEF Forms5
  <2>2. "txtssid" \notin ToSet(FormKeys[f]) /\ "txtpass" \notin ToSet(FormKeys[f])
    BY <1>0, <2>1, Apart, KeySets
  <2>3. c["txtssid"] \in Seq(Char) /\ c["txtpass"] \in Seq(Char) /\ "txtssid" \in AllKeys /\ "txtpass" \in AllKeys
    BY AllKeysAre DEF CfgOK
  <2> QED BY <2>2, <2>3
<1>5. \A k \in TextFields \ DOMAIN NextField : Len(d[k]) < Size[k]
  <2> SUFFICES ASSUME NEW k \in TextFields, k \notin DOMAIN NextField PROVE Len(d[k]) < Size[k]
    OBVIOUS
  <2>1. CASE k \in K
    BY <1>0, <2>1, TextFieldsAre
  <2>2. CASE k \notin K
    <3>1. d[k] = c[k]
      BY <2>2, TextFieldsAre, AllKeysAre
    <3> QED BY <3>1 DEF CfgOK
  <2> QED BY <2>1, <2>2
<1> QED BY <1>1, <1>2, <1>3, <1>4, <1>5 DEF CfgOK

LEMMA ConvertedIs ==
  ASSUME NEW k, NEW n
  PROVE  /\ Converted(k, n) \in {0, n} /\ Converted(k, Converted(k, n)) = Converted(k, n)
         /\ n \in Held(k) => Converted(k, n) = n
BY HeldIs DEF Converted

\* The number typed is kept, or zero.
LEMMA NumberStored ==
  ASSUME NEW k, NEW d \in DOMAIN Number
  PROVE  /\ NumberOK(k, Converted(k, Number[d]))
         /\ Number[d] \in Held(k) => Converted(k, Number[d]) = Number[d]
<1> DEFINE n == Number[d]
<1>2. \E e \in DOMAIN Number : Number[e] = 0
  BY NumbersAre DEF Octets
<1>3. \E e \in DOMAIN Number : Number[e] = n
  OBVIOUS
<1> HIDE DEF n
<1>4. /\ Converted(k, n) \in {0, n} /\ Converted(k, Converted(k, n)) = Converted(k, n)
      /\ n \in Held(k) => Converted(k, n) = n
  BY ConvertedIs
<1>5. NumberOK(k, Converted(k, n))
  BY <1>2, <1>3, <1>4 DEF NumberOK
<1> QED BY <1>4, <1>5 DEF n

\* What JSON makes of a character is no key.
LEMMA EscapesAre == \A x \in DOMAIN Escapes : Escapes[x] \in Char \ AllKeys
<1>1. \A x \in DOMAIN Escapes : Escapes[x] \in Char
  BY CharHas
<1>2. AllKeys = FormFields
  BY DEF AllKeys, FormFields
<1>3. \A c \in DOMAIN Coded : Coded[c] \notin AllKeys
  BY <1>2, FormsAssumption
<1>4. {Quote, Backslash, "/", "'", "backspace", "\f", LF, CR, Tab} \intersect AllKeys = {}
  BY AllKeysAre DEF WifiTexts, ServiceTexts, NumberFields, Quote, Backslash, LF, CR, Tab
<1>5. \A x \in DOMAIN Escapes :
        \/ Escapes[x] \in {Quote, Backslash, "/", "'", "backspace", "\f", LF, CR, Tab}
        \/ x \in DOMAIN Coded /\ Escapes[x] = Coded[x]
  BY DEF Escapes
<1> QED BY <1>1, <1>3, <1>4, <1>5

\* What a form's JSON gives.
NumberRead(k, n) ==
  /\ ReadsAsNumber(visit.typed[k]) /\ n = Converted(k, Number[visit.typed[k][1]]) /\ NumberOK(k, n)
  /\ Number[visit.typed[k][1]] \in Held(k) => n = Number[visit.typed[k][1]]
TextRead(k, t) ==
  /\ ReadsAsString(visit.typed[k]) /\ t = Unescaped(visit.typed[k]) /\ t \in Seq(Char \ ToSet(FormKeys[Kind]))
  /\ Backslash \notin ToSet(visit.typed[k]) => t = visit.typed[k]

LEMMA JsonValues ==
  ASSUME ReadInv, phase = "handle", Kind \in JsonForms5, ReadsAsJson(Kind), NEW k \in ToSet(FormKeys[Kind])
  PROVE  IF k \in NumberFields THEN NumberRead(k, Parsed(Kind, k)) ELSE TextRead(k, Parsed(Kind, k))
<1> DEFINE t == visit.typed[k]
<1>1. Member(Kind, k) = t /\ t \in Seq(Char \ ToSet(FormKeys[Kind]))
  BY JsonRead
<1>2. CASE k \in NumberFields
  <2>1. ReadsAsNumber(t)
    BY <1>1, <1>2 DEF ReadsAsJson
  <2>2. Parsed(Kind, k) = Converted(k, Number[t[1]])
    BY <1>1, <1>2 DEF Parsed
  <2>3. t[1] \in DOMAIN Number
    BY <2>1 DEF ReadsAsNumber
  <2>4. /\ NumberOK(k, Converted(k, Number[t[1]]))
        /\ Number[t[1]] \in Held(k) => Converted(k, Number[t[1]]) = Number[t[1]]
    BY <2>3, NumberStored
  <2>6. NumberRead(k, Parsed(Kind, k))
    BY <2>1, <2>2, <2>4 DEF NumberRead
  <2> QED BY <1>2, <2>6
<1>3. CASE k \notin NumberFields
  <2>1. ReadsAsString(t)
    BY <1>1, <1>3 DEF ReadsAsJson
  <2>2. Parsed(Kind, k) = Unescaped(t)
    BY <1>1, <1>3 DEF Parsed
  <2> HIDE DEF t
  <2>3. Unescaped(t) \in Seq(Char \ ToSet(FormKeys[Kind]))
    <3> DEFINE C == Char \ ToSet(FormKeys[Kind])
    <3>1. \A x \in DOMAIN Escapes : Escapes[x] \in C
      BY EscapesAre, KeysIn DEF JsonForms5
    <3>2. t \in Seq(C)
      BY <1>1
    <3> HIDE DEF C
    <3>3. Unescaped(t) \in Seq(C)
      BY <2>1, <3>1, <3>2, UnescapedType
    <3> QED BY <3>3 DEF C
  <2>4. Backslash \notin ToSet(t) => Unescaped(t) = t
    <3>1. t \in Seq(Char)
      BY <1>1
    <3> QED BY <3>1, NoBackslash
  <2>5. TextRead(k, Parsed(Kind, k))
    BY <2>1, <2>2, <2>3, <2>4 DEF TextRead, t
  <2> QED BY <1>3, <2>5
<1> QED BY <1>2, <1>3

\* An address that is one, wherever it is read.
LEMMA CanonicalText ==
  ASSUME NEW text \in Seq(Char), Canonical(text)
  PROVE  text \in Seq(DOMAIN Number \union {"."})
<1>1. Len(text) = 7 /\ text = [i \in 1..7 |-> text[i]]
  BY DEF Canonical
<1>2. \A i \in 1..7 : text[i] \in DOMAIN Number \union {"."}
  <2>1. \A i \in 1..7 : i \in {2, 4, 6} \/ i \in {1, 3, 5, 7}
    OBVIOUS
  <2> QED BY <2>1 DEF Canonical
<1> QED BY <1>1, <1>2, SeqIs

LEMMA AddressRead ==
  ASSUME NEW text \in Seq(Char), Canonical(text)
  PROVE  /\ stringToIp(text).ok = TRUE /\ stringToIp(text).ip = Meant(text) /\ Unescaped(text) = text
         /\ ReadsAsString(text) /\ text \in Seq(Clean)
<1>1. text \in Seq(DOMAIN Number \union {"."})
  BY CanonicalText
<1>2. text \in Seq(Clean) /\ Backslash \notin ToSet(text) /\ Quote \notin ToSet(text)
  BY <1>1, PlainAddress
<1>3. Unescaped(text) = text /\ ReadsAsString(text)
  BY <1>2, NoBackslash
<1> QED BY <1>2, <1>3, CanonicalIs

\* What is shown of an address is read as that address.
LEMMA AddressAgain ==
  ASSUME NEW ip \in [1..4 -> Octets]
  PROVE  LET text == ipToString(ip)
         IN  /\ stringToIp(text).ok = TRUE /\ stringToIp(text).ip = ip /\ Unescaped(text) = text
             /\ ReadsAsString(text) /\ text \in Seq(Clean) /\ text \in Seq(Char \ AllKeys)
<1> DEFINE text == ipToString(ip)
<1>1. text \in Seq(DOMAIN Number \union {"."}) /\ text \in Seq(Char) /\ Canonical(text) /\ Meant(text) = ip
  BY ShownAddress
<1> HIDE DEF text
<1>2. /\ stringToIp(text).ok = TRUE /\ stringToIp(text).ip = Meant(text) /\ Unescaped(text) = text
      /\ ReadsAsString(text) /\ text \in Seq(Clean)
  BY <1>1, AddressRead
<1>3. text \in Seq(Char \ AllKeys)
  <2>1. text \in Seq(Char \ (AllKeys \union DOMAIN HexDigits))
    BY <1>1, PlainAddress
  <2> QED BY <2>1
<1> QED BY <1>1, <1>2, <1>3 DEF text

\* A network's mode.
LEMMA ModeIs ==
  ASSUME ReadInv, Kind = "network"
  PROVE  visit.typed["wifi_MODE"] \in Modes
<1>1. visit.path = Uri("network")
  BY KindIs DEF Forms5
<1> QED BY <1>1 DEF ReadInv, ReadAt, VisitOK, TypedOK

LEMMA ModeRead ==
  ASSUME NEW m \in Modes
  PROVE  /\ Unescaped(m) = m /\ ReadsAsString(m) /\ m \in Seq(Char \ AllKeys) /\ Backslash \notin ToSet(m)
         /\ Quote \notin ToSet(m)
<1>1. \A c \in {"static", "dhcp"} : c \in Char \ AllKeys /\ c \notin {Backslash, Quote}
  <2>1. \A c \in {"static", "dhcp"} : c \notin AllKeys
    BY AllKeysAre DEF WifiTexts, ServiceTexts, NumberFields
  <2> QED BY <2>1, CharHas DEF Literals, Backslash, Quote
<1>2. PICK c \in {"static", "dhcp"} : m = << c >>
  BY DEF Modes
<1>3. << c >> \in Seq(Char \ AllKeys) /\ ToSet(<< c >>) = {c}
  <2>1. << c >> \in Seq(Char \ AllKeys)
    BY <1>1, SingleType
  <2>2. ToSet(<< c >>) = {c}
    BY DEF ToSet
  <2> QED BY <2>1, <2>2
<1>4. m \in Seq(Char \ AllKeys) /\ Backslash \notin ToSet(m) /\ Quote \notin ToSet(m)
  BY <1>1, <1>2, <1>3
<1>5. m \in Seq(Char)
  BY <1>4
<1> QED BY <1>4, <1>5, NoBackslash

\* What a form of JSON stores.
Static == visit.typed["wifi_MODE"] = <<"static">>
NewValue(f, k, old) ==
  IF k \in Addresses
  THEN IF Static /\ stringToIp(Parsed(f, k)).ok THEN stringToIp(Parsed(f, k)).ip ELSE old
  ELSE ReadOn(k, Parsed(f, k), Parsed(f, NextField[k]))
JsonStore(d) ==
  d = [k \in AllKeys |-> IF k \in ToSet(FormKeys[Kind]) THEN NewValue(Kind, k, cfg[k]) ELSE cfg[k]]

\* The properties, for the request v of the form f and the settings c.
MangledIn(f, text) == ToSet(text) \intersect (IF f = "ap" THEN {"&", "+", "%", "#"} ELSE {Backslash}) # {}
GivenIn(v) == {k \in Addresses \intersect DOMAIN v.typed :
                 \/ k = "txtaplan" /\ v.typed[k] # <<>>
                 \/ k # "txtaplan" /\ v.typed["wifi_MODE"] = <<"static">>}
StoredAt(v, f, c) ==
  \A k \in DOMAIN v.typed :
    /\ k \in Addresses => (k \in GivenIn(v) /\ Canonical(v.typed[k]) => c[k] = Meant(v.typed[k]))
    /\ k \in NumberFields => (Number[v.typed[k][1]] \in Held(k) => c[k] = Number[v.typed[k][1]])
    /\ k \notin Addresses \union NumberFields =>
         \/ c[k] = v.typed[k]
         \/ f = "ap" /\ \E j \in DOMAIN v.typed : MangledIn(f, v.typed[j])
         \/ f # "ap" /\ MangledIn(f, v.typed[k])
         \/ f = "ap" /\ v.typed[k] = <<>>
         \/ k = "txtpass" /\ Last(v.typed[k]) = Space
         \/ k \in DOMAIN NextField /\ Bytes(v.typed[k]) >= Size[k]

LEMMA StoredPrimed ==
  ASSUME visit' = visit, handler' = handler, phase' # "overrun",
         phase' = "answered" /\ answer' = "ok" /\ Kind \in Forms5 => StoredAt(visit, Kind, cfg')
  PROVE  StoredAsTyped'
<1>1. Kind' = Kind
  BY DEF Kind
<1>2. SUFFICES ASSUME (Form /\ answer = "ok")'
               PROVE  (\A k \in DOMAIN visit.typed :
                        CASE k \in Addresses -> k \in Given /\ Canonical(visit.typed[k]) => cfg[k] = Meant(visit.typed[k])
                          [] k \in NumberFields ->
                               Number[visit.typed[k][1]] \in Held(k) => cfg[k] = Number[visit.typed[k][1]]
                          [] OTHER ->
                             \/ cfg[k] = visit.typed[k]
                             \/ Kind = "ap" /\ \E j \in DOMAIN visit.typed : Mangled(visit.typed[j])
                             \/ Kind # "ap" /\ Mangled(visit.typed[k])
                             \/ Kind = "ap" /\ visit.typed[k] = <<>>
                             \/ k = "txtpass" /\ Last(visit.typed[k]) = Space
                             \/ k \in DOMAIN NextField /\ Bytes(visit.typed[k]) >= Size[k])'
  BY DEF StoredAsTyped
<1>3. StoredAt(visit, Kind, cfg')
  BY <1>1, <1>2, FormsAre DEF Form
<1>4. Given' = GivenIn(visit)
  BY DEF Given, GivenIn
<1>5. \A text : Mangled(text)' <=> MangledIn(Kind, text)
  BY <1>1 DEF Mangled, MangledIn
<1> QED BY <1>1, <1>3, <1>4, <1>5 DEF StoredAt

LEMMA TextKeyIs ==
  ASSUME NEW f \in Forms5, NEW k \in TextKeys(f)
  PROVE  k \in ToSet(FormKeys[f]) /\ k \notin Addresses /\ k \notin NumberFields
BY DEF TextKeys

\* What is stored of a number, of a text, of an address.
LEMMA NewNumber ==
  ASSUME ReadInv, phase = "handle", Kind \in JsonForms5, ReadsAsJson(Kind), NEW old,
         NEW k \in ToSet(FormKeys[Kind]), k \in NumberFields
  PROVE  NumberRead(k, NewValue(Kind, k, old))
<1>1. k \notin Addresses /\ k \notin DOMAIN NextField
  BY NextIs DEF NumberFields, Addresses
<1>2. NewValue(Kind, k, old) = Parsed(Kind, k)
  BY <1>1 DEF NewValue, ReadOn
<1>3. NumberRead(k, Parsed(Kind, k))
  BY JsonValues
<1> QED BY <1>2, <1>3

LEMMA NewText ==
  ASSUME ReadInv, phase = "handle", Kind \in JsonForms5, ReadsAsJson(Kind), NEW old,
         NEW k \in TextKeys(Kind), k \notin DOMAIN NextField
  PROVE  /\ TextRead(k, NewValue(Kind, k, old))
         /\ ~RunsOver(k, Parsed(Kind, k)) => Len(NewValue(Kind, k, old)) < Size[k]
<1> DEFINE t == Parsed(Kind, k)
<1>1. k \in ToSet(FormKeys[Kind]) /\ k \notin Addresses /\ k \notin NumberFields
  BY TextKeyIs DEF JsonForms5
<1>2. NewValue(Kind, k, old) = t
  BY <1>1 DEF NewValue, ReadOn
<1>3. TextRead(k, t)
  BY <1>1, JsonValues
<1> HIDE DEF t
<1>4. t \in Seq(Char \ ToSet(FormKeys[Kind]))
  BY <1>3 DEF TextRead
<1>5. k \in TextFields
  BY <1>1, TextFieldsAre DEF JsonForms5
<1>6. ReadOn(k, t, t) = t
  BY DEF ReadOn
<1>7. ~RunsOver(k, t) => Len(t) < Size[k]
  BY <1>4, <1>5, <1>6, ReadOnIs
<1> QED BY <1>2, <1>3, <1>7 DEF t

\* A text that is read on, if it fills its field.
LEMMA RunsOnIs ==
  ASSUME NEW k \in DOMAIN NextField, Kind \in JsonForms5, k \in ToSet(FormKeys[Kind])
  PROVE  /\ NextField[k] \in TextKeys(Kind) /\ NextField[k] \notin DOMAIN NextField
         /\ k \in TextKeys(Kind) /\ k \in TextFields
<1>1. CASE k = "c_id"
  <2>1. Kind = "service"
    BY <1>1, KeySets DEF JsonForms5, Forms5, WifiTexts
  <2> QED BY <1>1, <2>1, NextIs, TextKeysAre, TextFieldsAre DEF ServiceTexts
<1>2. CASE k = "wifi_ssid"
  <2>1. Kind = "network"
    BY <1>2, KeySets DEF JsonForms5, Forms5, ServiceTexts
  <2> QED BY <1>2, <2>1, NextIs, TextKeysAre, TextFieldsAre DEF WifiTexts
<1> QED BY <1>1, <1>2, NextIs

LEMMA NewRunOn ==
  ASSUME ReadInv, phase = "handle", Kind \in JsonForms5, ReadsAsJson(Kind), NEW old, NEW old2,
         NEW k \in DOMAIN NextField, k \in ToSet(FormKeys[Kind]), ~RunsOver(k, Parsed(Kind, k))
  PROVE  LET new == NewValue(Kind, k, old)
             next == NewValue(Kind, NextField[k], old2)
             typed == visit.typed[k]
         IN  /\ new \in Seq(Char \ ToSet(FormKeys[Kind])) /\ ReadsAsString(typed)
             /\ new = ReadOn(k, Unescaped(typed), next) /\ ReadOn(k, new, next) = new
             /\ Backslash \in ToSet(typed) \/ Bytes(typed) >= Size[k] \/ new = typed
<1> DEFINE n == NextField[k]
           t == Parsed(Kind, k)
           u == Parsed(Kind, n)
           C == Char \ ToSet(FormKeys[Kind])
           typed == visit.typed[k]
           new == NewValue(Kind, k, old)
           next == NewValue(Kind, n, old2)
<1>1. /\ n \in ToSet(FormKeys[Kind]) /\ {k, n} \intersect (Addresses \union NumberFields) = {}
      /\ k \in TextFields /\ n \notin DOMAIN NextField
  <2>1. n \in TextKeys(Kind) /\ n \notin DOMAIN NextField /\ k \in TextKeys(Kind) /\ k \in TextFields
    BY RunsOnIs
  <2>2. Kind \in Forms5
    BY DEF JsonForms5
  <2> HIDE DEF n
  <2> QED BY <2>1, <2>2, TextKeyIs
<1>2. TextRead(k, t) /\ TextRead(n, u)
  BY <1>1, JsonValues
<1>3. next = u
  BY <1>1 DEF NewValue, ReadOn
<1>4. new = ReadOn(k, t, u)
  BY <1>1 DEF NewValue
<1> HIDE DEF t, u, C, typed, n, new, next
<1>5. /\ t \in Seq(C) /\ u \in Seq(C) /\ t = Unescaped(typed) /\ ReadsAsString(typed)
      /\ Backslash \notin ToSet(typed) => t = typed
  BY <1>2 DEF TextRead, C, typed
<1>6. ~RunsOver(k, t)
  BY DEF t
<1>7. /\ ReadOn(k, t, u) \in Seq(C) /\ ReadOn(k, ReadOn(k, t, u), u) = ReadOn(k, t, u)
      /\ ~(k \in DOMAIN NextField /\ Bytes(t) >= Size[k]) => ReadOn(k, t, u) = t
  BY <1>1, <1>5, <1>6, ReadOnIs
<1>8. new \in Seq(C) /\ ReadOn(k, new, u) = new
  BY <1>4, <1>7
<1>9. Backslash \in ToSet(typed) \/ Bytes(typed) >= Size[k] \/ new = typed
  BY <1>4, <1>5, <1>7
<1> QED BY <1>3, <1>4, <1>5, <1>8, <1>9 DEF C, typed, n, new, next

LEMMA NewAddress ==
  ASSUME ReadInv, phase = "handle", Kind \in JsonForms5, ReadsAsJson(Kind), NEW old,
         NEW k \in ToSet(FormKeys[Kind]), k \in Addresses
  PROVE  /\ old \in [1..4 -> Octets] => NewValue(Kind, k, old) \in [1..4 -> Octets]
         /\ Static /\ Canonical(visit.typed[k]) => NewValue(Kind, k, old) = Meant(visit.typed[k])
<1> DEFINE t == visit.typed[k]
           p == Parsed(Kind, k)
<1>1. k \notin NumberFields
  BY DEF NumberFields, Addresses
<1>2. TextRead(k, p) /\ t \in Seq(Char \ ToSet(FormKeys[Kind]))
  BY <1>1, JsonValues, JsonRead
<1>3. t \in Seq(Char) /\ p = Unescaped(t)
  BY <1>2 DEF TextRead
<1>4. NewValue(Kind, k, old) = IF Static /\ stringToIp(p).ok THEN stringToIp(p).ip ELSE old
  BY DEF NewValue
<1> HIDE DEF t, p
<1>5. stringToIp(p).ok \in BOOLEAN /\ (stringToIp(p).ok => stringToIp(p).ip \in [1..4 -> Octets])
  BY StringToIpType
<1>6. ASSUME Static, Canonical(t) PROVE stringToIp(p).ok = TRUE /\ stringToIp(p).ip = Meant(t)
  BY <1>3, <1>6, AddressRead
<1> QED BY <1>4, <1>5, <1>6 DEF t

\* A form of JSON is stored as it was typed, and can be shown again.
LEMMA JsonStored ==
  ASSUME ReadInv, CfgOK(cfg), phase = "handle", Kind \in JsonForms5, ReadsAsJson(Kind), NEW d, JsonStore(d),
         \A k \in TextKeys(Kind) : ~RunsOver(k, Parsed(Kind, k))
  PROVE  CfgOK(d) /\ StoredAt(visit, Kind, d) /\ WifiKept(visit, d)
<1> DEFINE K == ToSet(FormKeys[Kind])
<1>1. Kind \in Forms5 /\ Kind # "ap" /\ K \subseteq AllKeys /\ TextKeys(Kind) \subseteq K
      /\ \A k \in K : k \in Addresses \/ k \in NumberFields \/ k \in TextKeys(Kind)
  BY KeysIn DEF JsonForms5
<1>2. DOMAIN visit.typed = K /\ visit.path = Uri(Kind)
  BY <1>1, KindIs
<1>3. d = [k \in AllKeys |-> d[k]] /\ (\A k \in K : d[k] = NewValue(Kind, k, cfg[k]))
      /\ \A k \in AllKeys \ K : d[k] = cfg[k]
  BY <1>1 DEF JsonStore
<1>4. \A k \in K \intersect NumberFields : NumberRead(k, d[k])
  BY <1>3, NewNumber
<1>5. \A k \in TextKeys(Kind) : k \notin DOMAIN NextField => TextRead(k, d[k]) /\ Len(d[k]) < Size[k]
  BY <1>1, <1>3, NewText
<1>6. \A k \in K \intersect Addresses :
        /\ cfg[k] \in [1..4 -> Octets] => d[k] \in [1..4 -> Octets]
        /\ Static /\ Canonical(visit.typed[k]) => d[k] = Meant(visit.typed[k])
  BY <1>3, NewAddress
<1>7. ASSUME NEW k \in DOMAIN NextField, k \in K
      PROVE  /\ d[k] \in Seq(Char \ K) /\ ReadsAsString(visit.typed[k]) /\ k \in TextKeys(Kind)
             /\ d[k] = ReadOn(k, Unescaped(visit.typed[k]), d[NextField[k]])
             /\ ReadOn(k, d[k], d[NextField[k]]) = d[k]
             /\ Backslash \in ToSet(visit.typed[k]) \/ Bytes(visit.typed[k]) >= Size[k] \/ d[k] = visit.typed[k]
  <2> DEFINE n == NextField[k]
  <2>1. n \in TextKeys(Kind) /\ k \in TextKeys(Kind)
    BY <1>7, RunsOnIs
  <2>2. ~RunsOver(k, Parsed(Kind, k))
    BY <2>1
  <2>3. n \in K
    BY <1>1, <2>1
  <2>4. d[k] = NewValue(Kind, k, cfg[k]) /\ d[n] = NewValue(Kind, n, cfg[n])
    BY <1>3, <1>7, <2>3
  <2>5. LET new == NewValue(Kind, k, cfg[k])
            next == NewValue(Kind, NextField[k], cfg[n])
            typed == visit.typed[k]
        IN  /\ new \in Seq(Char \ ToSet(FormKeys[Kind])) /\ ReadsAsString(typed)
            /\ new = ReadOn(k, Unescaped(typed), next) /\ ReadOn(k, new, next) = new
            /\ Backslash \in ToSet(typed) \/ Bytes(typed) >= Size[k] \/ new = typed
    BY <1>7, <2>2, NewRunOn
  <2> QED BY <2>1, <2>4, <2>5
<1> HIDE DEF K
<1>8. CfgOK(d)
  <2>1. \A k \in K \intersect NumberFields : NumberOK(k, d[k])
    BY <1>4 DEF NumberRead
  <2>2. \A k \in TextKeys(Kind) : d[k] \in Seq(Char \ K)
    <3>1. \A k \in TextKeys(Kind) : k \notin DOMAIN NextField => d[k] \in Seq(Char \ K)
      BY <1>5 DEF TextRead, K
    <3>2. \A k \in TextKeys(Kind) : k \in DOMAIN NextField => d[k] \in Seq(Char \ K)
      BY <1>1, <1>7 DEF K
    <3> QED BY <3>1, <3>2
  <2>3. \A k \in K \intersect Addresses : d[k] \in [1..4 -> Octets]
    BY <1>6 DEF CfgOK
  <2>4. d["wifi_MODE"] \in Modes
    <3>1. CASE "wifi_MODE" \in K
      <4>1. Kind = "network"
        BY <3>1, KeySets DEF JsonForms5, Forms5, ServiceTexts, K
      <4>2. visit.typed["wifi_MODE"] \in Modes
        BY <4>1, ModeIs
      <4>3. TextRead("wifi_MODE", d["wifi_MODE"])
        BY <1>5, <4>1, TextKeysAre, NextIs DEF WifiTexts
      <4>4. d["wifi_MODE"] = Unescaped(visit.typed["wifi_MODE"])
        BY <4>3 DEF TextRead
      <4> QED BY <4>2, <4>4, ModeRead
    <3>2. CASE "wifi_MODE" \notin K
      <4>1. d["wifi_MODE"] = cfg["wifi_MODE"]
        BY <1>3, <3>2, AllKeysAre DEF WifiTexts
      <4> QED BY <4>1 DEF CfgOK
    <3> QED BY <3>1, <3>2
  <2>5. ReadOn("c_id", d["c_id"], d["U_name"]) = d["c_id"]
    <3>1. CASE "c_id" \in K
      BY <1>7, <3>1, NextIs
    <3>2. CASE "c_id" \notin K
      <4>1. "U_name" \notin K
        BY <3>2, KeySets DEF JsonForms5, Forms5, ServiceTexts, WifiTexts, K
      <4>2. d["c_id"] = cfg["c_id"] /\ d["U_name"] = cfg["U_name"]
        BY <1>3, <3>2, <4>1, AllKeysAre DEF ServiceTexts
      <4>3. ReadOn("c_id", cfg["c_id"], cfg["U_name"]) = cfg["c_id"]
        BY DEF CfgOK
      <4> QED BY <4>2, <4>3
    <3> QED BY <3>1, <3>2
  <2>9. \A k \in TextKeys(Kind) \ DOMAIN NextField : Len(d[k]) < Size[k]
    BY <1>5
  <2>6. \A k \in AllKeys \ ToSet(FormKeys[Kind]) : d[k] = cfg[k]
    BY <1>3 DEF K
  <2>7. d = [k \in AllKeys |-> d[k]]
    BY <1>3
  <2>8. /\ \A k \in ToSet(FormKeys[Kind]) \intersect NumberFields : NumberOK(k, d[k])
        /\ \A k \in TextKeys(Kind) : d[k] \in Seq(Char \ ToSet(FormKeys[Kind]))
        /\ \A k \in ToSet(FormKeys[Kind]) \intersect Addresses : d[k] \in [1..4 -> Octets]
    BY <2>1, <2>2, <2>3 DEF K
  <2> QED BY <2>4, <2>5, <2>6, <2>7, <2>8, <2>9, StoredOK
<1>9. StoredAt(visit, Kind, d)
  <2> DEFINE OK(k) ==
        /\ k \in Addresses => (k \in GivenIn(visit) /\ Canonical(visit.typed[k]) => d[k] = Meant(visit.typed[k]))
        /\ k \in NumberFields => (Number[visit.typed[k][1]] \in Held(k) => d[k] = Number[visit.typed[k][1]])
        /\ k \notin Addresses \union NumberFields =>
             \/ d[k] = visit.typed[k]
             \/ Kind # "ap" /\ MangledIn(Kind, visit.typed[k])
             \/ k \in DOMAIN NextField /\ Bytes(visit.typed[k]) >= Size[k]
  <2>1. ASSUME NEW k \in K PROVE OK(k)
    <3>1. ASSUME k \in Addresses, k \in GivenIn(visit), Canonical(visit.typed[k]) PROVE d[k] = Meant(visit.typed[k])
      <4>1. k # "txtaplan"
        <5>1. "txtaplan" \notin K
          BY KeySets DEF JsonForms5, Forms5, ServiceTexts, WifiTexts, K
        <5> QED BY <5>1
      <4>2. Static
        BY <3>1, <4>1 DEF GivenIn, Static
      <4> QED BY <1>6, <3>1, <4>2
    <3>2. ASSUME k \in NumberFields, Number[visit.typed[k][1]] \in Held(k) PROVE d[k] = Number[visit.typed[k][1]]
      BY <1>4, <3>2 DEF NumberRead
    <3>3. ASSUME k \notin Addresses \union NumberFields
          PROVE  \/ d[k] = visit.typed[k]
                 \/ Kind # "ap" /\ MangledIn(Kind, visit.typed[k])
                 \/ k \in DOMAIN NextField /\ Bytes(visit.typed[k]) >= Size[k]
      <4>1. k \in TextKeys(Kind)
        BY <1>1, <3>3 DEF K
      <4>2. MangledIn(Kind, visit.typed[k]) <=> Backslash \in ToSet(visit.typed[k])
        BY <1>1 DEF MangledIn
      <4>3. CASE k \in DOMAIN NextField
        BY <1>1, <1>7, <4>2, <4>3
      <4>4. CASE k \notin DOMAIN NextField
        <5>1. Backslash \notin ToSet(visit.typed[k]) => d[k] = visit.typed[k]
          BY <1>5, <4>1, <4>4 DEF TextRead
        <5> QED BY <1>1, <4>2, <5>1
      <4> QED BY <4>3, <4>4
    <3> QED BY <3>1, <3>2, <3>3
  <2> QED BY <1>2, <2>1 DEF StoredAt
<1>10. WifiKept(visit, d)
  <2> SUFFICES ASSUME "wifi_ssid" \in K
               PROVE  /\ ReadsAsString(visit.typed["wifi_ssid"]) /\ ReadsAsString(visit.typed["wifi_pass"])
                      /\ d["wifi_pass"] = Unescaped(visit.typed["wifi_pass"])
                      /\ d["wifi_ssid"] = ReadOn("wifi_ssid", Unescaped(visit.typed["wifi_ssid"]), d["wifi_pass"])
    BY <1>2 DEF WifiKept
  <2>1. Kind = "network"
    BY KeySets DEF JsonForms5, Forms5, ServiceTexts, K
  <2>2. "wifi_pass" \in TextKeys(Kind) /\ "wifi_pass" \notin DOMAIN NextField
    BY <2>1, TextKeysAre, NextIs DEF WifiTexts
  <2>3. TextRead("wifi_pass", d["wifi_pass"])
    BY <1>5, <2>2
  <2>4. /\ ReadsAsString(visit.typed["wifi_ssid"])
        /\ d["wifi_ssid"] = ReadOn("wifi_ssid", Unescaped(visit.typed["wifi_ssid"]), d["wifi_pass"])
    BY <1>7, NextIs
  <2> QED BY <2>3, <2>4 DEF TextRead
<1> QED BY <1>8, <1>9, <1>10

\* What the pages load.
LEMMA LoadedIs ==
  Loaded = {"txtaplan", "txtssid", "wifi_MODE", "txtipadd", "net_m", "hntp"} \union ServiceTexts \union NumberFields
BY FormsAre, KeySets
   DEF Loaded, mainData, setNetwork, setNtpData, setServiceData, setCalibration, NumberFields

\* Every text that is loaded is shown as it is.
NoHidden(v, c) == \A k \in DOMAIN v.typed \intersect Loaded \intersect TextFields : ToSet(c[k]) \intersect Hidden = {}

\* No text has a character JSON takes for itself.
PlainTexts(v) == \A k \in DOMAIN v.typed : ToSet(v.typed[k]) \intersect {Quote, Backslash} = {}

LEMMA ConfirmsIs ==
  ASSUME NEW v, NEW c, Confirms(v, c), NEW k \in DOMAIN v.typed
  PROVE  /\ k = "txtpass" => v.typed[k] = <<>>
         /\ k = "txtaplan" => v.typed[k] = ipToString(Shipped.txtaplan)
         /\ k \in {"txtipadd", "net_m"} => v.typed[k] = ipToString(c[k])
         /\ k \in NumberFields => v.typed[k] = << Digits(c[k]) >>
         /\ k \notin {"txtpass", "txtaplan", "txtipadd", "net_m", "wifi_ssid", "wifi_pass"} \union NumberFields =>
              v.typed[k] = Visible(c[k])
<1> DEFINE a == ipToString(Shipped.txtaplan)
           b == ipToString(c[k])
           d == << Digits(c[k]) >>
           t == v.typed[k]
           e == Visible(c[k])
<1>1. t = CASE k = "txtpass" -> <<>>
            [] k = "txtaplan" -> a
            [] k \in {"txtipadd", "net_m"} -> b
            [] k \in NumberFields -> d
            [] k \in {"wifi_ssid", "wifi_pass"} -> t
            [] OTHER -> e
  BY DEF Confirms
<1> HIDE DEF a, b, d, t, e
<1>2. CASE k = "txtpass"
  BY <1>1, <1>2 DEF NumberFields, t
<1>3. CASE k = "txtaplan"
  BY <1>1, <1>3 DEF NumberFields, t, a
<1>4. CASE k \in {"txtipadd", "net_m"}
  BY <1>1, <1>4 DEF NumberFields, t, b
<1>5. CASE k \in NumberFields
  BY <1>1, <1>5 DEF NumberFields, t, d
<1>6. CASE k \notin {"txtpass", "txtaplan", "txtipadd", "net_m"} \union NumberFields
  BY <1>1, <1>6 DEF t, e
<1> QED BY <1>2, <1>3, <1>4, <1>5, <1>6

\* What a confirmed page says of a number, of an address and of a text.
LEMMA ConfirmedNumber ==
  ASSUME CfgOK(cfg), Confirms(visit, cfg), NEW k \in DOMAIN visit.typed \intersect NumberFields
  PROVE  ReadsAsNumber(visit.typed[k]) /\ (NumberRead(k, Converted(k, Number[visit.typed[k][1]])) =>
           Converted(k, Number[visit.typed[k][1]]) = cfg[k])
<1> DEFINE t == visit.typed[k]
           c == cfg[k]
<1>1. t = << Digits(cfg[k]) >>
  <2>1. k \in DOMAIN visit.typed /\ k \in NumberFields
    OBVIOUS
  <2> QED BY <2>1, ConfirmsIs
<1>2. NumberOK(k, c)
  BY DEF CfgOK
<1> HIDE DEF c, t
<1>3. (\E d \in DOMAIN Number : Number[d] = c) /\ Converted(k, c) = c
  BY <1>2 DEF NumberOK
<1>4. Digits(c) \in DOMAIN Number /\ Number[Digits(c)] = c
  BY <1>3, NumbersAre
<1>5. t = << Digits(c) >>
  BY <1>1 DEF c
<1>6. t[1] = Digits(c) /\ Len(t) = 1
  BY <1>5
<1>7. ReadsAsNumber(t) /\ Converted(k, Number[t[1]]) = c
  BY <1>3, <1>4, <1>6 DEF ReadsAsNumber
<1> QED BY <1>7 DEF t, c

LEMMA ConfirmedAddress ==
  ASSUME CfgOK(cfg), Confirms(visit, cfg), NEW k \in DOMAIN visit.typed \intersect {"txtipadd", "net_m"}
  PROVE  LET t == visit.typed[k]
         IN  /\ stringToIp(t).ok = TRUE /\ stringToIp(t).ip = cfg[k] /\ Unescaped(t) = t /\ ReadsAsString(t)
<1>1. visit.typed[k] = ipToString(cfg[k])
  BY ConfirmsIs
<1>2. cfg[k] \in [1..4 -> Octets]
  BY DEF CfgOK, Addresses
<1> QED BY <1>1, <1>2, AddressAgain

LEMMA ConfirmedText ==
  ASSUME ReadInv, CfgOK(cfg), Confirms(visit, cfg), WifiKept(visit, cfg), phase = "handle", Kind \in JsonForms5,
         Kind \in {"network", "calibration"} \/ PlainTexts(visit), NoHidden(visit, cfg), NEW k \in TextKeys(Kind)
  PROVE  ReadsAsString(visit.typed[k]) /\ (k # "wifi_ssid" => Unescaped(visit.typed[k]) = cfg[k])
<1> DEFINE t == visit.typed[k]
<1>0. Kind \in Forms5
  BY DEF JsonForms5
<1>1. k \in ToSet(FormKeys[Kind]) /\ k \notin Addresses /\ k \notin NumberFields /\ k \in DOMAIN visit.typed
      /\ t \in Seq(Char)
  BY <1>0, TextKeyIs, KindIs
<1>2. CASE k \in {"wifi_ssid", "wifi_pass"}
  <2>1. Kind = "network"
    BY <1>2, TextKeysAre DEF JsonForms5, Forms5, ServiceTexts
  <2>2. "wifi_ssid" \in DOMAIN visit.typed
    BY <1>0, <2>1, KindIs, KeySets DEF WifiTexts
  <2> QED BY <1>2, <2>2 DEF WifiKept
<1>3. CASE k \notin {"wifi_ssid", "wifi_pass"}
  <2>1. k # "txtpass"
    BY TextKeysAre DEF JsonForms5, Forms5, WifiTexts, ServiceTexts
  <2>2. t = cfg[k]
    <3>1. t = Visible(cfg[k])
      BY <1>1, <1>3, <2>1, ConfirmsIs DEF Addresses
    <3>2. k \in Loaded /\ k \in TextFields
      <4>1. k \in {"wifi_MODE", "hntp"} \union ServiceTexts
        BY <1>3, TextKeysAre DEF JsonForms5, Forms5, WifiTexts
      <4> QED BY <1>0, <1>1, <4>1, LoadedIs, TextFieldsAre
    <3>3. ToSet(cfg[k]) \intersect Hidden = {}
      BY <1>1, <3>2 DEF NoHidden
    <3>4. cfg[k] \in Seq(Char \ ToSet(FormKeys[Kind]))
      BY DEF CfgOK
    <3> QED BY <3>1, <3>3, <3>4, VisibleIs
  <2>3. CASE k = "wifi_MODE"
    <3>1. cfg[k] \in Modes
      BY <2>3 DEF CfgOK
    <3>2. Unescaped(cfg[k]) = cfg[k] /\ ReadsAsString(cfg[k])
      BY <3>1, ModeRead
    <3> QED BY <2>2, <3>2
  <2>4. CASE k # "wifi_MODE"
    <3>1. Kind \in {"ntp", "service"}
      BY <1>3, <2>4, TextKeysAre DEF JsonForms5, Forms5, WifiTexts
    <3>2. Backslash \notin ToSet(t) /\ Quote \notin ToSet(t)
      BY <1>1, <3>1 DEF PlainTexts
    <3>3. Unescaped(t) = t /\ ReadsAsString(t)
      BY <1>1, <3>2, NoBackslash
    <3> QED BY <2>2, <3>3
  <2> QED BY <2>3, <2>4
<1> QED BY <1>2, <1>3

LEMMA AgainRead ==
  ASSUME ReadInv, CfgOK(cfg), Confirms(visit, cfg), WifiKept(visit, cfg), phase = "handle", Kind \in JsonForms5,
         Kind \in {"network", "calibration"} \/ PlainTexts(visit), NoHidden(visit, cfg)
  PROVE  ReadsAsJson(Kind) /\ \A d : JsonStore(d) => d = cfg
<1> DEFINE K == ToSet(FormKeys[Kind])
<1>1. Kind \in Forms5 /\ Kind # "ap" /\ K \subseteq AllKeys /\ TextKeys(Kind) \subseteq K
      /\ (\A k \in K : k \in Addresses \/ k \in NumberFields \/ k \in TextKeys(Kind))
      /\ DOMAIN visit.typed = K
  BY KeysIn, KindIs DEF JsonForms5
<1>2. \A k \in K : k \in Addresses => k \in {"txtipadd", "net_m"} /\ k \notin NumberFields
  <2>1. "txtaplan" \notin K
    BY KeySets DEF JsonForms5, Forms5, ServiceTexts, WifiTexts
  <2> QED BY <2>1 DEF Addresses, NumberFields
<1>3. ReadsAsJson(Kind)
  <2> SUFFICES ASSUME NEW k \in K
               PROVE  IF k \in NumberFields THEN ReadsAsNumber(visit.typed[k]) ELSE ReadsAsString(visit.typed[k])
    BY JsonRead DEF ReadsAsJson
  <2>1. k \in NumberFields => ReadsAsNumber(visit.typed[k])
    BY <1>1, ConfirmedNumber
  <2>2. k \in Addresses => ReadsAsString(visit.typed[k])
    BY <1>1, <1>2, ConfirmedAddress
  <2>3. k \in TextKeys(Kind) => ReadsAsString(visit.typed[k])
    BY ConfirmedText
  <2> QED BY <1>1, <2>1, <2>2, <2>3
<1>4. \A k \in K : k \notin NumberFields => Parsed(Kind, k) = Unescaped(visit.typed[k])
  <2>1. \A k \in K : k \notin NumberFields => TextRead(k, Parsed(Kind, k))
    BY <1>3, JsonValues
  <2> QED BY <2>1 DEF TextRead
<1>5. ASSUME NEW k \in K, k \notin DOMAIN NextField PROVE NewValue(Kind, k, cfg[k]) = cfg[k]
  <2>1. CASE k \in Addresses
    <3>1. k \in DOMAIN visit.typed \intersect {"txtipadd", "net_m"}
      BY <1>1, <1>2, <2>1
    <3>2. LET t == visit.typed[k] IN stringToIp(t).ok = TRUE /\ stringToIp(t).ip = cfg[k] /\ Unescaped(t) = t
      BY <3>1, ConfirmedAddress
    <3>3. Parsed(Kind, k) = visit.typed[k]
      BY <1>2, <1>4, <2>1, <3>2
    <3>4. NewValue(Kind, k, cfg[k]) = IF Static /\ stringToIp(visit.typed[k]).ok
                                      THEN stringToIp(visit.typed[k]).ip ELSE cfg[k]
      BY <2>1, <3>3 DEF NewValue
    <3> QED BY <3>2, <3>4
  <2>2. CASE k \in NumberFields
    <3>1. NumberRead(k, Parsed(Kind, k))
      BY <1>3, <2>2, JsonValues
    <3>2. NewValue(Kind, k, cfg[k]) = Parsed(Kind, k)
      BY <1>2, <1>5, <2>2 DEF NewValue, ReadOn
    <3>3. Parsed(Kind, k) = Converted(k, Number[visit.typed[k][1]])
      BY <3>1 DEF NumberRead
    <3>4. NumberRead(k, Converted(k, Number[visit.typed[k][1]]))
      BY <3>1, <3>3
    <3>5. Converted(k, Number[visit.typed[k][1]]) = cfg[k]
      BY <1>1, <2>2, <3>4, ConfirmedNumber
    <3> QED BY <3>2, <3>3, <3>5
  <2>3. CASE k \in TextKeys(Kind)
    <3>1. k \notin Addresses /\ k \notin NumberFields
      BY <1>1, <2>3, TextKeyIs
    <3>2. NewValue(Kind, k, cfg[k]) = Parsed(Kind, k)
      BY <1>5, <3>1 DEF NewValue, ReadOn
    <3>3. Unescaped(visit.typed[k]) = cfg[k]
      BY <1>5, <2>3, ConfirmedText, NextIs
    <3> QED BY <1>4, <3>1, <3>2, <3>3
  <2> QED BY <1>1, <2>1, <2>2, <2>3
<1>6. ASSUME NEW k \in K, k \in DOMAIN NextField PROVE NewValue(Kind, k, cfg[k]) = cfg[k]
  <2> DEFINE n == NextField[k]
  <2>1. n \in TextKeys(Kind) /\ n \notin DOMAIN NextField /\ k \in TextKeys(Kind)
    BY <1>6, RunsOnIs
  <2>2. n # "wifi_ssid" /\ n \in K /\ {k, n} \intersect (Addresses \union NumberFields) = {}
    <3>1. n # "wifi_ssid"
      BY <2>1, NextIs
    <3> HIDE DEF n
    <3> QED BY <1>1, <2>1, <3>1, TextKeyIs
  <2>3. Parsed(Kind, n) = Unescaped(visit.typed[n]) /\ Parsed(Kind, k) = Unescaped(visit.typed[k])
    BY <1>4, <1>6, <2>2
  <2>4. Unescaped(visit.typed[n]) = cfg[n]
    <3> HIDE DEF n
    <3> QED BY <2>1, <2>2, ConfirmedText
  <2>5. NewValue(Kind, k, cfg[k]) = ReadOn(k, Unescaped(visit.typed[k]), cfg[n])
    BY <2>2, <2>3, <2>4 DEF NewValue
  <2>6. CASE k = "c_id"
    <3>1. Unescaped(visit.typed[k]) = cfg[k]
      BY <2>1, <2>6, ConfirmedText
    <3>2. ReadOn("c_id", cfg["c_id"], cfg["U_name"]) = cfg["c_id"]
      BY DEF CfgOK
    <3>3. n = "U_name"
      BY <2>6, NextIs
    <3> QED BY <2>5, <2>6, <3>1, <3>2, <3>3
  <2>7. CASE k = "wifi_ssid"
    <3>1. cfg["wifi_ssid"] = ReadOn("wifi_ssid", Unescaped(visit.typed["wifi_ssid"]), Unescaped(visit.typed["wifi_pass"]))
      BY <1>1, <1>6, <2>7 DEF WifiKept
    <3>2. n = "wifi_pass"
      BY <2>7, NextIs
    <3> QED BY <2>4, <2>5, <2>7, <3>1, <3>2
  <2> QED BY <1>6, <2>6, <2>7, NextIs
<1>7. ASSUME NEW d, JsonStore(d) PROVE d = cfg
  <2>1. d = [k \in AllKeys |-> IF k \in K THEN NewValue(Kind, k, cfg[k]) ELSE cfg[k]]
    BY <1>7 DEF JsonStore
  <2>2. cfg = [k \in AllKeys |-> cfg[k]]
    BY DEF CfgOK
  <2>3. \A k \in K : NewValue(Kind, k, cfg[k]) = cfg[k]
    BY <1>5, <1>6
  <2> HIDE DEF K
  <2>4. d = [k \in AllKeys |-> cfg[k]]
    BY <2>1, <2>3
  <2> QED BY <2>2, <2>4
<1> QED BY <1>3, <1>7

-----------------------------------------------------------------------------
(* The steps.                                                              *)

\* Why a form may be refused, and what a page confirmed again must keep.
CrowdedIn(v, f) == f = "service" /\ ~HasRoom({v.typed[k] : k \in ToSet(ServiceKeys) \ NumberFields})
RefusedAt(v, f) ==
  \/ \E k \in GivenIn(v) : ~Canonical(v.typed[k])
  \/ \E k \in DOMAIN v.typed \intersect NumberFields : ~ReadsAsNumber(v.typed[k])
  \/ ~PlainTexts(v) \/ CrowdedIn(v, f)
KeptAt(v, f, reply, c, old) ==
  \/ reply = "ok" /\ c = old
  \/ f = "ap" /\ (old["txtaplan"] # Shipped["txtaplan"] \/ MangledIn(f, v.typed["txtssid"]))
  \/ f \in {"ntp", "service"} /\ ~PlainTexts(v)
  \/ ~NoHidden(v, old)
  \/ CrowdedIn(v, f)

LEMMA RefusedPrimed ==
  ASSUME visit' = visit, handler' = handler,
         phase' = "answered" /\ answer' = "error" /\ Kind \in Forms5 => RefusedAt(visit, Kind)
  PROVE  RefusedIsMalformed'
<1>1. Kind' = Kind
  BY DEF Kind
<1>2. Given' = GivenIn(visit)
  BY DEF Given, GivenIn
<1>3. Crowded' <=> CrowdedIn(visit, Kind)
  BY <1>1 DEF Crowded, CrowdedIn
<1>4. SUFFICES ASSUME (Form /\ answer = "error")'
               PROVE  \/ \E k \in GivenIn(visit) : ~Canonical(visit.typed[k])
                      \/ \E k \in DOMAIN visit.typed \intersect NumberFields : ~ReadsAsNumber(visit.typed[k])
                      \/ \E k \in DOMAIN visit.typed : ToSet(visit.typed[k]) \intersect {Quote, Backslash} # {}
                      \/ CrowdedIn(visit, Kind)
  BY <1>1, <1>2, <1>3 DEF RefusedIsMalformed
<1>5. RefusedAt(visit, Kind)
  BY <1>1, <1>4, FormsAre DEF Form
<1> QED BY <1>5 DEF RefusedAt, PlainTexts

LEMMA KeptPrimed ==
  ASSUME visit' = visit, handler' = handler, kept' = kept,
         phase' = "answered" /\ kept # <<>> /\ Kind \in Forms5 => KeptAt(visit, Kind, answer', cfg', kept[1])
  PROVE  ConfirmedAgainIsKept'
<1>1. Kind' = Kind
  BY DEF Kind
<1>2. Crowded' <=> CrowdedIn(visit, Kind)
  BY <1>1 DEF Crowded, CrowdedIn
<1>3. \A text : Mangled(text)' <=> MangledIn(Kind, text)
  BY <1>1 DEF Mangled, MangledIn
<1>4. SUFFICES ASSUME (Form /\ kept # <<>>)'
               PROVE  \/ answer' = "ok" /\ cfg' = kept[1]
                      \/ Kind = "ap" /\ kept[1]["txtaplan"] # Shipped["txtaplan"]
                      \/ Kind = "ap" /\ MangledIn(Kind, visit.typed["txtssid"])
                      \/ Kind \in {"ntp", "service"}
                         /\ \E k \in DOMAIN visit.typed : ToSet(visit.typed[k]) \intersect {Quote, Backslash} # {}
                      \/ \E k \in DOMAIN visit.typed \intersect Loaded \intersect TextFields :
                           ToSet(kept[1][k]) \intersect Hidden # {}
                      \/ CrowdedIn(visit, Kind)
  BY <1>1, <1>2, <1>3 DEF ConfirmedAgainIsKept
<1>5. KeptAt(visit, Kind, answer', cfg', kept[1])
  BY <1>1, <1>4, FormsAre DEF Form
<1> QED BY <1>5 DEF KeptAt, PlainTexts, NoHidden

\* The steps before an answer.
LEMMA StillReading ==
  ASSUME IInv, phase # "answered", phase' # "answered", UNCHANGED <<visit, cfg, answer, kept>>, ReadInv',
         phase' # "overrun" \/ StoredAsTyped'
  PROVE  IInv'
<1>1. CfgOK(cfg)'
  BY DEF IInv
<1>2. AgainInv'
  <2>1. CASE kept = <<>>
    BY <2>1 DEF AgainInv
  <2>2. CASE kept # <<>>
    <3>1. PICK c : /\ kept = << c >> /\ CfgOK(c) /\ Confirms(visit, c) /\ WifiKept(visit, c) /\ cfg = c
      BY <2>2 DEF IInv, AgainInv
    <3> QED BY <3>1 DEF AgainInv
  <2> QED BY <2>1, <2>2
<1>3. AnswerInv'
  <2>1. answer = "none"
    BY DEF IInv, AnswerInv
  <2> QED BY <2>1 DEF AnswerInv
<1>4. StoredAsTyped' /\ RefusedIsMalformed' /\ ConfirmedAgainIsKept'
  BY DEF StoredAsTyped, RefusedIsMalformed, ConfirmedAgainIsKept, Form
<1> QED BY <1>1, <1>2, <1>3, <1>4 DEF IInv

\* The answer of the device.
Replies == {"none", "ok", "error", "500"} \union {Routes[i].kind : i \in DOMAIN Routes}
LEMMA AnswerGiven ==
  ASSUME IInv, phase = "handle", phase' = "answered", UNCHANGED <<visit, query, handler, body, parser, kept>>,
         answer' \in Replies, CfgOK(cfg'),
         answer' = "ok" => Kind \in Forms5 /\ StoredAt(visit, Kind, cfg') /\ WifiKept(visit, cfg'),
         answer' = "error" /\ Kind \in Forms5 => RefusedAt(visit, Kind),
         kept # <<>> /\ Kind \in Forms5 => KeptAt(visit, Kind, answer', cfg', kept[1])
  PROVE  IInv'
<1>1. ReadInv'
  <2>1. ReadAt(visit, "handle", query, handler, body, parser)
    BY DEF IInv, ReadInv
  <2>2. ReadAt(visit, "answered", query, handler, body, parser)
    BY <2>1 DEF ReadAt
  <2> QED BY <2>2 DEF ReadInv
<1>2. CfgOK(cfg)'
  OBVIOUS
<1>3. AgainInv'
  <2>1. CASE kept = <<>>
    BY <2>1 DEF AgainInv
  <2>2. CASE kept # <<>>
    <3>1. PICK c : kept = << c >> /\ CfgOK(c) /\ Confirms(visit, c) /\ WifiKept(visit, c)
      BY <2>2 DEF IInv, AgainInv
    <3> QED BY <3>1 DEF AgainInv
  <2> QED BY <2>1, <2>2
<1>4. AnswerInv'
  <2>1. Kind' = Kind
    BY DEF Kind
  <2> QED BY <2>1 DEF AnswerInv, Replies
<1>5. StoredAsTyped'
  BY StoredPrimed
<1>6. RefusedIsMalformed'
  BY RefusedPrimed
<1>7. ConfirmedAgainIsKept'
  BY KeptPrimed
<1> QED BY <1>1, <1>2, <1>3, <1>4, <1>5, <1>6, <1>7 DEF IInv

\* The settings a page showed are those it is confirmed with.
LEMMA AgainIs ==
  ASSUME IInv, phase # "answered", kept # <<>>
  PROVE  kept[1] = cfg /\ Confirms(visit, cfg) /\ WifiKept(visit, cfg)
<1>1. PICK c : kept = << c >> /\ Confirms(visit, c) /\ WifiKept(visit, c) /\ cfg = c
  BY DEF IInv, AgainInv
<1> QED BY <1>1

LEMMA RepliesAre == {"ok", "error", "500", "none"} \subseteq Replies
BY DEF Replies

\* A form of JSON that can be read is stored.
LEMMA JsonAnswered ==
  ASSUME IInv, phase = "handle", Kind \in JsonForms5, ReadsAsJson(Kind), JsonStore(cfg'),
         \A k \in TextKeys(Kind) : ~RunsOver(k, Parsed(Kind, k)),
         phase' = "answered", UNCHANGED <<visit, query, handler, body, parser, kept>>,
         \/ answer' = "ok"
         \/ answer' = "error" /\ kept = <<>> /\ RefusedAt(visit, Kind)
  PROVE  IInv'
<1>1. CfgOK(cfg') /\ StoredAt(visit, Kind, cfg') /\ WifiKept(visit, cfg')
  <2>1. ReadInv /\ CfgOK(cfg)
    BY DEF IInv
  <2> QED BY <2>1, JsonStored
<1>2. Kind \in Forms5
  BY DEF JsonForms5
<1>3. kept # <<>> => KeptAt(visit, Kind, answer', cfg', kept[1])
  <2> SUFFICES ASSUME kept # <<>> PROVE KeptAt(visit, Kind, answer', cfg', kept[1])
    OBVIOUS
  <2>1. kept[1] = cfg /\ Confirms(visit, cfg) /\ WifiKept(visit, cfg)
    BY AgainIs
  <2>2. answer' = "ok"
    OBVIOUS
  <2>3. CASE (Kind \in {"network", "calibration"} \/ PlainTexts(visit)) /\ NoHidden(visit, cfg)
    <3>1. ReadInv /\ CfgOK(cfg)
      BY DEF IInv
    <3>2. \A d : JsonStore(d) => d = cfg
      BY <2>1, <2>3, <3>1, AgainRead
    <3> QED BY <2>1, <2>2, <3>2 DEF KeptAt
  <2>4. CASE ~(Kind \in {"network", "calibration"} \/ PlainTexts(visit))
    <3>1. Kind \in {"ntp", "service"}
      BY <2>4 DEF JsonForms5, Forms5
    <3> QED BY <2>4, <3>1 DEF KeptAt
  <2>5. CASE ~NoHidden(visit, cfg)
    BY <2>1, <2>5 DEF KeptAt
  <2> QED BY <2>3, <2>4, <2>5
<1>4. answer' \in Replies
  BY RepliesAre
<1>5. answer' = "error" => RefusedAt(visit, Kind)
  OBVIOUS
<1> QED BY <1>1, <1>2, <1>3, <1>4, <1>5, AnswerGiven

\* What is stored of a field, and what a form whose texts stay where they are.
LEMMA StoredIs ==
  ASSUME Kind # "ap", NEW k
  PROVE  Stored(k) = ReadOn(k, Parsed(Kind, k), Parsed(Kind, NextField[k]))
BY DEF Stored, Copied, ReadOn

LEMMA NoOverrun ==
  ASSUME Kind \in JsonForms5, ~Overrun
  PROVE  \A k \in TextKeys(Kind) : ~RunsOver(k, Parsed(Kind, k))
<1>1. Kind # "ap" /\ TextKeys(Kind) = ToSet(FormKeys[Kind]) \intersect TextFields
  BY TextFieldsAre DEF JsonForms5, Forms5
<1> QED BY <1>1 DEF Overrun, Copied

\* These forms have no address.
LEMMA ParsedStored ==
  ASSUME NEW f \in {"ntp", "service", "calibration"}, Kind = f, CfgOK(cfg), NEW d,
         d = [k \in DOMAIN cfg |-> IF k \in ToSet(FormKeys[f]) THEN Stored(k) ELSE cfg[k]]
  PROVE  JsonStore(d)
<1>1. DOMAIN cfg = AllKeys
  BY DEF CfgOK
<1>2. \A k \in ToSet(FormKeys[f]) : NewValue(Kind, k, cfg[k]) = Stored(k)
  <2>1. \A k \in ToSet(FormKeys[f]) : k \notin Addresses
    BY KeySets DEF Addresses, ServiceTexts
  <2>2. Kind # "ap"
    OBVIOUS
  <2>3. \A k : Stored(k) = ReadOn(k, Parsed(Kind, k), Parsed(Kind, NextField[k]))
    BY <2>2, StoredIs
  <2> QED BY <2>1, <2>3 DEF NewValue
<1>3. d = [k \in AllKeys |-> IF k \in ToSet(FormKeys[Kind]) THEN NewValue(Kind, k, cfg[k]) ELSE cfg[k]]
  BY <1>1, <1>2
<1> QED BY <1>3 DEF JsonStore

LEMMA NtpStep ==
  ASSUME IInv, ApplyNtp
  PROVE  IInv'
<1>1. Kind = "ntp" /\ Kind \in JsonForms5 /\ FormKeys["ntp"] = NtpKeys
  BY FormsAre DEF ApplyNtp, JsonForms5, Forms5
<1>2. CfgOK(cfg)
  BY DEF IInv
<1>3. cfg' = [k \in DOMAIN cfg |-> IF k \in ToSet(FormKeys["ntp"]) THEN Stored(k) ELSE cfg[k]]
  BY <1>1 DEF ApplyNtp
<1>4. JsonStore(cfg')
  BY <1>1, <1>2, <1>3, ParsedStored
<1>5. /\ phase = "handle" /\ ReadsAsJson(Kind) /\ phase' = "answered" /\ answer' = "ok" /\ ~Overrun
      /\ UNCHANGED <<visit, query, handler, body, parser, kept>>
  BY <1>1 DEF ApplyNtp, Answered, Readable
<1>6. \A k \in TextKeys(Kind) : ~RunsOver(k, Parsed(Kind, k))
  BY <1>1, <1>5, NoOverrun
<1> QED BY <1>1, <1>4, <1>5, <1>6, JsonAnswered

LEMMA CalibrationStep ==
  ASSUME IInv, ApplyCalibration
  PROVE  IInv'
<1>1. Kind = "calibration" /\ Kind \in JsonForms5 /\ FormKeys["calibration"] = CalibrationKeys
  BY FormsAre DEF ApplyCalibration, JsonForms5, Forms5
<1>2. CfgOK(cfg)
  BY DEF IInv
<1>3. cfg' = [k \in DOMAIN cfg |-> IF k \in ToSet(FormKeys["calibration"]) THEN Stored(k) ELSE cfg[k]]
  BY <1>1 DEF ApplyCalibration
<1>4. JsonStore(cfg')
  BY <1>1, <1>2, <1>3, ParsedStored
<1>5. /\ phase = "handle" /\ ReadsAsJson(Kind) /\ phase' = "answered" /\ answer' = "ok"
      /\ UNCHANGED <<visit, query, handler, body, parser, kept>>
  BY <1>1 DEF ApplyCalibration, Answered, Readable
<1>6. TextKeys(Kind) = {}
  BY <1>1, TextKeysAre
<1> QED BY <1>1, <1>4, <1>5, <1>6, JsonAnswered

LEMMA ServiceStep ==
  ASSUME IInv, ApplyService
  PROVE  IInv'
<1>1. Kind = "service" /\ Kind \in JsonForms5 /\ FormKeys["service"] = ServiceKeys
  BY FormsAre DEF ApplyService, JsonForms5, Forms5
<1>2. CfgOK(cfg)
  BY DEF IInv
<1>3. cfg' = [k \in DOMAIN cfg |-> IF k \in ToSet(FormKeys["service"]) THEN Stored(k) ELSE cfg[k]]
  BY <1>1 DEF ApplyService
<1>4. JsonStore(cfg')
  BY <1>1, <1>2, <1>3, ParsedStored
<1>5. /\ phase = "handle" /\ ReadsAsJson(Kind) /\ phase' = "answered" /\ answer' = "ok" /\ ~Overrun
      /\ UNCHANGED <<visit, query, handler, body, parser, kept>>
  BY <1>1 DEF ApplyService, Answered, Readable
<1>6. \A k \in TextKeys(Kind) : ~RunsOver(k, Parsed(Kind, k))
  BY <1>1, <1>5, NoOverrun
<1> QED BY <1>1, <1>4, <1>5, <1>6, JsonAnswered

LEMMA NetworkStep ==
  ASSUME IInv, ApplyNetwork
  PROVE  IInv'
<1>1. Kind = "network" /\ Kind \in JsonForms5 /\ Kind \in Forms5 /\ ReadInv /\ CfgOK(cfg)
  BY DEF ApplyNetwork, JsonForms5, Forms5, IInv
<1>2. phase = "handle" /\ ReadsAsJson(Kind) /\ \A k \in TextKeys(Kind) : ~RunsOver(k, Parsed(Kind, k))
  <2>1. phase = "handle" /\ Readable /\ ~Overrun
    BY DEF ApplyNetwork
  <2> QED BY <1>1, <2>1, NoOverrun DEF Readable
<1>3. DOMAIN cfg = AllKeys
  BY <1>1 DEF CfgOK
<1>4. {"txtipadd", "net_m", "wifi_MODE"} \subseteq ToSet(FormKeys[Kind]) /\ DOMAIN visit.typed = ToSet(FormKeys[Kind])
      /\ ToSet(FormKeys[Kind]) = WifiTexts \union {"txtipadd", "net_m"}
  BY <1>1, KeySets, KindIs DEF WifiTexts
<1>5. \A k \in ToSet(FormKeys[Kind]) : Parsed(Kind, k) = Unescaped(visit.typed[k]) /\ visit.typed[k] \in Seq(Char)
  <2>1. \A k \in ToSet(FormKeys[Kind]) : k \notin NumberFields
    BY <1>4 DEF NumberFields, WifiTexts
  <2>2. \A k \in ToSet(FormKeys[Kind]) : TextRead(k, Parsed(Kind, k))
    BY <1>1, <1>2, <2>1, JsonValues
  <2>3. \A k \in ToSet(FormKeys[Kind]) : visit.typed[k] \in Seq(Char)
    BY <1>1, KindIs
  <2> QED BY <2>2, <2>3 DEF TextRead
<1> DEFINE static == Parsed("network", "wifi_MODE") = <<"static">>
           read(k) == stringToIp(Parsed("network", k))
<1>6. static <=> Static
  <2>1. visit.typed["wifi_MODE"] \in Modes
    BY <1>1, ModeIs
  <2>2. Parsed("network", "wifi_MODE") = visit.typed["wifi_MODE"]
    BY <1>1, <1>4, <1>5, <2>1, ModeRead
  <2> QED BY <2>2 DEF Static
<1>7. /\ cfg' = [k \in DOMAIN cfg |->
              CASE k \in {"wifi_ssid", "wifi_pass", "wifi_MODE"} -> Stored(k)
                [] k \in {"txtipadd", "net_m"} /\ static /\ read(k).ok -> read(k).ip
                [] OTHER -> cfg[k]]
      /\ phase' = "answered" /\ answer' = IF \E k \in {"txtipadd", "net_m"} : static /\ ~read(k).ok THEN "error" ELSE "ok"
      /\ UNCHANGED <<visit, query, handler, body, parser, kept>>
  BY DEF ApplyNetwork, Answered
<1>8. JsonStore(cfg')
  <2> DEFINE new(k) == CASE k \in {"wifi_ssid", "wifi_pass", "wifi_MODE"} -> Stored(k)
                         [] k \in {"txtipadd", "net_m"} /\ static /\ read(k).ok -> read(k).ip
                         [] OTHER -> cfg[k]
  <2>1. \A k \in WifiTexts : new(k) = Stored(k) /\ NewValue(Kind, k, cfg[k]) = Stored(k)
    <3>1. \A k : Stored(k) = ReadOn(k, Parsed(Kind, k), Parsed(Kind, NextField[k]))
      BY <1>1, StoredIs
    <3> QED BY <3>1 DEF NewValue, WifiTexts, Addresses
  <2>2. \A k \in {"txtipadd", "net_m"} : new(k) = NewValue(Kind, k, cfg[k])
    <3> HIDE DEF static
    <3>1. \A k \in {"txtipadd", "net_m"} : NewValue(Kind, k, cfg[k]) = IF static /\ read(k).ok THEN read(k).ip ELSE cfg[k]
      BY <1>1, <1>6 DEF NewValue, Addresses
    <3> HIDE DEF read
    <3>2. \A k \in {"txtipadd", "net_m"} : new(k) = IF static /\ read(k).ok THEN read(k).ip ELSE cfg[k]
      OBVIOUS
    <3> QED BY <3>1, <3>2
  <2>3. \A k : k \notin WifiTexts \union {"txtipadd", "net_m"} => new(k) = cfg[k]
    BY DEF WifiTexts
  <2>4. cfg' = [k \in AllKeys |-> new(k)]
    BY <1>3, <1>7
  <2> HIDE DEF new
  <2>5. cfg' = [k \in AllKeys |-> IF k \in ToSet(FormKeys[Kind]) THEN NewValue(Kind, k, cfg[k]) ELSE cfg[k]]
    <3>1. \A k \in AllKeys : new(k) = IF k \in ToSet(FormKeys[Kind]) THEN NewValue(Kind, k, cfg[k]) ELSE cfg[k]
      BY <1>4, <2>1, <2>2, <2>3
    <3> QED BY <2>4, <3>1
  <2> QED BY <2>5 DEF JsonStore
<1>9. \/ answer' = "ok"
      \/ answer' = "error" /\ kept = <<>> /\ RefusedAt(visit, Kind)
  <2> SUFFICES ASSUME NEW k \in {"txtipadd", "net_m"}, static, ~read(k).ok
               PROVE  kept = <<>> /\ RefusedAt(visit, Kind)
    BY <1>7
  <2> DEFINE t == visit.typed[k]
  <2>1. t \in Seq(Char) /\ Parsed("network", k) = Unescaped(t) /\ ~stringToIp(Unescaped(t)).ok
    BY <1>1, <1>4, <1>5
  <2> HIDE DEF t, read
  <2>2. ~Canonical(t)
    <3> SUFFICES ASSUME Canonical(t) PROVE FALSE
      OBVIOUS
    <3>1. Unescaped(t) = t /\ stringToIp(t).ok = TRUE
      BY <2>1, AddressRead
    <3> QED BY <2>1, <3>1
  <2>3. k \in GivenIn(visit)
    BY <1>4, <1>6 DEF GivenIn, Addresses, Static
  <2>4. RefusedAt(visit, Kind)
    BY <2>2, <2>3 DEF RefusedAt, t
  <2>5. ASSUME kept # <<>> PROVE FALSE
    <3>1. Confirms(visit, cfg)
      BY <1>2, <2>5, AgainIs
    <3>2. k \in DOMAIN visit.typed \intersect {"txtipadd", "net_m"}
      BY <1>4
    <3>3. stringToIp(t).ok = TRUE /\ Unescaped(t) = t
      BY <1>1, <3>1, <3>2, ConfirmedAddress DEF t
    <3> QED BY <2>1, <3>3
  <2> QED BY <2>4, <2>5
<1> HIDE DEF static, read
<1>10. phase' = "answered" /\ UNCHANGED <<visit, query, handler, body, parser, kept>>
  BY <1>7
<1> QED BY <1>1, <1>2, <1>8, <1>9, <1>10, JsonAnswered

\* Whatever answers no form stores nothing.
LEMMA NoOk == \A i \in DOMAIN Routes : Routes[i].kind # "ok"
<1>1. \A i \in (1..32) \ {25, 27, 28, 29, 30} : Routes[i].kind # "ok"
  BY RoutesAre DEF NoForm
<1>2. \A i \in {25, 27, 28, 29, 30} : Routes[i].kind # "ok"
  BY RoutesAre, PageIs
<1> QED BY <1>1, <1>2, RoutesAre

LEMMA OtherStep ==
  ASSUME IInv, HandleOther
  PROVE  IInv'
<1>1. /\ phase = "handle" /\ Kind \notin Forms5 /\ phase' = "answered" /\ cfg' = cfg
      /\ UNCHANGED <<visit, query, handler, body, parser, kept>>
      /\ answer' = IF Kind = "none" THEN "500" ELSE Kind
  BY FormsAre DEF HandleOther, Answered
<1>2. Kind = "none" \/ \E i \in DOMAIN Routes : Kind = Routes[i].kind
  <2>1. handler \in 0..Len(Routes)
    BY DEF IInv, ReadInv, ReadAt
  <2> QED BY <2>1, RoutesAre DEF Kind
<1>3. answer' \in Replies /\ answer' # "ok"
  BY <1>1, <1>2, RepliesAre, NoOk DEF Replies
<1>4. CfgOK(cfg')
  BY <1>1 DEF IInv
<1> QED BY <1>1, <1>3, <1>4, AnswerGiven

\* Texts without quotes and backslashes and numbers make JSON that is read.
LEMMA PlainRead ==
  ASSUME ReadInv, phase = "handle", Kind \in JsonForms5, PlainTexts(visit)
  PROVE  /\ (\A k \in DOMAIN visit.typed \intersect NumberFields : ReadsAsNumber(visit.typed[k])) => ReadsAsJson(Kind)
         /\ ~Fits(Kind) => CrowdedIn(visit, Kind)
<1> DEFINE K == ToSet(FormKeys[Kind])
<1>1. Kind \in Forms5 /\ DOMAIN visit.typed = K
  BY KindIs DEF JsonForms5
<1>2. \A k \in K : Member(Kind, k) = visit.typed[k] /\ visit.typed[k] \in Seq(Char)
                   /\ Backslash \notin ToSet(visit.typed[k]) /\ Quote \notin ToSet(visit.typed[k])
  <2>1. \A k \in K : Member(Kind, k) = visit.typed[k]
    BY JsonRead
  <2>2. \A k \in K : visit.typed[k] \in Seq(Char)
    BY <1>1, KindIs
  <2> QED BY <1>1, <2>1, <2>2 DEF PlainTexts
<1>3. \A k \in K : Unescaped(Member(Kind, k)) = visit.typed[k] /\ ReadsAsString(Member(Kind, k))
  <2> SUFFICES ASSUME NEW k \in K PROVE Unescaped(Member(Kind, k)) = visit.typed[k] /\ ReadsAsString(Member(Kind, k))
    OBVIOUS
  <2> DEFINE t == visit.typed[k]
  <2>1. t \in Seq(Char) /\ Backslash \notin ToSet(t) /\ Quote \notin ToSet(t) /\ Member(Kind, k) = t
    BY <1>2
  <2> HIDE DEF t
  <2>2. Unescaped(t) = t /\ ReadsAsString(t)
    BY <2>1, NoBackslash
  <2> QED BY <2>1, <2>2 DEF t
<1>4. ASSUME \A k \in DOMAIN visit.typed \intersect NumberFields : ReadsAsNumber(visit.typed[k])
      PROVE  ReadsAsJson(Kind)
  <2>1. \A k \in K : IF k \in NumberFields THEN ReadsAsNumber(Member(Kind, k)) ELSE ReadsAsString(Member(Kind, k))
    BY <1>1, <1>2, <1>3, <1>4
  <2> QED BY <2>1 DEF ReadsAsJson
<1>5. ASSUME ~Fits(Kind) PROVE CrowdedIn(visit, Kind)
  <2>1. Kind = "service" /\ ~HasRoom({Unescaped(Member("service", k)) : k \in ToSet(ServiceKeys) \ NumberFields})
    BY <1>5 DEF Fits
  <2>2. K = ToSet(ServiceKeys)
    BY <2>1, FormsAre
  <2>3. {Unescaped(Member("service", k)) : k \in ToSet(ServiceKeys) \ NumberFields}
          = {visit.typed[k] : k \in ToSet(ServiceKeys) \ NumberFields}
    BY <1>3, <2>1, <2>2
  <2> QED BY <2>1, <2>3 DEF CrowdedIn
<1> QED BY <1>4, <1>5

LEMMA UnreadableStep ==
  ASSUME IInv, ApplyUnreadable
  PROVE  IInv'
<1>1. /\ phase = "handle" /\ Kind \in JsonForms5 /\ ~(ReadsAsJson(Kind) /\ Fits(Kind)) /\ Kind \in Forms5
      /\ phase' = "answered" /\ answer' = "error" /\ UNCHANGED <<visit, query, handler, body, parser, kept>> /\ cfg' = cfg
  BY DEF ApplyUnreadable, Answered, JsonForms5, Forms5, Readable
<1>2. ReadInv /\ CfgOK(cfg)
  BY DEF IInv
<1>3. RefusedAt(visit, Kind)
  <2> SUFFICES ASSUME PlainTexts(visit), \A k \in DOMAIN visit.typed \intersect NumberFields : ReadsAsNumber(visit.typed[k])
               PROVE  CrowdedIn(visit, Kind)
    BY DEF RefusedAt
  <2>1. ReadsAsJson(Kind) /\ (~Fits(Kind) => CrowdedIn(visit, Kind))
    BY <1>1, <1>2, PlainRead
  <2> QED BY <1>1, <2>1
<1>4. kept # <<>> => KeptAt(visit, Kind, answer', cfg', kept[1])
  <2> SUFFICES ASSUME kept # <<>>, NoHidden(visit, kept[1])
               PROVE  CrowdedIn(visit, Kind) \/ (Kind \in {"ntp", "service"} /\ ~PlainTexts(visit))
    BY DEF KeptAt
  <2>1. Confirms(visit, cfg) /\ WifiKept(visit, cfg) /\ NoHidden(visit, cfg)
    BY <1>1, AgainIs
  <2>2. CASE Kind \in {"network", "calibration"}
    <3>1. ReadsAsJson(Kind)
      BY <1>1, <1>2, <2>1, <2>2, AgainRead
    <3>2. Fits(Kind)
      BY <2>2 DEF Fits
    <3> QED BY <1>1, <3>1, <3>2
  <2>3. CASE Kind \in {"ntp", "service"}
    <3>1. CASE PlainTexts(visit)
      <4>1. ReadsAsJson(Kind)
        BY <1>1, <1>2, <2>1, <3>1, AgainRead
      <4>2. ~Fits(Kind) => CrowdedIn(visit, Kind)
        BY <1>1, <1>2, <3>1, PlainRead
      <4> QED BY <1>1, <4>1, <4>2
    <3> QED BY <2>3, <3>1
  <2> QED BY <1>1, <2>2, <2>3 DEF JsonForms5, Forms5
<1>5. answer' \in Replies /\ CfgOK(cfg')
  BY <1>1, <1>2, RepliesAre
<1>6. answer' # "ok"
  BY <1>1
<1> QED BY <1>1, <1>3, <1>4, <1>5, <1>6, AnswerGiven

LEMMA IncompleteStep ==
  ASSUME IInv, ApplyIncomplete
  PROVE  IInv'
<1>1. /\ phase = "handle" /\ phase' = "restart" /\ UNCHANGED <<visit, query, handler, body, parser, cfg, answer, kept>>
  BY DEF ApplyIncomplete
<1>2. ReadInv'
  <2>1. ReadAt(visit, "handle", query, handler, body, parser)
    BY <1>1 DEF IInv, ReadInv
  <2>2. ReadAt(visit, "restart", query, handler, body, parser)
    BY <2>1 DEF ReadAt
  <2> QED BY <1>1, <2>2 DEF ReadInv
<1> QED BY <1>1, <1>2, StillReading

\* A button that does not say what it should.
LEMMA UnansweredStep ==
  ASSUME IInv, Unanswered
  PROVE  IInv'
<1>1. /\ phase = "handle" /\ phase' = "closed" /\ UNCHANGED <<visit, query, handler, body, parser, cfg, answer, kept>>
  BY DEF Unanswered
<1>2. ReadInv'
  <2>1. ReadAt(visit, "handle", query, handler, body, parser)
    BY <1>1 DEF IInv, ReadInv
  <2>2. ReadAt(visit, "closed", query, handler, body, parser)
    BY <2>1 DEF ReadAt
  <2> QED BY <1>1, <2>2 DEF ReadInv
<1> QED BY <1>1, <1>2, StillReading

LEMMA TimeoutStep ==
  ASSUME IInv, Timeout
  PROVE  IInv'
<1>1. /\ phase = "body" /\ phase' = "closed" /\ UNCHANGED <<visit, query, handler, body, parser, cfg, answer, kept>>
  BY DEF Timeout
<1>2. ReadInv'
  <2>1. ReadAt(visit, "body", query, handler, body, parser)
    BY <1>1 DEF IInv, ReadInv
  <2>2. ReadAt(visit, "closed", query, handler, body, parser)
    BY <2>1 DEF ReadAt
  <2> QED BY <1>1, <2>2 DEF ReadInv
<1> QED BY <1>1, <1>2, StillReading

\* What the url takes as it is, without the characters it has a use for.
LEMMA CleanIs ==
  ASSUME NEW t \in Seq(Char), ~MangledIn("ap", t)
  PROVE  t \in Seq(Clean)
<1>1. \A i \in 1..Len(t) : t[i] \in Clean
  <2>1. ToSet(t) \intersect {"&", "+", "%", "#"} = {}
    BY DEF MangledIn
  <2>2. \A i \in 1..Len(t) : t[i] \in ToSet(t) /\ t[i] \in Char
    BY DEF ToSet
  <2> QED BY <2>1, <2>2 DEF Clean
<1>2. t = [i \in 1..Len(t) |-> t[i]] /\ Len(t) \in Nat
  OBVIOUS
<1> HIDE DEF Clean
<1> QED BY <1>1, <1>2, SeqIs

\* The access point's form, with the values a, s and p that were read.
APStored(a, s, p) ==
  [cfg EXCEPT !.txtssid = IF s # <<>> THEN s ELSE @, !.txtpass = IF p # <<>> THEN p ELSE @,
              !.txtaplan = IF a # <<>> /\ stringToIp(a).ok THEN stringToIp(a).ip ELSE @]

LEMMA APStoredIs ==
  ASSUME CfgOK(cfg), NEW a, NEW s \in Seq(Char), NEW p \in Seq(Char),
         Len(s) < Size["txtssid"], Len(p) < Size["txtpass"]
  PROVE  LET d == APStored(a, s, p)
         IN  /\ CfgOK(d)
             /\ d["txtssid"] = (IF s # <<>> THEN s ELSE cfg["txtssid"])
             /\ d["txtpass"] = (IF p # <<>> THEN p ELSE cfg["txtpass"])
             /\ d["txtaplan"] = (IF a # <<>> /\ stringToIp(a).ok THEN stringToIp(a).ip ELSE cfg["txtaplan"])
             /\ \A k \in AllKeys \ {"txtaplan", "txtssid", "txtpass"} : d[k] = cfg[k]
<1> DEFINE d == APStored(a, s, p)
           x == IF s # <<>> THEN s ELSE cfg["txtssid"]
           y == IF p # <<>> THEN p ELSE cfg["txtpass"]
           z == IF a # <<>> /\ stringToIp(a).ok THEN stringToIp(a).ip ELSE cfg["txtaplan"]
<1>0. {"txtssid", "txtpass"} \subseteq TextFields \ DOMAIN NextField
  BY TextFieldsAre, NextIs
<1>1. x \in Seq(Char) /\ y \in Seq(Char) /\ Len(x) < Size["txtssid"] /\ Len(y) < Size["txtpass"]
  BY <1>0 DEF CfgOK
<1>2. z \in [1..4 -> Octets]
  BY StringToIpType DEF CfgOK, Addresses
<1>3. d = [cfg EXCEPT !["txtssid"] = x, !["txtpass"] = y, !["txtaplan"] = z]
  BY DEF APStored
<1> HIDE DEF x, y, z, d
<1>4. cfg = [k \in AllKeys |-> cfg[k]] /\ {"txtaplan", "txtssid", "txtpass"} \subseteq AllKeys
  BY AllKeysAre DEF CfgOK
<1>5. /\ d["txtssid"] = x /\ d["txtpass"] = y /\ d["txtaplan"] = z
      /\ \A k \in AllKeys \ {"txtaplan", "txtssid", "txtpass"} : d[k] = cfg[k]
      /\ d = [k \in AllKeys |-> d[k]]
  BY <1>3, <1>4
<1>6. CfgOK(d)
  <2>1. \A k \in Addresses : d[k] \in [1..4 -> Octets]
    <3>1. \A k \in Addresses : cfg[k] \in [1..4 -> Octets] /\ k \in AllKeys /\ k \notin {"txtssid", "txtpass"}
      BY AllKeysAre DEF CfgOK, Addresses
    <3> QED BY <1>2, <1>5, <3>1
  <2>2. \A k \in NumberFields : NumberOK(k, d[k])
    <3>1. \A k \in NumberFields : NumberOK(k, cfg[k]) /\ k \in AllKeys /\ k \notin {"txtssid", "txtpass", "txtaplan"}
      BY AllKeysAre DEF CfgOK, NumberFields
    <3> QED BY <1>5, <3>1
  <2>3. \A f \in JsonForms5 : \A k \in TextKeys(f) : d[k] \in Seq(Char \ ToSet(FormKeys[f]))
    <3> SUFFICES ASSUME NEW f \in JsonForms5, NEW k \in TextKeys(f) PROVE d[k] \in Seq(Char \ ToSet(FormKeys[f]))
      OBVIOUS
    <3>1. k \in AllKeys /\ k \notin {"txtssid", "txtpass", "txtaplan"}
      BY TextKeysAre, AllKeysAre DEF JsonForms5, Forms5, WifiTexts, ServiceTexts
    <3>2. cfg[k] \in Seq(Char \ ToSet(FormKeys[f]))
      BY DEF CfgOK
    <3> QED BY <1>5, <3>1, <3>2
  <2>4. d["wifi_MODE"] = cfg["wifi_MODE"] /\ d["c_id"] = cfg["c_id"] /\ d["U_name"] = cfg["U_name"]
    BY <1>5, AllKeysAre DEF WifiTexts, ServiceTexts
  <2>5. /\ d["wifi_MODE"] \in Modes
        /\ ReadOn("c_id", d["c_id"], d["U_name"]) = d["c_id"]
    BY <2>4 DEF CfgOK
  <2>7. \A k \in TextFields \ DOMAIN NextField : Len(d[k]) < Size[k]
    <3> SUFFICES ASSUME NEW k \in TextFields, k \notin DOMAIN NextField PROVE Len(d[k]) < Size[k]
      OBVIOUS
    <3>1. CASE k \in {"txtssid", "txtpass"}
      BY <1>1, <1>5, <3>1
    <3>2. CASE k \notin {"txtssid", "txtpass"}
      <4>1. k \in AllKeys /\ k # "txtaplan"
        BY TextFieldsAre, AllKeysAre DEF WifiTexts, ServiceTexts
      <4>2. d[k] = cfg[k]
        BY <1>5, <3>2, <4>1
      <4> QED BY <4>2 DEF CfgOK
    <3> QED BY <3>1, <3>2
  <2>6. d["txtssid"] \in Seq(Char) /\ d["txtpass"] \in Seq(Char) /\ d = [k \in AllKeys |-> d[k]]
    BY <1>1, <1>5
  <2> QED BY <2>1, <2>2, <2>3, <2>5, <2>6, <2>7 DEF CfgOK
<1> QED BY <1>5, <1>6 DEF d, x, y, z

LEMMA AccessPointStep ==
  ASSUME IInv, ApplyAP
  PROVE  IInv'
<1> DEFINE a == getParam("txtaplan")
           s == getParam("txtssid")
           p == getParam("txtpass")
           t1 == visit.typed["txtaplan"]
           t2 == visit.typed["txtssid"]
           t3 == visit.typed["txtpass"]
<1>1. /\ phase = "handle" /\ Kind = "ap" /\ phase' = "answered"
      /\ UNCHANGED <<visit, query, handler, body, parser, kept>>
      /\ answer' = IF a # <<>> /\ ~stringToIp(a).ok THEN "error" ELSE "ok"
      /\ cfg' = APStored(a, s, p)
  BY DEF ApplyAP, Answered, APStored
<1>2. ReadInv /\ CfgOK(cfg) /\ Kind \in Forms5
  BY <1>1 DEF IInv, Forms5
<1>3. Named("txtaplan") # {} /\ Named("txtssid") # {} /\ Named("txtpass") # {}
  <2>1. Complete /\ Kind = "ap"
    BY <1>1 DEF ApplyAP, Readable
  <2>2. "ap" \in DOMAIN Required /\ Required["ap"] = ToSet(APKeys)
    BY DEF Required
  <2> QED BY <2>1, <2>2, APKeysAre DEF Complete
<1>4. /\ t1 \in Seq(Char) /\ t2 \in Seq(Char) /\ t3 \in Seq(Char)
      /\ a \in Seq(Char) /\ s \in Seq(Char) /\ p \in Seq(Char)
      /\ t1 \in Seq(Clean) => a = t1
      /\ t1 \in Seq(Clean) /\ t2 \in Seq(Clean) /\ t3 \in Seq(Clean) => s = t2 /\ p = Stripped(t3)
  BY <1>1, <1>2, <1>3, APRead
<1>15. Len(s) < Size["txtssid"] /\ Len(p) < Size["txtpass"]
  <2>1. {"txtssid", "txtpass"} \subseteq ToSet(FormKeys[Kind]) \intersect TextFields
        /\ {"txtssid", "txtpass"} \intersect DOMAIN NextField = {}
    BY <1>1, KeySets, TextFieldsAre, NextIs
  <2>2. ~Overrun
    BY DEF ApplyAP
  <2>3. ~RunsOver("txtssid", s) /\ ~RunsOver("txtpass", p)
    BY <1>1, <2>1, <2>2 DEF Overrun, Copied
  <2> HIDE DEF s, p
  <2>4. ReadOn("txtssid", s, s) = s /\ ReadOn("txtpass", p, p) = p
    BY <2>1 DEF ReadOn
  <2> QED BY <1>4, <2>1, <2>3, <2>4, ReadOnIs
<1>5. DOMAIN visit.typed = {"txtaplan", "txtssid", "txtpass"}
  BY <1>1, <1>2, KindIs, KeySets
<1> HIDE DEF a, s, p, t1, t2, t3
<1>6. LET d == APStored(a, s, p)
      IN  /\ CfgOK(d)
          /\ d["txtssid"] = (IF s # <<>> THEN s ELSE cfg["txtssid"])
          /\ d["txtpass"] = (IF p # <<>> THEN p ELSE cfg["txtpass"])
          /\ d["txtaplan"] = (IF a # <<>> /\ stringToIp(a).ok THEN stringToIp(a).ip ELSE cfg["txtaplan"])
          /\ \A k \in AllKeys \ {"txtaplan", "txtssid", "txtpass"} : d[k] = cfg[k]
  <2>1. s \in Seq(Char) /\ p \in Seq(Char) /\ Len(s) < Size["txtssid"] /\ Len(p) < Size["txtpass"]
    BY <1>4, <1>15
  <2>2. CfgOK(cfg)
    BY <1>2
  <2> QED BY <2>1, <2>2, APStoredIs
<1>7. stringToIp(a).ok \in BOOLEAN
  BY StringToIpType
<1>8. Canonical(t1) => a = t1 /\ stringToIp(a).ok = TRUE /\ stringToIp(a).ip = Meant(t1)
  <2>1. Canonical(t1) => stringToIp(t1).ok = TRUE /\ stringToIp(t1).ip = Meant(t1) /\ t1 \in Seq(Clean)
    BY <1>4, AddressRead
  <2> QED BY <1>4, <2>1
<1>9. <<>> \in Seq(Clean)
  BY EmptySeq
<1>10. answer' = "ok" => StoredAt(visit, Kind, cfg')
  <2>1. ASSUME "txtaplan" \in GivenIn(visit), Canonical(t1) PROVE cfg'["txtaplan"] = Meant(t1)
    <3>1. t1 # <<>>
      BY <2>1 DEF GivenIn, t1
    <3> QED BY <1>1, <1>6, <1>8, <2>1, <3>1
  <2>2. ASSUME \A j \in DOMAIN visit.typed : ~MangledIn("ap", visit.typed[j])
        PROVE  (t2 = <<>> \/ cfg'["txtssid"] = t2) /\ (t3 = <<>> \/ Last(t3) = Space \/ cfg'["txtpass"] = t3)
    <3>1. ~MangledIn("ap", t1) /\ ~MangledIn("ap", t2) /\ ~MangledIn("ap", t3)
      BY <1>5, <2>2 DEF t1, t2, t3
    <3>2. t1 \in Seq(Clean) /\ t2 \in Seq(Clean) /\ t3 \in Seq(Clean)
      BY <1>4, <3>1, CleanIs
    <3>3. s = t2 /\ p = Stripped(t3)
      BY <1>4, <3>2
    <3>5. Last(t3) = Space \/ Stripped(t3) = t3
      BY <1>4, StrippedType
    <3>4. cfg'["txtssid"] = (IF s # <<>> THEN s ELSE cfg["txtssid"]) /\ cfg'["txtpass"] = (IF p # <<>> THEN p ELSE cfg["txtpass"])
      BY <1>1, <1>6
    <3> QED BY <3>3, <3>4, <3>5
  <2>3. "txtaplan" \in Addresses /\ {"txtssid", "txtpass"} \intersect (Addresses \union NumberFields) = {}
        /\ "txtaplan" \notin NumberFields
    BY DEF Addresses, NumberFields
  <2>4. ASSUME NEW k \in DOMAIN visit.typed
        PROVE  /\ k \in Addresses => (k \in GivenIn(visit) /\ Canonical(visit.typed[k]) => cfg'[k] = Meant(visit.typed[k]))
               /\ k \in NumberFields => (Number[visit.typed[k][1]] \in Held(k) => cfg'[k] = Number[visit.typed[k][1]])
               /\ k \notin Addresses \union NumberFields =>
                    \/ cfg'[k] = visit.typed[k]
                    \/ Kind = "ap" /\ \E j \in DOMAIN visit.typed : MangledIn(Kind, visit.typed[j])
                    \/ Kind = "ap" /\ visit.typed[k] = <<>>
                    \/ k = "txtpass" /\ Last(visit.typed[k]) = Space
    <3>1. CASE k = "txtaplan"
      BY <2>1, <2>3, <3>1 DEF t1
    <3>2. CASE k \in {"txtssid", "txtpass"}
      BY <1>1, <2>2, <2>3, <3>2 DEF t2, t3
    <3> QED BY <1>5, <2>4, <3>1, <3>2
  <2> QED BY <2>4 DEF StoredAt
<1>11. WifiKept(visit, cfg')
  BY <1>5 DEF WifiKept
<1>12. answer' = "error" => RefusedAt(visit, Kind)
  <2> SUFFICES ASSUME a # <<>>, ~stringToIp(a).ok PROVE RefusedAt(visit, Kind)
    BY <1>1
  <2>1. t1 # <<>>
    BY <1>4, <1>9
  <2>2. ~Canonical(t1)
    BY <1>8
  <2>3. "txtaplan" \in GivenIn(visit)
    BY <1>5, <2>1 DEF GivenIn, Addresses, t1
  <2> QED BY <2>2, <2>3 DEF RefusedAt, t1
<1>13. kept # <<>> => KeptAt(visit, Kind, answer', cfg', kept[1])
  <2> SUFFICES ASSUME kept # <<>>, kept[1]["txtaplan"] = Shipped["txtaplan"], ~MangledIn(Kind, t2),
                      NoHidden(visit, kept[1])
               PROVE  answer' = "ok" /\ cfg' = kept[1]
    BY <1>1 DEF KeptAt, t2
  <2>1. kept[1] = cfg /\ Confirms(visit, cfg)
    BY <1>1, AgainIs
  <2> DEFINE e == Shipped["txtaplan"]
  <2>2. t1 = ipToString(e) /\ t2 = cfg["txtssid"] /\ t3 = <<>>
    <3>1. t1 = ipToString(Shipped.txtaplan) /\ t3 = <<>>
      BY <1>5, <2>1, ConfirmsIs DEF t1, t3
    <3>2. t2 = cfg["txtssid"]
      <4>1. t2 = Visible(cfg["txtssid"])
        BY <1>5, <2>1, ConfirmsIs DEF t2, NumberFields
      <4>2. "txtssid" \in DOMAIN visit.typed \intersect Loaded \intersect TextFields
        BY <1>5, LoadedIs, TextFieldsAre
      <4>3. ToSet(cfg["txtssid"]) \intersect Hidden = {}
        BY <2>1, <4>2 DEF NoHidden
      <4>4. cfg["txtssid"] \in Seq(Char)
        BY <1>2 DEF CfgOK
      <4> QED BY <4>1, <4>3, <4>4, VisibleIs
    <3> QED BY <3>1, <3>2
  <2>3. e \in [1..4 -> Octets]
    BY ShippedOK DEF CfgOK, Addresses
  <2>4. cfg["txtaplan"] = e
    BY <2>1
  <2> HIDE DEF e
  <2>5. stringToIp(t1).ok = TRUE /\ stringToIp(t1).ip = e /\ t1 \in Seq(Clean)
    BY <2>2, <2>3, AddressAgain
  <2>6. t2 \in Seq(Clean)
    BY <1>1, <1>4, CleanIs
  <2>7. a = t1 /\ s = t2 /\ p = <<>>
    <3>1. Stripped(t3) = t3
      BY <1>4, <2>2, StrippedType
    <3> QED BY <1>4, <1>9, <2>2, <2>5, <2>6, <3>1
  <2>8. answer' = "ok"
    BY <1>1, <2>5, <2>7
  <2>9. cfg'["txtssid"] = cfg["txtssid"] /\ cfg'["txtpass"] = cfg["txtpass"] /\ cfg'["txtaplan"] = cfg["txtaplan"]
        /\ \A k \in AllKeys \ {"txtaplan", "txtssid", "txtpass"} : cfg'[k] = cfg[k]
    BY <1>1, <1>6, <2>2, <2>4, <2>5, <2>7
  <2>10. cfg' = [k \in AllKeys |-> cfg'[k]] /\ cfg = [k \in AllKeys |-> cfg[k]]
    BY <1>1, <1>2, <1>6 DEF CfgOK
  <2>11. cfg' = cfg
    <3>1. \A k \in AllKeys : cfg'[k] = cfg[k]
      BY <2>9
    <3> QED BY <2>10, <3>1
  <2> QED BY <2>1, <2>8, <2>11
<1>14. answer' \in Replies /\ CfgOK(cfg')
  BY <1>1, <1>6, RepliesAre
<1> QED BY <1>1, <1>2, <1>10, <1>11, <1>12, <1>13, <1>14, AnswerGiven

\* A copy runs over another field only if a character has two bytes, or
\* the text is not the one that was typed.
LEMMA OverrunStep ==
  ASSUME IInv, ApplyOverrun
  PROVE  IInv'
<1> DEFINE Odd == \E k \in DOMAIN visit.typed : ToSet(visit.typed[k]) \intersect Wide # {} \/ MangledIn(Kind, visit.typed[k])
<1>1. /\ phase = "handle" /\ Kind \in Forms5 /\ Readable /\ Overrun /\ phase' = "overrun"
      /\ UNCHANGED <<visit, query, handler, body, parser, cfg, answer, kept>>
  BY FormsAre DEF ApplyOverrun
<1>2. ReadInv /\ VisitOK(visit)
  BY DEF IInv, ReadInv, ReadAt
<1>3. ReadInv'
  <2>1. ReadAt(visit, "handle", query, handler, body, parser)
    BY <1>1 DEF IInv, ReadInv
  <2>2. ReadAt(visit, "overrun", query, handler, body, parser)
    BY <2>1 DEF ReadAt
  <2> QED BY <1>1, <2>2 DEF ReadInv
<1>4. PICK k \in ToSet(FormKeys[Kind]) \intersect TextFields : RunsOver(k, Copied(k))
  BY <1>1 DEF Overrun
<1>5. /\ DOMAIN visit.typed = ToSet(FormKeys[Kind])
      /\ \A j \in ToSet(FormKeys[Kind]) : visit.typed[j] \in Seq(Char)
      /\ k \in DOMAIN visit.typed /\ k \in TextFields /\ Limited(k, visit.typed[k])
  <2>1. DOMAIN visit.typed = ToSet(FormKeys[Kind]) /\ \A j \in ToSet(FormKeys[Kind]) : visit.typed[j] \in Seq(Char)
    BY <1>1, <1>2, KindIs
  <2>2. \A j \in DOMAIN visit.typed \intersect TextFields : Limited(j, visit.typed[j])
    BY <1>2 DEF VisitOK, TypedOK
  <2> QED BY <1>4, <2>1, <2>2
<1>6. Odd
  <2> SUFFICES ASSUME \A j \in DOMAIN visit.typed :
                        ToSet(visit.typed[j]) \intersect Wide = {} /\ ~MangledIn(Kind, visit.typed[j])
               PROVE  FALSE
    OBVIOUS
  <2>1. \A j \in DOMAIN visit.typed : visit.typed[j] \in Seq(Char \ Wide)
    <3> SUFFICES ASSUME NEW j \in DOMAIN visit.typed PROVE visit.typed[j] \in Seq(Char \ Wide)
      OBVIOUS
    <3> DEFINE t == visit.typed[j]
    <3>1. t \in Seq(Char) /\ ToSet(t) \intersect Wide = {}
      BY <1>5
    <3> HIDE DEF t
    <3>2. t = [i \in 1..Len(t) |-> t[i]] /\ Len(t) \in Nat /\ DOMAIN t = 1..Len(t)
      BY <3>1, LenProperties
    <3>3. \A i \in 1..Len(t) : t[i] \in Char /\ t[i] \notin Wide
      BY <3>1, <3>2, ElementOfSeq DEF ToSet
    <3>4. \A i \in 1..Len(t) : t[i] \in Char \ Wide
      BY <3>3
    <3>5. t \in Seq(Char \ Wide)
      BY <3>2, <3>4, SeqIs
    <3> QED BY <3>5 DEF t
  <2>2. \A t \in Seq(Char \ Wide) : t \in Seq(Char) /\ \A i \in 1..Len(t) : t[i] \notin Wide
    <3> TAKE t \in Seq(Char \ Wide)
    <3>1. Char \ Wide \subseteq Char
      OBVIOUS
    <3>2. t \in Seq(Char)
      BY <3>1, SeqMonotonic
    <3>3. \A i \in 1..Len(t) : t[i] \in Char \ Wide
      BY ElementOfSeq
    <3> QED BY <3>2, <3>3
  <2>3. CASE Kind # "ap"
    <3>1. Kind \in JsonForms5 /\ ReadsAsJson(Kind)
      BY <1>1, <2>3 DEF JsonForms5, Readable
    <3>2. k \notin NumberFields
      BY <1>4 DEF TextFields
    <3>3. TextRead(k, Parsed(Kind, k))
      BY <1>1, <1>2, <1>4, <3>1, <3>2, JsonValues
    <3>4. Backslash \notin ToSet(visit.typed[k])
      BY <1>5, <2>3 DEF MangledIn
    <3>5. Copied(k) = visit.typed[k]
      BY <2>3, <3>3, <3>4 DEF TextRead, Copied
    <3>6. ~RunsOver(k, visit.typed[k])
      BY <1>5, <2>1, <2>2, NarrowStays
    <3> QED BY <1>4, <3>5, <3>6
  <2>4. CASE Kind = "ap"
    <3> DEFINE t1 == visit.typed["txtaplan"]
               t2 == visit.typed["txtssid"]
               t3 == visit.typed["txtpass"]
    <3>1. DOMAIN visit.typed = {"txtaplan", "txtssid", "txtpass"}
      BY <1>5, <2>4, KeySets
    <3>2. ~MangledIn("ap", t1) /\ ~MangledIn("ap", t2) /\ ~MangledIn("ap", t3)
      BY <2>4, <3>1
    <3>3. t1 \in Seq(Char) /\ t2 \in Seq(Char) /\ t3 \in Seq(Char \ Wide) /\ t3 \in Seq(Char)
      BY <1>5, <2>1, <3>1
    <3>4. k = "txtssid" \/ k = "txtpass"
      BY <1>5, <3>1 DEF TextFields, Addresses
    <3>5. /\ t1 \in Seq(Clean) /\ t2 \in Seq(Clean) /\ t3 \in Seq(Clean) =>
               getParam("txtssid") = t2 /\ getParam("txtpass") = Stripped(t3)
      BY <1>1, <1>2, <2>4, APRead
    <3> HIDE DEF t1, t2, t3
    <3>6. t1 \in Seq(Clean) /\ t2 \in Seq(Clean) /\ t3 \in Seq(Clean)
      BY <3>2, <3>3, CleanIs
    <3>7. CASE k = "txtssid"
      <4>1. Copied(k) = visit.typed[k]
        BY <2>4, <3>5, <3>6, <3>7 DEF Copied, t2
      <4>2. ~RunsOver(k, visit.typed[k])
        BY <1>5, <2>1, <2>2, NarrowStays
      <4> QED BY <1>4, <4>1, <4>2
    <3>8. CASE k = "txtpass"
      <4> DEFINE u == Stripped(t3)
      <4>1. Copied(k) = u
        BY <2>4, <3>5, <3>6, <3>8 DEF Copied
      <4>2. u \in Seq(Char \ Wide) /\ Len(u) <= Len(t3)
        BY <3>3, StrippedType
      <4>3. Len(t3) < Size[k]
        BY <1>5, <3>8 DEF Limited, t3
      <4> HIDE DEF u
      <4>4. u \in Seq(Char) /\ \A i \in 1..Len(u) : u[i] \notin Wide
        BY <2>2, <4>2
      <4>5. Len(u) < Size[k]
        BY <3>3, <4>2, <4>3, <1>5, LenProperties, FormsAssumption
      <4>6. Limited(k, u)
        BY <3>8, <4>5 DEF Limited
      <4>7. ~RunsOver(k, u)
        BY <1>5, <4>4, <4>6, NarrowStays
      <4> QED BY <1>4, <4>1, <4>7
    <3> QED BY <3>4, <3>7, <3>8
  <2> QED BY <2>3, <2>4
<1>7. StoredAsTyped'
  <2>1. Kind' = Kind
    BY <1>1 DEF Kind
  <2>2. \A text : Mangled(text)' <=> MangledIn(Kind, text)
    BY <2>1 DEF Mangled, MangledIn
  <2>3. (\E j \in DOMAIN visit.typed : ToSet(visit.typed[j]) \intersect Wide # {} \/ Mangled(visit.typed[j]))'
    BY <1>1, <1>6, <2>2
  <2>4. ~Form'
    BY <1>1 DEF Form
  <2> QED BY <2>3, <2>4 DEF StoredAsTyped
<1> QED BY <1>1, <1>3, <1>7, StillReading

\* What a page shows of a form is something one could have typed.
LEMMA ShownIs ==
  ASSUME NEW k \in DOMAIN visit.typed \intersect AllKeys
  PROVE  /\ k = "txtpass" => Shown[k] = <<>>
         /\ k \in {"wifi_ssid", "wifi_pass"} => Shown[k] = visit.typed[k]
         /\ k = "txtaplan" => Shown[k] = ipToString(Shipped.txtaplan)
         /\ k \in {"txtipadd", "net_m"} => Shown[k] = ipToString(cfg[k])
         /\ k \in NumberFields => Shown[k] = << Digits(cfg[k]) >>
         /\ k \in {"txtssid", "wifi_MODE", "hntp"} \union ServiceTexts => Shown[k] = Visible(cfg[k])
<1>1. Loaded = {"txtaplan", "txtssid", "wifi_MODE", "txtipadd", "net_m", "hntp"} \union ServiceTexts \union NumberFields
  BY LoadedIs
<1> DEFINE a == ipToString(Shipped.txtaplan)
           b == ipToString(cfg[k])
           d == << Digits(cfg[k]) >>
           t == visit.typed[k]
           e == Visible(cfg[k])
           x == Shown[k]
<1>2. x = CASE k \notin Loaded -> IF k = "txtpass" THEN <<>> ELSE t
            [] k = "txtaplan" -> a
            [] k \in {"txtipadd", "net_m"} -> b
            [] k \in NumberFields -> d
            [] k \in Loaded \intersect TextFields -> e
  BY DEF Shown, Visible
<1> HIDE DEF a, b, d, t, e, x
<1>3. k \in {"txtpass", "wifi_ssid", "wifi_pass"} => k \notin Loaded
  BY <1>1 DEF ServiceTexts, NumberFields
<1>4. ASSUME k = "txtpass" PROVE x = <<>>
  <2>1. k \notin Loaded /\ k \notin NumberFields /\ k # "txtaplan" /\ k \notin {"txtipadd", "net_m"}
    BY <1>3, <1>4 DEF NumberFields
  <2> QED BY <1>2, <1>4, <2>1
<1>5. ASSUME k \in {"wifi_ssid", "wifi_pass"} PROVE x = t
  <2>1. k \notin Loaded /\ k # "txtpass" /\ k \notin NumberFields /\ k # "txtaplan" /\ k \notin {"txtipadd", "net_m"}
    BY <1>3, <1>5 DEF NumberFields
  <2> QED BY <1>2, <2>1
<1>6. ASSUME k = "txtaplan" PROVE x = a
  <2>1. k \in Loaded /\ k \notin NumberFields /\ k \notin {"txtipadd", "net_m"} /\ k \notin TextFields
    BY <1>1, <1>6 DEF NumberFields, Addresses, TextFields
  <2> QED BY <1>2, <1>6, <2>1
<1>7. ASSUME k \in {"txtipadd", "net_m"} PROVE x = b
  <2>1. k \in Loaded /\ k \notin NumberFields /\ k # "txtaplan" /\ k \notin TextFields
    BY <1>1, <1>7 DEF NumberFields, Addresses, TextFields
  <2> QED BY <1>2, <1>7, <2>1
<1>8. ASSUME k \in NumberFields PROVE x = d
  <2>1. k \in Loaded /\ k \notin {"txtaplan", "txtipadd", "net_m"} /\ k \notin TextFields
    BY <1>1, <1>8 DEF NumberFields, TextFields
  <2> QED BY <1>2, <1>8, <2>1
<1>9. ASSUME k \in {"txtssid", "wifi_MODE", "hntp"} \union ServiceTexts PROVE x = e
  <2>1. k \in Loaded /\ k \in TextFields /\ k \notin NumberFields /\ k # "txtaplan" /\ k \notin {"txtipadd", "net_m"}
    BY <1>1, <1>9, TextFieldsAre DEF NumberFields, ServiceTexts, WifiTexts
  <2> QED BY <1>2, <2>1
<1> QED BY <1>4, <1>5, <1>6, <1>7, <1>8, <1>9 DEF a, b, d, t, e, x

LEMMA ShownAP ==
  ASSUME CfgOK(cfg), DOMAIN visit.typed = ToSet(FormKeys["ap"])
  PROVE  \A k \in ToSet(FormKeys["ap"]) : Shown[k] \in Seq(Char)
<1> SUFFICES ASSUME NEW k \in ToSet(FormKeys["ap"]) PROVE Shown[k] \in Seq(Char)
  OBVIOUS
<1>1. k \in DOMAIN visit.typed \intersect AllKeys /\ k \in {"txtaplan", "txtssid", "txtpass"}
  BY KeySets, AllKeysAre
<1>2. CASE k = "txtaplan"
  <2> DEFINE e == Shipped["txtaplan"]
  <2>1. e \in [1..4 -> Octets]
    BY ShippedOK DEF CfgOK, Addresses
  <2>2. Shown[k] = ipToString(e)
    BY <1>1, <1>2, ShownIs
  <2> HIDE DEF e
  <2>3. ipToString(e) \in Seq(Char)
    BY <2>1, ShownAddress
  <2> QED BY <2>2, <2>3
<1>3. CASE k = "txtssid"
  <2>1. Shown[k] = Visible(cfg["txtssid"])
    BY <1>1, <1>3, ShownIs
  <2>2. cfg["txtssid"] \in Seq(Char)
    BY DEF CfgOK
  <2> QED BY <2>1, <2>2, VisibleIs
<1>4. CASE k = "txtpass"
  <2>1. Shown[k] = <<>>
    BY <1>1, <1>4, ShownIs
  <2> QED BY <2>1, EmptySeq
<1> QED BY <1>1, <1>2, <1>3, <1>4

LEMMA ModeVisible ==
  ASSUME NEW m \in Modes
  PROVE  Visible(m) = m
<1>1. PICK c \in {"static", "dhcp"} : m = << c >>
  BY DEF Modes
<1>2. m \in Seq({"static", "dhcp"}) /\ ToSet(m) = {c}
  <2>1. << c >> \in Seq({"static", "dhcp"})
    BY SingleType
  <2>2. ToSet(<< c >>) = {c}
    BY DEF ToSet
  <2> QED BY <1>1, <2>1, <2>2
<1>3. ToSet(m) \intersect Hidden = {}
  BY <1>2 DEF Hidden, CR, LF
<1> QED BY <1>2, <1>3, VisibleIs

\* Every text is one.
LEMMA CfgTexts == CfgOK(cfg) => \A k \in TextFields : cfg[k] \in Seq(Char)
<1> SUFFICES ASSUME CfgOK(cfg), NEW k \in TextFields PROVE cfg[k] \in Seq(Char)
  OBVIOUS
<1>1. CASE k \in {"txtssid", "txtpass"}
  BY <1>1 DEF CfgOK
<1>2. CASE \E f \in JsonForms5 : k \in TextKeys(f)
  <2>1. PICK f \in JsonForms5 : k \in TextKeys(f)
    BY <1>2
  <2>2. cfg[k] \in Seq(Char \ ToSet(FormKeys[f]))
    BY <2>1 DEF CfgOK
  <2>3. Char \ ToSet(FormKeys[f]) \subseteq Char
    OBVIOUS
  <2> QED BY <2>2, <2>3, SeqMonotonic
<1> QED BY <1>1, <1>2, TextFieldsAre

\* What is shown is within the limits of its field.
LEMMA ShownLimited ==
  ASSUME CfgOK(cfg), ReadInv, Kind \in Forms5, NEW k \in ToSet(FormKeys[Kind]) \intersect TextFields
  PROVE  Limited(k, Shown[k])
<1>0. k \in DOMAIN visit.typed \intersect AllKeys /\ k \notin Addresses /\ k \notin NumberFields
  BY KindIs, KeysIn DEF TextFields
<1>1. Limited(k, visit.typed[k])
  BY <1>0 DEF ReadInv, ReadAt, VisitOK, TypedOK
<1>2. CASE k \in {"wifi_ssid", "wifi_pass"}
  <2>1. Shown[k] = visit.typed[k]
    BY <1>0, <1>2, ShownIs
  <2> QED BY <1>1, <2>1
<1>3. CASE k = "txtpass"
  <2>1. Shown[k] = <<>>
    BY <1>0, <1>3, ShownIs
  <2>2. Len(<<>>) = 0 /\ Size[k] \in Nat \ {0}
    BY FormsAssumption
  <2>3. Len(<<>>) < Size[k]
    BY <2>2
  <2> QED BY <1>3, <2>1, <2>3 DEF Limited
<1>4. CASE k \in {"txtssid", "wifi_MODE", "hntp"} \union ServiceTexts
  <2>1. Shown[k] = Visible(cfg[k])
    BY <1>0, <1>4, ShownIs
  <2>2. CASE k = "c_id"
    BY <2>2 DEF Limited
  <2>3. CASE k # "c_id"
    <3>1. k \notin DOMAIN NextField /\ k # "wifi_ssid"
      BY <1>4, <2>3, NextIs DEF ServiceTexts
    <3>2. Len(cfg[k]) < Size[k] /\ Size[k] \in Nat
      BY <3>1, FormsAssumption DEF CfgOK
    <3>3. cfg[k] \in Seq(Char)
      BY CfgTexts
    <3>4. Len(Visible(cfg[k])) <= Len(cfg[k]) /\ Visible(cfg[k]) \in Seq(Char)
      BY <3>3, VisibleIs
    <3>5. Len(Visible(cfg[k])) < Size[k]
      BY <3>2, <3>3, <3>4, LenProperties
    <3> QED BY <2>1, <2>3, <3>1, <3>5 DEF Limited
  <2> QED BY <2>2, <2>3
<1> QED BY <1>2, <1>3, <1>4, TextFieldsAre DEF WifiTexts

LEMMA ShownJson ==
  ASSUME CfgOK(cfg), NEW f \in JsonForms5, DOMAIN visit.typed = ToSet(FormKeys[f]), Typed(FormKeys[f], visit.typed),
         NEW k \in ToSet(FormKeys[f])
  PROVE  Shown[k] \in Seq(Char \ ToSet(FormKeys[f])) /\ Shown[k] \in Seq(Char) /\ (k = "wifi_MODE" => Shown[k] \in Modes)
<1> DEFINE C == Char \ ToSet(FormKeys[f])
<1>0. f \in Forms5
  BY DEF JsonForms5
<1>1. k \in AllKeys /\ k \in DOMAIN visit.typed \intersect AllKeys /\ Char \ AllKeys \subseteq C
      /\ (k \in Addresses \/ k \in NumberFields \/ k \in TextKeys(f))
  BY <1>0, KeysIn
<1>2. CASE k \in Addresses
  <2>1. k \in {"txtipadd", "net_m"}
    <3>1. "txtaplan" \notin ToSet(FormKeys[f])
      BY KeySets DEF JsonForms5, Forms5, ServiceTexts, WifiTexts
    <3> QED BY <1>2, <3>1 DEF Addresses
  <2>2. Shown[k] = ipToString(cfg[k])
    BY <1>1, <2>1, ShownIs
  <2>3. cfg[k] \in [1..4 -> Octets]
    BY <1>2 DEF CfgOK
  <2>4. ipToString(cfg[k]) \in Seq(Char \ AllKeys)
    BY <2>3, AddressAgain
  <2> HIDE DEF C
  <2>5. Shown[k] \in Seq(C)
    BY <1>1, <2>2, <2>4
  <2>6. Shown[k] \in Seq(Char)
    BY <2>5 DEF C
  <2> QED BY <2>1, <2>5, <2>6 DEF C
<1>3. CASE k \in NumberFields
  <2> DEFINE d == Digits(cfg[k])
  <2>1. Shown[k] = << d >>
    BY <1>1, <1>3, ShownIs
  <2>2. \E c \in DOMAIN Number : Number[c] = cfg[k]
    BY <1>3 DEF CfgOK, NumberOK
  <2>3. d \in DOMAIN Number
    BY <2>2, NumbersAre
  <2> HIDE DEF d, C
  <2>4. d \in Char \ AllKeys
    BY <2>3, NumbersAre
  <2>5. d \in C /\ d \in Char
    BY <1>1, <2>4
  <2>6. << d >> \in Seq(C) /\ << d >> \in Seq(Char)
    BY <2>5, SingleType
  <2>7. k # "wifi_MODE"
    BY <1>3 DEF NumberFields
  <2> QED BY <2>1, <2>6, <2>7 DEF C
<1>4. CASE k \in TextKeys(f)
  <2>0. k \in {"wifi_ssid", "wifi_pass"} \/ k \in {"txtssid", "wifi_MODE", "hntp"} \union ServiceTexts
    BY <1>4, TextKeysAre DEF JsonForms5, Forms5, WifiTexts
  <2>1. CASE k \in {"wifi_ssid", "wifi_pass"}
    <3>1. Shown[k] = visit.typed[k]
      BY <1>1, <2>1, ShownIs
    <3>2. visit.typed[k] \in Seq(C)
      BY DEF Typed, ToSet
    <3>3. visit.typed[k] \in Seq(Char) /\ k # "wifi_MODE"
      BY <2>1, <3>2
    <3> QED BY <3>1, <3>2, <3>3
  <2>2. CASE k \in {"txtssid", "wifi_MODE", "hntp"} \union ServiceTexts
    <3>1. Shown[k] = Visible(cfg[k])
      BY <1>1, <2>2, ShownIs
    <3>2. cfg[k] \in Seq(C)
      BY <1>4 DEF CfgOK
    <3> HIDE DEF C
    <3>3. Visible(cfg[k]) \in Seq(C)
      BY <3>2, VisibleIs
    <3>4. k = "wifi_MODE" => Visible(cfg[k]) \in Modes
      <4> SUFFICES ASSUME k = "wifi_MODE" PROVE Visible(cfg[k]) \in Modes
        OBVIOUS
      <4>1. cfg[k] \in Modes
        BY DEF CfgOK
      <4>2. Visible(cfg[k]) = cfg[k]
        BY <4>1, ModeVisible
      <4> QED BY <4>1, <4>2
    <3>5. Visible(cfg[k]) \in Seq(Char)
      BY <3>3 DEF C
    <3> QED BY <3>1, <3>3, <3>4, <3>5 DEF C
  <2> QED BY <2>0, <2>1, <2>2
<1> QED BY <1>1, <1>2, <1>3, <1>4

LEMMA ShownOK ==
  ASSUME ReadInv, CfgOK(cfg), Kind \in Forms5
  PROVE  VisitOK([visit EXCEPT !.typed = Shown]) /\ Confirms([visit EXCEPT !.typed = Shown], cfg)
<1> DEFINE v == [visit EXCEPT !.typed = Shown]
           K == ToSet(FormKeys[Kind])
<1>1. /\ visit.path = Uri(Kind) /\ DOMAIN visit.typed = K /\ Keys(visit.path) = FormKeys[Kind]
  BY KindIs
<1>2. VisitOK(visit)
  BY DEF ReadInv, ReadAt
<1>3. v = [k \in Fields |-> v[k]] /\ v.typed = Shown /\ v.path = visit.path /\ v.kind = visit.kind
      /\ v.memory = visit.memory /\ v.fields = visit.fields /\ v.tail = visit.tail /\ v.asked = visit.asked
  BY <1>2 DEF VisitOK, Fields
<1>4. Shown = [k \in K |-> Shown[k]]
  <2> DEFINE sh(k) == CASE k \notin Loaded -> IF k = "txtpass" THEN <<>> ELSE visit.typed[k]
                        [] k = "txtaplan" -> ipToString(Shipped.txtaplan)
                        [] k \in {"txtipadd", "net_m"} -> ipToString(cfg[k])
                        [] k \in NumberFields -> << Digits(cfg[k]) >>
                        [] k \in Loaded \intersect TextFields -> Visible(cfg[k])
  <2>1. Shown = [k \in DOMAIN visit.typed |-> sh(k)]
    BY DEF Shown, Visible
  <2> HIDE DEF sh, K
  <2> QED BY <1>1, <2>1
<1>5. TypedOK(visit.path, Shown)
  <2>1. \A k \in K : /\ Shown[k] \in Seq(Char)
                     /\ Kind \in JsonForms5 => Shown[k] \in Seq(Char \ K) /\ (k = "wifi_MODE" => Shown[k] \in Modes)
    <3>1. CASE Kind = "ap"
      BY <1>1, <3>1, ShownAP DEF JsonForms5
    <3>2. CASE Kind \in JsonForms5
      <4>1. Typed(FormKeys[Kind], visit.typed)
        BY <1>1, <1>2, <3>2 DEF VisitOK, TypedOK
      <4> QED BY <1>1, <3>2, <4>1, ShownJson
    <3> QED BY <3>1, <3>2 DEF JsonForms5
  <2>2. Shown \in [ToSet(Keys(visit.path)) -> Seq(Char)]
    BY <1>1, <1>4, <2>1
  <2>3. ASSUME NEW f \in JsonForms5, visit.path = Uri(f) PROVE Typed(FormKeys[f], Shown)
    <3>1. f = Kind
      BY <1>1, <2>3, UrisAre DEF JsonForms5
    <3>2. \A i \in DOMAIN FormKeys[f] : FormKeys[f][i] \in K
      BY <3>1 DEF ToSet
    <3> QED BY <2>1, <3>1, <3>2 DEF Typed
  <2>4. ASSUME visit.path = Uri("network") PROVE Shown["wifi_MODE"] \in Modes
    <3>1. Kind = "network"
      BY <1>1, <2>4, UrisAre DEF Forms5
    <3>2. "wifi_MODE" \in K /\ Kind \in JsonForms5
      BY <3>1, KeySets DEF WifiTexts, JsonForms5, Forms5
    <3> QED BY <2>1, <3>2
  <2>5. \A k \in DOMAIN Shown \intersect TextFields : Limited(k, Shown[k])
    <3>1. DOMAIN Shown = K
      BY <1>4
    <3> QED BY <3>1, ShownLimited
  <2> QED BY <2>2, <2>3, <2>4, <2>5 DEF TypedOK
<1>6. Confirms(v, cfg)
  <2> SUFFICES ASSUME NEW k \in K
               PROVE  Shown[k] = CASE k = "txtpass" -> <<>>
                                   [] k = "txtaplan" -> ipToString(Shipped.txtaplan)
                                   [] k \in {"txtipadd", "net_m"} -> ipToString(cfg[k])
                                   [] k \in NumberFields -> << Digits(cfg[k]) >>
                                   [] k \in {"wifi_ssid", "wifi_pass"} -> Shown[k]
                                   [] OTHER -> Visible(cfg[k])
    <3> HIDE DEF v, K
    <3>1. DOMAIN v.typed = K /\ v.typed = Shown
      BY <1>3, <1>4
    <3> QED BY <3>1 DEF Confirms
  <2>1. k \in DOMAIN visit.typed \intersect AllKeys
    BY <1>1, KeysIn
  <2> DEFINE a == ipToString(Shipped.txtaplan)
             b == ipToString(cfg[k])
             d == << Digits(cfg[k]) >>
             e == Visible(cfg[k])
             x == Shown[k]
  <2>2. /\ k = "txtpass" => x = <<>>
        /\ k = "txtaplan" => x = a
        /\ k \in {"txtipadd", "net_m"} => x = b
        /\ k \in NumberFields => x = d
        /\ k \in {"txtssid", "wifi_MODE", "hntp"} \union ServiceTexts => x = e
    BY <2>1, ShownIs
  <2> HIDE DEF a, b, d, e, x
  <2>3. k \in {"txtpass", "txtaplan", "txtipadd", "net_m", "wifi_ssid", "wifi_pass"} \union NumberFields
        \/ k \in {"txtssid", "wifi_MODE", "hntp"} \union ServiceTexts
    BY <2>1, AllKeysAre DEF WifiTexts
  <2>4. x = CASE k = "txtpass" -> <<>>
              [] k = "txtaplan" -> a
              [] k \in {"txtipadd", "net_m"} -> b
              [] k \in NumberFields -> d
              [] k \in {"wifi_ssid", "wifi_pass"} -> x
              [] OTHER -> e
    BY <2>2, <2>3
  <2> QED BY <2>4 DEF a, b, d, e, x
<1> HIDE DEF v
<1>7. VisitOK(v)
  BY <1>2, <1>3, <1>5 DEF VisitOK, PostVisit, MultiVisit
<1> QED BY <1>6, <1>7 DEF v

-----------------------------------------------------------------------------
(* The invariant is inductive.                                             *)

LEMMA InitOK == Init => IInv
<1> SUFFICES ASSUME Init PROVE IInv
  OBVIOUS
<1>1. /\ visit \in Visits /\ phase = Start(visit) /\ query = Query(visit) /\ handler = 0 /\ body = BodyOf(visit)
      /\ parser = NewParser(Len(body)) /\ cfg = Shipped /\ answer = "none" /\ kept = <<>>
  BY DEF Init
<1>2. VisitOK(visit)
  BY <1>1, VisitsAre, FormsAssumption
<1>3. phase \in {"unsent", "head"}
  BY <1>1 DEF Start
<1>4. ReadInv
  <2>1. ReadAt(visit, phase, Query(visit), 0, BodyOf(visit), NewParser(Len(BodyOf(visit))))
    BY <1>2, <1>3, SentIs
  <2> QED BY <1>1, <2>1 DEF ReadInv
<1>5. CfgOK(cfg)
  BY <1>1, ShippedOK
<1>6. AgainInv
  BY <1>1 DEF AgainInv
<1>7. AnswerInv
  BY <1>1 DEF AnswerInv
<1>8. StoredAsTyped /\ RefusedIsMalformed /\ ConfirmedAgainIsKept
  BY <1>3 DEF StoredAsTyped, RefusedIsMalformed, ConfirmedAgainIsKept, Form
<1> QED BY <1>4, <1>5, <1>6, <1>7, <1>8 DEF IInv

LEMMA UrlStepOK ==
  ASSUME IInv, addGetParam
  PROVE  IInv'
<1>1. /\ phase = "head" /\ query # <<>> /\ query' = TurnLeaves(query)
      /\ parser' = [parser EXCEPT !.params = Append(@, TurnOf(query))]
      /\ UNCHANGED <<visit, phase, handler, body, cfg, answer, kept>>
  BY DEF addGetParam, TurnLeaves, TurnOf
<1>2. ReadAt(visit, "head", query, handler, body, parser)
  BY <1>1 DEF IInv, ReadInv
<1>3. handler = 0
  BY <1>2 DEF ReadAt
<1>4. ReadAt(visit, "head", TurnLeaves(query), 0, body, [parser EXCEPT !.params = Append(parser.params, TurnOf(query))])
  BY <1>1, <1>2, <1>3, UrlTurn
<1>5. ReadInv'
  BY <1>1, <1>3, <1>4 DEF ReadInv
<1> QED BY <1>1, <1>5, StillReading

LEMMA RouteStep ==
  ASSUME IInv, attachHandler
  PROVE  IInv'
<1> DEFINE takers == {i \in DOMAIN Routes : canHandle(Routes[i], visit.path)}
<1>1. /\ phase = "head" /\ query = <<>>
      /\ handler' = IF takers = {} THEN 0 ELSE CHOOSE i \in takers : \A j \in takers : i <= j
      /\ phase' = IF body = <<>> THEN "handle" ELSE "body"
      /\ UNCHANGED <<visit, query, body, parser, cfg, answer, kept>>
  BY DEF attachHandler
<1>2. ReadAt(visit, "head", query, handler, body, parser)
  BY <1>1 DEF IInv, ReadInv
<1>3. handler = 0
  BY <1>2 DEF ReadAt
<1>4. handler' \in 0..Len(Routes) /\ (handler' # 0 => canHandle(Routes[handler'], visit.path))
  <2>1. CASE takers = {}
    <3>1. handler' = 0
      BY <1>1, <2>1
    <3>2. 0 \in 0..Len(Routes)
      BY RoutesAre
    <3> HIDE DEF takers
    <3> QED BY <3>1, <3>2
  <2>2. CASE takers # {}
    <3>1. takers \in SUBSET Nat
      BY RoutesAre
    <3> HIDE DEF takers
    <3>2. \E i \in takers : \A j \in takers : i <= j
      BY <2>2, <3>1, LeastOf
    <3>3. handler' \in takers
      BY <1>1, <2>2, <3>2
    <3> QED BY <3>3, RoutesAre DEF takers
  <2> QED BY <2>1, <2>2
<1>5. ReadAt(visit, IF body = <<>> THEN "handle" ELSE "body", <<>>, handler', body, parser)
  <2> DEFINE h == handler'
  <2>1. h \in 0..Len(Routes) /\ (h # 0 => canHandle(Routes[h], visit.path))
    BY <1>4
  <2>2. ReadAt(visit, "head", <<>>, 0, body, parser)
    BY <1>1, <1>2, <1>3
  <2> HIDE DEF h
  <2>3. ReadAt(visit, IF body = <<>> THEN "handle" ELSE "body", <<>>, h, body, parser)
    BY <2>1, <2>2, Attached
  <2> QED BY <2>3 DEF h
<1>6. ReadInv'
  BY <1>1, <1>5 DEF ReadInv
<1>7. phase # "answered" /\ phase' # "answered"
  BY <1>1
<1> QED BY <1>1, <1>6, <1>7, StillReading

LEMMA BodyStep ==
  ASSUME IInv, Byte
  PROVE  IInv'
<1>1. /\ phase = "body" /\ body # <<>> /\ body' = Tail(body) /\ UNCHANGED <<visit, query, handler, cfg, answer, kept>>
  BY DEF Byte
<1>2. PICK last \in IF Len(body) = 1 THEN {TRUE} ELSE BOOLEAN :
        /\ parser' = ByteNext(visit, handler, parser, body[1], last)
        /\ phase' = IF last /\ parser'.parsed = parser'.length THEN "handle" ELSE "body"
  BY DEF Byte, ByteNext
<1>3. last \in BOOLEAN /\ (Len(body) = 1 => last)
  BY <1>2
<1>4. ReadAt(visit, "body", query, handler, body, parser)
  BY <1>1 DEF IInv, ReadInv
<1> DEFINE r == ByteNext(visit, handler, parser, body[1], last)
<1>5. ReadAt(visit, IF last /\ r.parsed = r.length THEN "handle" ELSE "body", query, handler, Tail(body), r)
  BY <1>1, <1>3, <1>4, ByteStep
<1> HIDE DEF r
<1>6. parser' = r
  BY <1>2 DEF r
<1>7. ReadInv'
  BY <1>1, <1>2, <1>5, <1>6 DEF ReadInv
<1>8. phase # "answered" /\ phase' # "answered" /\ phase' # "overrun"
  BY <1>1, <1>2
<1> QED BY <1>1, <1>7, <1>8, StillReading

LEMMA AgainStep ==
  ASSUME IInv, Again
  PROVE  IInv'
<1> DEFINE v == [visit EXCEPT !.typed = Shown]
<1>1. /\ phase = "answered" /\ answer = "ok" /\ kept = <<>> /\ kept' = << cfg >> /\ cfg' = cfg
      /\ visit' = v /\ phase' = Start(v) /\ query' = Query(v) /\ handler' = 0 /\ body' = BodyOf(v)
      /\ parser' = NewParser(Len(BodyOf(v))) /\ answer' = "none"
  BY DEF Again, Send
<1>2. ReadInv /\ CfgOK(cfg) /\ Kind \in Forms5 /\ WifiKept(visit, cfg)
  BY <1>1 DEF IInv, AnswerInv
<1>3. VisitOK(v) /\ Confirms(v, cfg)
  BY <1>2, ShownOK
<1>4. WifiKept(v, cfg)
  <2>1. VisitOK(visit)
    BY <1>2 DEF ReadInv, ReadAt
  <2>2. v.typed = Shown
    BY <2>1 DEF VisitOK, Fields
  <2>3. DOMAIN Shown = DOMAIN visit.typed
    BY DEF Shown
  <2>4. \A k \in DOMAIN visit.typed \intersect {"wifi_ssid", "wifi_pass"} : Shown[k] = visit.typed[k]
    BY ShownIs, AllKeysAre DEF WifiTexts
  <2>5. "wifi_ssid" \in DOMAIN visit.typed => "wifi_pass" \in DOMAIN visit.typed
    <3>1. DOMAIN visit.typed = ToSet(FormKeys[Kind])
      BY <1>2, KindIs
    <3> QED BY <1>2, <3>1, KeySets DEF Forms5, WifiTexts, ServiceTexts
  <2> HIDE DEF v
  <2> QED BY <1>2, <2>2, <2>3, <2>4, <2>5 DEF WifiKept
<1> HIDE DEF v
<1>5. phase' \in {"unsent", "head"}
  BY <1>1 DEF Start
<1>6. ReadInv'
  <2>1. \A ph \in {"unsent", "head"} : ReadAt(v, ph, Query(v), 0, BodyOf(v), NewParser(Len(BodyOf(v))))
    BY <1>3, SentIs
  <2> QED BY <1>1, <1>5, <2>1 DEF ReadInv
<1>7. CfgOK(cfg)'
  BY <1>1, <1>2
<1>8. AgainInv'
  BY <1>1, <1>2, <1>3, <1>4 DEF AgainInv
<1>9. AnswerInv'
  BY <1>1 DEF AnswerInv
<1>10. StoredAsTyped' /\ RefusedIsMalformed' /\ ConfirmedAgainIsKept'
  BY <1>5 DEF StoredAsTyped, RefusedIsMalformed, ConfirmedAgainIsKept, Form
<1> QED BY <1>6, <1>7, <1>8, <1>9, <1>10 DEF IInv

LEMMA Unchanged ==
  ASSUME IInv, UNCHANGED vars
  PROVE  IInv'
<1>1. ReadInv' /\ CfgOK(cfg)' /\ AgainInv'
  BY DEF vars, IInv, ReadInv, AgainInv
<1>2. Kind' = Kind /\ Form' = Form
  BY DEF Kind, Form, vars
<1>3. AnswerInv'
  BY <1>2 DEF vars, IInv, AnswerInv
<1>4. StoredAsTyped'
  <2>1. visit' = visit /\ phase' = phase /\ cfg' = cfg /\ answer' = answer /\ handler' = handler
    BY DEF vars
  <2>2. Given' = Given /\ \A text : Mangled(text)' <=> Mangled(text)
    BY <1>2, <2>1 DEF Given, Mangled
  <2>3. StoredAsTyped
    BY DEF IInv
  <2> QED BY <1>2, <2>1, <2>2, <2>3 DEF StoredAsTyped
<1>5. RefusedIsMalformed'
  BY DEF vars, IInv, RefusedIsMalformed, Form, Kind, Given, Crowded
<1>6. ConfirmedAgainIsKept'
  BY DEF vars, IInv, ConfirmedAgainIsKept, Form, Kind, Mangled, Crowded
<1> QED BY <1>1, <1>3, <1>4, <1>5, <1>6 DEF IInv

LEMMA StepOK == IInv /\ [Next]_vars => IInv'
<1> SUFFICES ASSUME IInv, [Next]_vars PROVE IInv'
  OBVIOUS
<1>1. CASE addGetParam BY <1>1, UrlStepOK
<1>2. CASE attachHandler BY <1>2, RouteStep
<1>3. CASE Byte BY <1>3, BodyStep
<1>4. CASE Timeout BY <1>4, TimeoutStep
<1>5. CASE ApplyIncomplete BY <1>5, IncompleteStep
<1>6. CASE ApplyAP BY <1>6, AccessPointStep
<1>7. CASE ApplyUnreadable BY <1>7, UnreadableStep
<1>8. CASE ApplyNetwork BY <1>8, NetworkStep
<1>9. CASE ApplyNtp BY <1>9, NtpStep
<1>10. CASE ApplyService BY <1>10, ServiceStep
<1>11. CASE ApplyCalibration BY <1>11, CalibrationStep
<1>12. CASE HandleOther BY <1>12, OtherStep
<1>13. CASE Again BY <1>13, AgainStep
<1>14. CASE UNCHANGED vars BY <1>14, Unchanged
<1>15. CASE ApplyOverrun BY <1>15, OverrunStep
<1>16. CASE Unanswered BY <1>16, UnansweredStep
<1> QED BY <1>1, <1>2, <1>3, <1>4, <1>5, <1>6, <1>7, <1>8, <1>9, <1>10, <1>11, <1>12, <1>13, <1>14, <1>15,
           <1>16 DEF Next

\* At every point of a request, what was read and what is still to be read are
\* together what the browser sent; the settings are such that a page can show
\* them and take them back; and what an answer says of the settings is so
\* (_addGetParams, the parsers of a body, the handlers of webserver.cpp).
THEOREM FormsInductive == Spec => []IInv
<1>1. Init => IInv
  BY InitOK
<1>2. IInv /\ [Next]_vars => IInv'
  BY StepOK
<1> QED BY <1>1, <1>2, PTL DEF Spec

\* What a page was told "ok" about is stored as it was typed, and no copy runs
\* over another field, but for what the property names: characters that are not
\* sent as they are or take two bytes, the spaces the access point's password
\* ends with, an id or a network's name that fills its field, and numbers of more
\* than the 32 or 16 bits of theirs (the handlers of /applyAP to /applyCalibration,
\* and the structs of config-mng.h they copy into).
THEOREM TypedIsStored == Spec => []StoredAsTyped
<1>1. IInv => StoredAsTyped
  BY DEF IInv
<1> QED BY <1>1, FormsInductive, PTL

\* A form is refused only for an address or a number that is none, a quote or a
\* backslash in its JSON, or texts that do not fit into the document together
\* (stringToIp, and the handlers' deserializeJson).
THEOREM RefusedMeansMalformed == Spec => []RefusedIsMalformed
<1>1. IInv => RefusedIsMalformed
  BY DEF IInv
<1> QED BY <1>1, FormsInductive, PTL

\* A page that shows what is stored and is confirmed as it is changes nothing,
\* with the exceptions the property names: an access point that still has its old
\* address, texts with characters that are not sent as they are, and texts with
\* characters that are not shown as they are, such as the line end JSON makes of
\* "\n" (setNetwork and the other scripts of main.html, ipToString and
\* stringToIp, and the handlers).
THEOREM AgainKeeps == Spec => []ConfirmedAgainIsKept
<1>1. IInv => ConfirmedAgainIsKept
  BY DEF IInv
<1> QED BY <1>1, FormsInductive, PTL

-----------------------------------------------------------------------------
(* What the reading of a body ends with.                                   *)

LEMMA TypeIs == IInv => TypeOK
<1> SUFFICES ASSUME IInv PROVE TypeOK
  OBVIOUS
<1>1. /\ phase \in {"unsent", "head", "body", "handle", "answered", "closed", "restart", "overrun"}
      /\ handler \in 0..Len(Routes) /\ Small(parser, Len(BodyOf(visit)))
  BY DEF IInv, ReadInv, ReadAt
<1>2. /\ parser.state \in MultiStates /\ parser.at < Len(Boundary)
      /\ parser.parsed <= Len(BodyOf(visit)) /\ Len(parser.buffer) < BufferSize
  BY <1>1 DEF Small, ParserType
<1>3. \A k \in Addresses : cfg[k] \in [1..4 -> 0..255]
  <2>1. Octets \subseteq 0..255
    BY DEF Octets
  <2>2. \A k \in Addresses : cfg[k] \in [1..4 -> Octets]
    BY DEF IInv, CfgOK
  <2> HIDE DEF Octets
  <2> QED BY <2>1, <2>2
<1>4. answer \in {"none", "ok", "error", "500"} \union {Routes[i].kind : i \in DOMAIN Routes}
  BY DEF IInv, AnswerInv
<1> QED BY <1>1, <1>2, <1>3, <1>4 DEF TypeOK

\* A multipart body that is all there has been read, if it ends with a line end.
LEMMA AllThere ==
  ASSUME NEW v, MultiVisit(v), NEW Q \in Seq(Param), NEW p, Reads(v, Q, p, <<>>), p.parsed # p.length
  PROVE  v.tail # CRLF
<1>1. Finished(v, Q, p) \/ Failed(v, Q, p)
  <2>1. TRUE \in BOOLEAN
    OBVIOUS
  <2> QED BY <2>1, ReadsStep
<1>2. p.parsed = Len(MultipartBody(v)) /\ p.parsed \in Nat
  BY DEF Reads, Here, ParserType
<1>3. CASE Failed(v, Q, p)
  BY <1>2, <1>3 DEF Failed
<1>4. CASE Finished(v, Q, p)
  <2> SUFFICES ASSUME v.tail = CRLF PROVE FALSE
    OBVIOUS
  <2>1. Len(v.tail) = 2
    BY DEF CRLF
  <2>2. p.length = Len(MultipartBody(v)) + 2 - Len(v.tail)
    BY <1>4 DEF Finished
  <2> DEFINE n == Len(MultipartBody(v))
             t == Len(v.tail)
  <2>3. p.parsed = n /\ n \in Nat /\ t = 2 /\ p.length = n + 2 - t
    BY <1>2, <2>1, <2>2
  <2> HIDE DEF n, t
  <2> QED BY <2>3
<1> QED BY <1>1, <1>3, <1>4

LEMMA HandledIs == IInv => BodyIsHandled
<1> SUFFICES ASSUME IInv, phase = "body", body = <<>>
             PROVE  visit.kind = "multipart" /\ visit.tail # CRLF
  BY DEF BodyIsHandled
<1>1. PICK Q : HeadOK(visit, Q, <<>>) /\ InBody(visit, handler, Q, parser, body)
  BY DEF IInv, ReadInv, ReadAt
<1>2. /\ visit.kind \in {"post", "multipart"} /\ parser.parsed # parser.length
      /\ InStage(visit, handler, Q, parser, <<>>) /\ VisitOK(visit)
  BY <1>1 DEF IInv, ReadInv, ReadAt, InBody, VisitOK
<1>3. Q \in Seq(Param)
  BY <1>1, Smaller DEF HeadOK
<1>4. handler # 0
  <2> SUFFICES ASSUME handler = 0 PROVE FALSE
    OBVIOUS
  <2>1. Counts(visit, Q, parser, <<>>)
    BY <1>2 DEF InStage
  <2>2. parser.parsed + Len(<<>>) = Len(BodyOf(visit)) /\ parser.length = Len(BodyOf(visit)) /\ parser.parsed \in Nat
    BY <2>1 DEF Counts, Small, ParserType
  <2> QED BY <1>2, <2>2
<1>5. visit.kind = "multipart"
  <2> SUFFICES ASSUME visit.kind = "post" PROVE FALSE
    BY <1>2
  <2>1. PostReads(visit, Q, parser, <<>>) /\ PostVisit(visit)
    BY <1>2, <1>4 DEF InStage, VisitOK
  <2>2. parser.parsed = parser.length
    BY <1>3, <2>1, PostEnds
  <2> QED BY <1>2, <2>2
<1>6. MultiVisit(visit) /\ Reads(visit, Q, parser, <<>>)
  BY <1>2, <1>4, <1>5 DEF InStage, VisitOK
<1> QED BY <1>2, <1>3, <1>5, <1>6, AllThere

\* The parameters of a body are those of its fields.
FieldParamsOf(v) == [i \in DOMAIN v.fields |->
  IF ~(v.kind = "multipart" /\ IsFile(v.fields[i])) THEN << Parameter(v.fields[i].name, v.fields[i].value, "post") >>
  ELSE IF v.fields[i].value = <<>> THEN <<>>
       ELSE << Parameter(v.fields[i].name, << FileNames[v.fields[i].name[1]] >>, "file") >>]

LEMMA BodyParamsAre ==
  ASSUME NEW v, VisitOK(v)
  PROVE  BodyParams(v) = FlattenSeq(FieldParamsOf(v)) /\ BodyParams(v) \in Seq(Param)
<1>1. CASE v.kind = "none"
  <2>1. v.fields = <<>>
    BY <1>1 DEF VisitOK
  <2>2. DOMAIN FieldParamsOf(v) = {} /\ FieldParamsOf(v) = [i \in 1..0 |-> FieldParamsOf(v)[i]]
    BY <2>1 DEF FieldParamsOf
  <2> DEFINE x == FieldParamsOf(v)
  <2> HIDE DEF x
  <2>3. x = [i \in 1..0 |-> x[i]]
    BY <2>2 DEF x
  <2>4. x \in Seq(Char) /\ Len(x) = 0
    <3>1. \A i \in 1..0 : x[i] \in Char
      OBVIOUS
    <3> QED BY <2>3, <3>1, SeqIs
  <2>5. x = <<>>
    BY <2>4, EmptySeq
  <2>6. BodyParams(v) = <<>>
    BY <1>1 DEF BodyParams
  <2> QED BY <2>5, <2>6, FlattenEmpty, EmptySeq DEF x
<1>2. CASE v.kind = "post"
  <2>1. FieldParamsOf(v) = PostParams(v)
    BY <1>2 DEF FieldParamsOf, PostParams
  <2>2. PostParams(v) \in Seq(Seq(Param))
    BY <1>2, PostParamsAre DEF VisitOK
  <2>3. FlattenSeq(PostParams(v)) \in Seq(Param)
    BY <2>2, FlattenType
  <2>4. BodyParams(v) = FlattenSeq(PostParams(v))
    BY <1>2 DEF BodyParams
  <2> QED BY <2>1, <2>3, <2>4
<1>3. CASE v.kind = "multipart"
  <2>1. FieldParamsOf(v) = ParamsOf(v)
    BY <1>3 DEF FieldParamsOf, ParamsOf, ItemParams
  <2>2. ParamsOf(v) \in Seq(Seq(Param))
    BY <1>3, ParamsAre DEF VisitOK
  <2>3. FlattenSeq(ParamsOf(v)) \in Seq(Param)
    BY <2>2, FlattenType
  <2>4. BodyParams(v) = FlattenSeq(ParamsOf(v))
    BY <1>3 DEF BodyParams
  <2> QED BY <2>1, <2>3, <2>4
<1> QED BY <1>1, <1>2, <1>3 DEF VisitOK

LEMMA AllIsRead ==
  ASSUME IInv, phase \in {"handle", "answered"}, handler # 0, visit.memory
  PROVE  VisitOK(visit) /\ \E Q \in Seq(QueryParam) : AllRead(visit, Q, parser)
BY DEF IInv, ReadInv, ReadAt, HeadOK

LEMMA BodyReadIs == IInv => BodyIsRead
<1> SUFFICES ASSUME IInv, phase \in {"handle", "answered"}, handler # 0, visit.memory
             PROVE  \E n \in 0..Len(parser.params) :
                      /\ \A i \in 1..n : parser.params[i].kind = "query"
                      /\ SubSeq(parser.params, n + 1, Len(parser.params))
                           = FlattenSeq([i \in DOMAIN visit.fields |-> FieldParams(visit.fields[i])])
  BY DEF BodyIsRead
<1>1. PICK Q \in Seq(QueryParam) : AllRead(visit, Q, parser)
  BY AllIsRead
<1>2. VisitOK(visit)
  BY AllIsRead
<1> DEFINE r == BodyParams(visit)
           P == parser.params
           n == Len(Q)
<1>3. P = Q \o r /\ r \in Seq(Param) /\ r = FlattenSeq(FieldParamsOf(visit)) /\ Q \in Seq(Param)
  BY <1>1, <1>2, BodyParamsAre, Smaller DEF AllRead
<1>4. FieldParamsOf(visit) = [i \in DOMAIN visit.fields |-> FieldParams(visit.fields[i])]
  BY DEF FieldParamsOf, FieldParams
<1> HIDE DEF r, P
<1>5. From(n, Q \o r) = r
  BY <1>3, FirstOfConcat
<1>6. /\ Q \o r \in Seq(Param) /\ Len(Q \o r) = Len(Q) + Len(r)
      /\ \A i \in 1..Len(Q) : (Q \o r)[i] = Q[i]
  BY <1>3, ConcatIs
<1>7. n \in 0..Len(P)
  BY <1>3, <1>6
<1>8. \A i \in 1..n : P[i].kind = "query"
  <2>1. \A i \in 1..n : Q[i] \in QueryParam
    OBVIOUS
  <2>2. \A i \in 1..n : Q[i].kind = "query"
    BY <2>1 DEF QueryParam
  <2> QED BY <1>3, <1>6, <2>2
<1>9. SubSeq(P, n + 1, Len(P)) = r
  BY <1>3, <1>5 DEF From
<1> HIDE DEF n
<1>10. SubSeq(P, n + 1, Len(P)) = FlattenSeq([i \in DOMAIN visit.fields |-> FieldParams(visit.fields[i])])
  BY <1>3, <1>4, <1>9
<1> QED BY <1>7, <1>8, <1>10 DEF P

LEMMA FilesAreGiven == IInv => FilesAreGivenOn
<1> SUFFICES ASSUME IInv, phase \in {"handle", "answered"}, handler # 0, visit.memory, visit.kind = "multipart",
                    NEW f \in ToSet(visit.fields), IsFile(f)
             PROVE  /\ f.value # <<>> => \E i \in Pieces(f) : parser.uploads[i].final
                    /\ \A i \in Pieces(f) :
                         LET u == parser.uploads[i] IN
                         /\ u.index = IF i - 1 \in Pieces(f) THEN EndOf(i - 1) ELSE 0
                         /\ u.data = SubSeq(f.value, u.index + 1, EndOf(i))
                         /\ u.final => EndOf(i) = Len(f.value) /\ \A j \in Pieces(f) : j <= i
                         /\ ~u.final => i + 1 \in Pieces(f)
  BY DEF FilesAreGivenOn
<1>1. PICK Q \in Seq(QueryParam) : AllRead(visit, Q, parser)
  BY AllIsRead
<1>2. FilesIn(visit, Len(visit.fields), Len(visit.fields), parser.uploads)
  BY <1>1 DEF AllRead
<1>3. PICK y \in 1..Len(visit.fields) : f = visit.fields[y]
  <2>1. visit.fields \in Seq(ItemType)
    BY AllIsRead DEF VisitOK, MultiVisit
  <2> QED BY <2>1 DEF ToSet
<1>4. Whole(parser.uploads, f)
  BY <1>2, <1>3 DEF FilesIn
<1>5. Pieces(f) = Of(parser.uploads, f)
  BY DEF Pieces, Of
<1>6. \A i : EndOf(i) = End(parser.uploads, i)
  BY DEF EndOf, End
<1> QED BY <1>4, <1>5, <1>6 DEF Whole, Chain

\* The reading of a request keeps its types and the bounds of its buffer and of
\* the boundary, and no body that is all there is left unhandled, but a
\* multipart one that does not end with a line end (_onData,
\* _parseMultipartPostByte, _handleUploadByte).
THEOREM BodyReading == Spec => []BodyInv
<1>1. IInv => BodyInv
  BY TypeIs, HandledIs DEF BodyInv
<1> QED BY <1>1, FormsInductive, PTL

\* The parameters of a request are those of its url and then the fields of its
\* body as they were sent: urlDecode undoes the encoding, and what looked like
\* a boundary is data again (_parsePlainPostChar, _parseMultipartPostByte).
THEOREM FieldsAreRead == Spec => []BodyIsRead
BY BodyReadIs, FormsInductive, PTL

\* The handler of an upload is given every byte of a file once, in order and with
\* its place, and told the last piece, wherever a boundary seemed to begin and
\* wherever the buffer was full (_handleUploadByte, _parseMultipartPostByte).
THEOREM FilesReachTheHandler == Spec => []FilesAreGivenOn
BY FilesAreGiven, FormsInductive, PTL

=============================================================================
