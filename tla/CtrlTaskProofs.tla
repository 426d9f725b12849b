--------------------------- MODULE CtrlTaskProofs ---------------------------
(***************************************************************************)
(* Proofs about CtrlTask, for every number of forms, tries and losses, and *)
(* whatever answers.                                                       *)
(***************************************************************************)
EXTENDS CtrlTask, TLAPS

-----------------------------------------------------------------------------
(* Types.                                                                  *)

LEMMA ContentType ==
  /\ Nothing \in Content
  /\ \A n \in Nat : Whole(n) \in Content /\ Part(n) \in Content
BY DEF Nothing, Whole, Part, Content

LEMMA InitType == Init => TypeOK
<1> SUFFICES ASSUME Init PROVE TypeOK
  OBVIOUS
<1>1. cfg \in [Read -> Content] /\ signalled \in [Read -> Nat]
  BY ContentType DEF Init
<1>2. eq \in Content
  BY ContentType DEF Init, Read
<1>3. eventGroup \subseteq Flags /\ events \subseteq Events /\ bitfied \subseteq Events
  BY DEF Init, Events
<1>4. tries \in 0..MaxTries /\ forms \in Nat /\ drops \in Nat
  BY MaxTriesAssumption DEF Init
<1>5. http \in Read \cup {"idle"} /\ pc \in Points /\ led \in {"OFF", "BLINK", "ON"}
  BY DEF Init, Points
<1>6. scfg \in Content /\ target \in Content /\ link \in Content /\ session \in Content
  BY ContentType DEF Init
<1>7. /\ isServerActive \in BOOLEAN /\ updateserv \in BOOLEAN /\ trying \in BOOLEAN
      /\ open \in BOOLEAN /\ brokers \in Brokers /\ swallowed \in BOOLEAN
  BY DEF Init
<1> QED
  BY <1>1, <1>2, <1>3, <1>4, <1>5, <1>6, <1>7 DEF TypeOK

\* Every step keeps the types.
LEMMA NextType == TypeOK /\ [Next]_vars => TypeOK'
<1> SUFFICES ASSUME TypeOK, [Next]_vars PROVE TypeOK'
  OBVIOUS
<1>s. \A s \in Read : cfg[s] \in Content
  BY DEF TypeOK
<1> USE <1>s, MaxTriesAssumption
    DEF TypeOK, shared, task, wifiVars, mqttVars, history
<1>1. CASE ctrl_task
  <2> USE DEF Points
  <2>1. CASE TakeSnapshot
    BY <2>1 DEF TakeSnapshot
  <2>2. CASE CheckNetwork
    BY <2>2 DEF CheckNetwork, Consume
  <2>3. CASE NoWifiConfig
    BY <2>3 DEF NoWifiConfig, Events
  <2>4. CASE BeginWifi
    <3>1. target' \in Content
      BY <2>4 DEF BeginWifi, Read
    <3>2. trying' \in BOOLEAN
      BY <2>4 DEF BeginWifi
    <3>2a. swallowed' = FALSE /\ tries' = 0 /\ pc' = "test"
      BY <2>4 DEF BeginWifi
    <3>2b. 0 \in 0..MaxTries
      BY ONLY MaxTriesAssumption
    <3>3. swallowed' \in BOOLEAN /\ tries' \in 0..MaxTries /\ pc' \in Points
      BY ONLY <3>2a, <3>2b DEF Points
    <3>4. UNCHANGED <<shared, events, bitfied, updateserv, scfg, eq, link, mqttVars, led,
                      forms, drops, signalled>>
      BY <2>4 DEF BeginWifi
    <3> QED
      BY <3>1, <3>2, <3>3, <3>4
  <2>5. CASE TestAgain("test") \/ TestAgain("retest")
    BY <2>5 DEF TestAgain
  <2>6. CASE WifiConnected
    BY <2>6 DEF WifiConnected, Events
  <2>7. CASE WifiFailed
    <3>1. eventGroup' \subseteq Flags /\ swallowed' \in BOOLEAN
      BY <2>7 DEF WifiFailed, TestUpdated, TestTimesOut, Consume
    <3> QED
      BY <2>7, <3>1 DEF WifiFailed
  <2>8. CASE CheckCalibration
    BY <2>8 DEF CheckCalibration, Consume, Read
  <2>9. CASE CheckService
    BY <2>9 DEF CheckService, Consume, Updated
  <2>10. ASSUME NEW configured \in BOOLEAN, CopyService(configured) PROVE TypeOK'
    <3>1. scfg' \in Content
      BY <2>10 DEF CopyService, Read
    <3>2. pc' \in Points /\ events' \subseteq Events
      BY <2>10 DEF CopyService, Events
    <3>3. UNCHANGED <<shared, bitfied, tries, updateserv, eq, wifiVars, mqttVars, led,
                      history>>
      BY <2>10 DEF CopyService
    <3> QED
      BY <3>1, <3>2, <3>3
  <2>11. CASE BrokerConnected
    <3>1. isServerActive' \in BOOLEAN /\ eventGroup' \subseteq Flags
      BY <2>11 DEF BrokerConnected, ExitConfigMode, Flags
    <3> QED
      BY <2>11, <3>1 DEF BrokerConnected
  <2>12. CASE BrokerFailed
    BY <2>12 DEF BrokerFailed
  <2>13. CASE CheckWifi
    BY <2>13 DEF CheckWifi
  <2>14. CASE WifiBack
    BY <2>14 DEF WifiBack
  <2>15. CASE WifiLost
    <3>1. eventGroup' \subseteq Flags
      BY <2>15 DEF WifiLost, TestUpdated, TestTimesOut, Consume
    <3> QED
      BY <2>15, <3>1 DEF WifiLost, Events
  <2>16. CASE ClientLoop
    BY <2>16 DEF ClientLoop, Events
  <2> QED
    BY <1>1, <2>1, <2>2, <2>3, <2>4, <2>5, <2>6, <2>7, <2>8, <2>9, <2>10, <2>11, <2>12,
       <2>13, <2>14, <2>15, <2>16 DEF ctrl_task
<1>2. CASE ConfigMode
  <2>1. eventGroup' \subseteq Flags
    BY <1>2 DEF ConfigMode, EnterConfigMode, LeaveConfigMode, StopServed, ConnectionsEnd,
                ExitConfigMode, Flags
  <2>2. isServerActive' \in BOOLEAN /\ open' \in BOOLEAN
    BY <1>2 DEF ConfigMode, EnterConfigMode, LeaveConfigMode, StopServed, ConnectionsEnd,
                ExitConfigMode
  <2>3. UNCHANGED <<cfg, http, task, wifiVars, mqttVars, led, history>>
    BY <1>2 DEF ConfigMode, EnterConfigMode, LeaveConfigMode, StopServed, ConnectionsEnd
  <2> QED
    BY <2>1, <2>2, <2>3
<1>3. ASSUME NEW s \in Edited, FormBegin(s) PROVE TypeOK'
  <2>1. s \in Read
    BY EditedAssumption DEF Read
  <2>2. Part(forms') \in Content /\ forms' \in Nat
    BY <1>3, ContentType DEF FormBegin
  <2> QED
    BY <1>3, <2>1, <2>2 DEF FormBegin
<1>4. CASE Handler
  <2>1. CASE FormSignal
    <3>1. http \in Read /\ Whole(forms) \in Content
      BY <2>1, ContentType DEF FormSignal
    <3>2. UpdateFlag[http] \in Flags
      BY <3>1 DEF Flags
    <3> QED
      BY <2>1, <3>1, <3>2 DEF FormSignal
  <2>2. CASE FormRefused
    BY <2>2 DEF FormRefused
  <2> QED
    BY <1>4, <2>1, <2>2 DEF Handler
<1>5. CASE Associate
  BY <1>5, ContentType DEF Associate
<1>6. CASE Losses
  BY <1>6, ContentType, AutoReconnectAssumption DEF Losses, LoseLink, LoseSession
<1>7. CASE UNCHANGED vars
  BY <1>7 DEF vars
<1> QED
  BY <1>1, <1>2, <1>3, <1>4, <1>5, <1>6, <1>7 DEF Next

\* Every reachable state of the loop, the driver, the session and the forms has
\* its type.
THEOREM TypeCorrect == Spec => []TypeOK
<1>1. Init => TypeOK
  BY InitType
<1>2. TypeOK /\ [Next]_vars => TypeOK'
  BY NextType
<1> QED
  BY <1>1, <1>2, PTL DEF Spec

-----------------------------------------------------------------------------
(* Confirmed forms are taken up.                                           *)

\* No form is confirmed that was not submitted.
SignalledBound == \A s \in Read : signalled[s] <= forms

\* cfg itself never falls behind what was confirmed.
CfgUpToDate == \A s \in Read : UpToDate(cfg[s], s)

\* While testWifi waits, only an update that is still flagged can have made
\* the network it waits for obsolete: success may clear CONNECT_WIFI.
TestUpToDate == pc = "test" => UpToDate(target, "wifi") \/ Updated("wifi")

IInv ==
  /\ TypeOK
  /\ SignalledBound
  /\ CfgUpToDate
  /\ TestUpToDate
  /\ FormsAreTakenUp

LEMMA InitIInv == Init => IInv
<1> SUFFICES ASSUME Init PROVE IInv
  OBVIOUS
<1>1. TypeOK
  BY InitType
<1>2. \A s \in Read : signalled[s] = 0 /\ cfg[s] = Whole(0)
  BY DEF Init
<1>3. forms = 0 /\ pc = "top" /\ "CONNECT_WIFI" \in events /\ eq = Whole(0)
  BY <1>2 DEF Init, Read
<1>4. "wifi" \in Read /\ "service" \in Read /\ "cal" \in Read
  BY DEF Read
<1> QED
  BY <1>1, <1>2, <1>3, <1>4
  DEF IInv, SignalledBound, CfgUpToDate, TestUpToDate, FormsAreTakenUp, UpToDate

\* The three flags are distinct, and differ from STOP_SERVER.
LEMMA FlagsDiffer ==
  /\ UpdateFlag["wifi"] = "UPDATE_NETWORK"
  /\ UpdateFlag["service"] = "UPDATE_SERVICE"
  /\ UpdateFlag["cal"] = "UPDATE_CALIBRATION"
  /\ "wifi" \in Read /\ "service" \in Read /\ "cal" \in Read
BY DEF UpdateFlag, Read

\* Every step keeps the inductive invariant.
LEMMA NextIInv == IInv /\ [Next]_vars => IInv'
<1> SUFFICES ASSUME IInv, [Next]_vars PROVE IInv'
  OBVIOUS
<1>0. TypeOK /\ TypeOK'
  BY NextType DEF IInv
<1> DEFINE Parts == SignalledBound /\ CfgUpToDate /\ TestUpToDate /\ FormsAreTakenUp
<1>p. Parts
  BY DEF IInv
<1>t. /\ forms \in Nat
      /\ signalled \in [Read -> Nat] /\ cfg \in [Read -> Content]
      /\ \A s \in Read : signalled[s] \in Nat /\ cfg[s].form \in Nat
      /\ target.form \in Nat /\ scfg.form \in Nat /\ eq.form \in Nat
  BY <1>0 DEF TypeOK, Content
<1> SUFFICES Parts'
  BY <1>0 DEF IInv
<1> USE <1>p, <1>t, FlagsDiffer
    DEF SignalledBound, CfgUpToDate, TestUpToDate, FormsAreTakenUp, UpToDate,
        Updated, Consume, shared, task, wifiVars, mqttVars, history
<1>1. CASE ctrl_task
  <2>1. CASE TakeSnapshot
    BY <2>1 DEF TakeSnapshot
  <2>2. CASE CheckNetwork
    BY <2>2 DEF CheckNetwork
  <2>3. CASE NoWifiConfig
    BY <2>3 DEF NoWifiConfig
  <2>4. CASE BeginWifi
    BY <2>4 DEF BeginWifi
  <2>5. CASE TestAgain("test") \/ TestAgain("retest")
    BY <2>5 DEF TestAgain
  <2>6. CASE WifiConnected
    BY <2>6 DEF WifiConnected, TestConnected
  <2>7. CASE WifiFailed
    BY <2>7 DEF WifiFailed, TestUpdated, TestTimesOut
  <2>8. CASE CheckCalibration
    BY <2>8 DEF CheckCalibration
  <2>9. CASE CheckService
    BY <2>9 DEF CheckService
  <2>10. ASSUME NEW configured \in BOOLEAN, CopyService(configured) PROVE Parts'
    BY <2>10 DEF CopyService
  <2>11. CASE BrokerConnected
    BY <2>11 DEF BrokerConnected, ExitConfigMode
  <2>12. CASE BrokerFailed
    BY <2>12 DEF BrokerFailed
  <2>13. CASE CheckWifi
    BY <2>13 DEF CheckWifi
  <2>14. CASE WifiBack
    <3>1. /\ UNCHANGED <<shared, events, scfg, eq, wifiVars, history>>
          /\ pc = "retest" /\ pc' = "loop"
      BY <2>14 DEF WifiBack, TestConnected
    <3> QED
      BY <3>1
  <2>15. CASE WifiLost
    BY <2>15 DEF WifiLost, TestUpdated, TestTimesOut
  <2>16. CASE ClientLoop
    BY <2>16 DEF ClientLoop
  <2> QED
    BY <1>1, <2>1, <2>2, <2>3, <2>4, <2>5, <2>6, <2>7, <2>8, <2>9, <2>10, <2>11, <2>12,
       <2>13, <2>14, <2>15, <2>16 DEF ctrl_task
<1>2. CASE ConfigMode
  BY <1>2 DEF ConfigMode, EnterConfigMode, LeaveConfigMode, StopServed, ConnectionsEnd,
              ExitConfigMode
<1>3. ASSUME NEW s \in Edited, FormBegin(s) PROVE Parts'
  <2>1. \A q \in Read : cfg'[q] = IF q = s THEN Part(forms') ELSE cfg[q]
    BY <1>3 DEF FormBegin
  <2>2. forms' = forms + 1 /\ Part(forms').form = forms + 1
    BY <1>3 DEF FormBegin, Part
  <2>3. UNCHANGED <<eventGroup, task, wifiVars, signalled, swallowed>>
    BY <1>3 DEF FormBegin
  <2> QED
    BY <2>1, <2>2, <2>3
<1>4. CASE Handler
  <2>1. CASE FormSignal
    <3>1. http \in Read
      BY <2>1, <1>0 DEF FormSignal, TypeOK
    <3>2. \A q \in Read : /\ signalled'[q] = IF q = http THEN forms ELSE signalled[q]
                          /\ cfg'[q] = IF q = http THEN Whole(forms) ELSE cfg[q]
      BY <2>1, <3>1 DEF FormSignal
    <3>3. eventGroup' = eventGroup \cup {UpdateFlag[http]}
      BY <2>1 DEF FormSignal
    <3>4. UNCHANGED <<task, wifiVars, forms, swallowed>>
      BY <2>1 DEF FormSignal
    <3>5. SignalledBound' /\ CfgUpToDate'
      BY <3>2, <3>4
    <3>6. \A q \in Read : \A c : UpToDate(c, q) => UpToDate(c, q)' \/ Updated(q)'
      BY <3>2, <3>3
    <3>7. \A q \in Read : Updated(q) => Updated(q)'
      BY <3>3
    <3>8. TestUpToDate'
      BY <3>4, <3>6, <3>7
    <3>9. UpToDate(eq, "cal")' \/ Updated("cal")'
      BY <3>4, <3>6, <3>7
    <3>10. \/ UpToDate(scfg, "service")' \/ Updated("service")' \/ pc' = "copy"
           \/ signalled'["service"] = 0
      <4>1. CASE http = "service"
        BY <3>3, <4>1
      <4>2. CASE http # "service"
        <5>1. signalled'["service"] = signalled["service"]
          BY <3>2, <4>2
        <5> QED
          BY <3>4, <3>6, <3>7, <5>1
      <4> QED
        BY <4>1, <4>2
    <3>11. \/ UpToDate(target, "wifi")' \/ Updated("wifi")'
           \/ "CONNECT_WIFI" \in events' \/ pc' = "wifi" \/ swallowed'
      BY <3>4, <3>6, <3>7
    <3> QED
      BY <3>5, <3>8, <3>9, <3>10, <3>11
  <2>2. CASE FormRefused
    BY <2>2 DEF FormRefused
  <2> QED
    BY <1>4, <2>1, <2>2 DEF Handler
<1>5. CASE Associate
  BY <1>5 DEF Associate
<1>6. CASE Losses
  BY <1>6 DEF Losses, LoseLink, LoseSession
<1>7. CASE UNCHANGED vars
  BY <1>7 DEF vars
<1> QED
  BY <1>1, <1>2, <1>3, <1>4, <1>5, <1>6, <1>7 DEF Next

\* A confirmed form is in use, or the loop still knows of it, in every
\* reachable state; only testWifi can lose a network form.
THEOREM FormsStayTakenUp == Spec => []FormsAreTakenUp
<1>1. IInv => FormsAreTakenUp
  BY DEF IInv
<1> QED
  BY <1>1, InitIInv, NextIInv, PTL DEF Spec

=============================================================================
