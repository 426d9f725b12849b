------------------------------ MODULE CtrlTask ------------------------------
(***************************************************************************)
(* ctrl_task of firmware/src/mqtt_task.cpp: the loop that brings up WiFi,  *)
(* logs in to the MQTT broker and keeps both alive, while the web pages    *)
(* change the settings it works with.                                      *)
(*                                                                         *)
(* An iteration takes a snapshot of the task's own event group and then    *)
(* passes the same points in the same order; every action below is the     *)
(* code between two of these points, `continue' being a step back to       *)
(* "top".  Between two steps the handlers of async_tcp write cfg and raise *)
(* UPDATE_ flags, the WiFi driver associates or loses the access point,    *)
(* and the broker's session may end.  What a login does to the timers and  *)
(* what messages do is in Telemetry, with the queue they go through.       *)
(***************************************************************************)
EXTENDS Settings

CONSTANTS
  Forms,          \* bound: how many forms are submitted in a behaviour
  Edited,         \* the sections whose forms are submitted
  Networks,       \* the forms whose access point answers
  Brokers,        \* which brokers answer: the sets of forms that may name them
  MaxTries,       \* bound on testWifi's polls (30 in the code)
  Drops,          \* bound: how often a link or a session is lost
  AutoReconnect   \* whether the WiFi driver retries by itself after a loss

ASSUME FormsAssumption == Forms \in Nat
ASSUME EditedAssumption == Edited \subseteq {"wifi", "service", "cal"}
ASSUME NetworksAssumption == Networks \subseteq 1..Forms
ASSUME BrokersAssumption == Brokers \subseteq SUBSET (1..Forms)
ASSUME MaxTriesAssumption == MaxTries \in Nat \ {0}
ASSUME DropsAssumption == Drops \in Nat
ASSUME AutoReconnectAssumption == AutoReconnect \in BOOLEAN

VARIABLES
  \* shared with the other tasks
  cfg,             \* struct config cfg, the sections this task reads
  eventGroup,      \* the flags of webserver.cpp's group this task sets or reads
  isServerActive,  \* configuration mode is on
  open,            \* a connection is open or may be opened, and bring a form
  http,            \* the section whose handler is running, or "idle"
  \* ctrl_task's own
  pc,              \* the point of the loop it is at
  events,          \* its own event group
  bitfied,         \* the snapshot of events this iteration works with
  tries, updateserv,
  scfg,            \* its copy of cfg.service
  eq,              \* the calibration its equation was computed from
  \* the WiFi driver, the MQTT client and its brokers, the mode LED
  target,          \* the settings last given to WiFi.begin
  trying,          \* the driver is trying to associate with the target
  link,            \* the settings of the network it is associated with
  session,         \* the settings the MQTT session was opened with
  brokers,         \* the forms whose broker answers
  led,             \* the mode last given to interface_setMode
  \* history and bounds
  forms, drops,
  signalled,       \* the last form of each section answered "ok"
  swallowed        \* testWifi took a network update nothing will act on

shared == <<cfg, eventGroup, isServerActive, open, http>>
task == <<pc, events, bitfied, tries, updateserv, scfg, eq>>
wifiVars == <<target, trying, link>>
mqttVars == <<session, brokers>>
history == <<forms, drops, signalled, swallowed>>
vars == <<shared, task, wifiVars, mqttVars, led, history>>

Read == {"wifi", "service", "cal"}
Events == {"START_AP_WIFI", "CONNECT_WIFI", "CONNECT_MQTT"}
UpdateFlag == [s \in Read |-> CASE s = "wifi"    -> "UPDATE_NETWORK"
                                [] s = "service" -> "UPDATE_SERVICE"
                                [] s = "cal"     -> "UPDATE_CALIBRATION"]
Flags == {UpdateFlag[s] : s \in Read} \cup {"STOP_SERVER"}

Points == {"top", "net", "wifi", "test", "cal", "serv", "copy", "connect",
           "monitor", "retest", "loop"}

\* No network, no session: settings nobody can have connected with.
Nothing == Part(0)

TypeOK ==
  /\ cfg \in [Read -> Content]
  /\ eventGroup \subseteq Flags
  /\ isServerActive \in BOOLEAN /\ open \in BOOLEAN
  /\ http \in Read \cup {"idle"}
  /\ pc \in Points
  /\ events \subseteq Events /\ bitfied \subseteq Events
  /\ tries \in 0..MaxTries
  /\ updateserv \in BOOLEAN
  /\ scfg \in Content /\ eq \in Content
  /\ target \in Content /\ link \in Content /\ session \in Content
  /\ trying \in BOOLEAN
  /\ brokers \in Brokers
  /\ led \in {"OFF", "BLINK", "ON"}
  /\ forms \in Nat /\ drops \in Nat
  /\ signalled \in [Read -> Nat]
  /\ swallowed \in BOOLEAN

\* The device as shipped: no network and no broker are configured.
Init ==
  /\ cfg = [s \in Read |-> Whole(0)]
  /\ eventGroup = {} /\ isServerActive = FALSE /\ open = FALSE /\ http = "idle"
  /\ pc = "top"
  /\ events = {"START_AP_WIFI", "CONNECT_WIFI"} /\ bitfied = {}
  /\ tries = 0 /\ updateserv = FALSE
  /\ scfg = Nothing /\ eq = cfg["cal"]
  /\ target = Nothing /\ trying = FALSE /\ link = Nothing
  /\ session = Nothing /\ brokers \in Brokers
  /\ led = "OFF"
  /\ forms = 0 /\ drops = 0
  /\ signalled = [s \in Read |-> 0]
  /\ swallowed = FALSE

\* webserver_is...Updated: the flag is read and cleared.
Updated(s) == UpdateFlag[s] \in eventGroup
Consume(s) == eventGroup' = eventGroup \ {UpdateFlag[s]}

\* Whether the code takes section s for configured: its name is not empty.
\* While a section is in part, that depends on the bytes written so far; but
\* the network handler overwrites a name in place, the service handler clears
\* the whole section first.
Configured(s) ==
  IF cfg[s].whole THEN {cfg[s].form > 0}
  ELSE IF s = "wifi" /\ signalled[s] > 0 THEN {TRUE} ELSE BOOLEAN

\* An access point, or a broker, accepts the settings c.
Answers(c, reachable) == c.whole /\ c.form \in reachable

-----------------------------------------------------------------------------
(* The loop.                                                               *)

\* The snapshot, and the access point's set up on the first iteration.
TakeSnapshot ==
  /\ pc = "top"
  /\ bitfied' = events
  /\ events' = events \ {"START_AP_WIFI"}
  /\ led' = IF "START_AP_WIFI" \in events THEN "OFF" ELSE led
  /\ pc' = "net"
  /\ UNCHANGED <<shared, tries, updateserv, scfg, eq, wifiVars, mqttVars, history>>

\* Mutant of CheckNetwork: the update is read and forgotten.
CheckNetworkIgnored ==
  /\ pc = "net"
  /\ Consume("wifi")
  /\ IF "CONNECT_WIFI" \in bitfied
       THEN events' = events \ {"CONNECT_MQTT"} /\ led' = "OFF" /\ pc' = "wifi"
       ELSE pc' = "cal" /\ UNCHANGED <<events, led>>
  /\ UNCHANGED <<cfg, isServerActive, open, http, bitfied, tries, updateserv, scfg, eq,
                 wifiVars, mqttVars, history>>

\* Whether to connect to WiFi.
CheckNetwork ==
  /\ pc = "net"
  /\ Consume("wifi")
  /\ IF "CONNECT_WIFI" \in bitfied \/ Updated("wifi")
       THEN /\ events' = events \ {"CONNECT_MQTT"}
            /\ led' = "OFF"
            /\ pc' = "wifi"
       ELSE /\ pc' = "cal"
            /\ UNCHANGED <<events, led>>
  /\ UNCHANGED <<cfg, isServerActive, open, http, bitfied, tries, updateserv, scfg, eq,
                 wifiVars, mqttVars, history>>

NoWifiConfig ==
  /\ pc = "wifi" /\ FALSE \in Configured("wifi")
  /\ events' = events \cup {"CONNECT_WIFI"}
  /\ pc' = "top"
  /\ UNCHANGED <<shared, bitfied, tries, updateserv, scfg, eq, wifiVars, mqttVars,
                 led, history>>

\* WiFi.begin: the driver drops another network later, if it is on one.
BeginWifi ==
  /\ pc = "wifi" /\ TRUE \in Configured("wifi")
  /\ target' = cfg["wifi"]
  /\ trying' = (link # target')
  /\ swallowed' = FALSE
  /\ tries' = 0
  /\ pc' = "test"
  /\ UNCHANGED <<shared, events, bitfied, updateserv, scfg, eq, link, mqttVars, led,
                 forms, drops, signalled>>

\* One poll of testWifi, called from the point `at': connected, a network
\* update that makes it give up, or one try more.
TestConnected(at) ==
  /\ pc = at /\ link # Nothing

TestUpdated(at) ==
  /\ pc = at /\ link = Nothing
  /\ Updated("wifi")
  /\ Consume("wifi")

TestTimesOut(at) ==
  /\ pc = at /\ link = Nothing
  /\ ~Updated("wifi")
  /\ tries + 1 = MaxTries
  /\ UNCHANGED eventGroup

\* Mutant of TestAgain: the polls are not counted out.
TestAgainForever(at) ==
  /\ pc = at /\ link = Nothing
  /\ ~Updated("wifi")
  /\ tries' = tries + 1
  /\ led' = "OFF"
  /\ UNCHANGED <<shared, pc, events, bitfied, updateserv, scfg, eq, wifiVars, mqttVars,
                 history>>

TestAgain(at) ==
  /\ pc = at /\ link = Nothing
  /\ ~Updated("wifi")
  /\ tries + 1 < MaxTries
  /\ tries' = tries + 1
  /\ led' = "OFF"
  /\ UNCHANGED <<shared, pc, events, bitfied, updateserv, scfg, eq, wifiVars, mqttVars,
                 history>>

WifiConnected ==
  /\ TestConnected("test")
  /\ led' = "BLINK"
  /\ events' = (events \cup {"CONNECT_MQTT"}) \ {"CONNECT_WIFI"}
  /\ pc' = "cal"
  /\ UNCHANGED <<shared, bitfied, tries, updateserv, scfg, eq, wifiVars, mqttVars, history>>

\* testWifi returned false after WiFi.begin: the iteration ends, and nothing
\* is left of the update that testWifi took unless CONNECT_WIFI is still set.
WifiFailed ==
  /\ \/ TestUpdated("test") /\ swallowed' = (swallowed \/ "CONNECT_WIFI" \notin events)
     \/ TestTimesOut("test") /\ UNCHANGED swallowed
  /\ led' = "OFF"
  /\ pc' = "top"
  /\ UNCHANGED <<cfg, isServerActive, open, http, events, bitfied, tries, updateserv, scfg, eq,
                 wifiVars, mqttVars, forms, drops, signalled>>

CheckCalibration ==
  /\ pc = "cal"
  /\ Consume("cal")
  /\ eq' = IF Updated("cal") THEN cfg["cal"] ELSE eq
  /\ pc' = "serv"
  /\ UNCHANGED <<cfg, isServerActive, open, http, events, bitfied, tries, updateserv, scfg,
                 wifiVars, mqttVars, led, history>>

\* Whether to log in to the broker.
CheckService ==
  /\ pc = "serv"
  /\ updateserv' = Updated("service")
  /\ Consume("service")
  /\ pc' = IF "CONNECT_MQTT" \in bitfied \/ updateserv' THEN "copy" ELSE "monitor"
  /\ UNCHANGED <<cfg, isServerActive, open, http, events, bitfied, tries, scfg, eq, wifiVars,
                 mqttVars, led, history>>

CopyService(configured) ==
  /\ pc = "copy" /\ configured \in Configured("service")
  /\ scfg' = cfg["service"]
  /\ IF configured
       THEN pc' = "connect" /\ UNCHANGED events
       ELSE pc' = "top" /\ events' = events \cup {"CONNECT_MQTT"}
  /\ UNCHANGED <<shared, bitfied, tries, updateserv, eq, wifiVars, mqttVars, led, history>>

\* PubSubClient.connect: true at once when a session is open, whatever
\* settings it was opened with.
ConnectedAlready == session # Nothing
BrokerAnswers == link # Nothing /\ Answers(scfg, brokers)

\* ctrl_exitConfigMode.
ExitConfigMode ==
  IF isServerActive
    THEN isServerActive' = FALSE /\ eventGroup' = eventGroup \cup {"STOP_SERVER"}
    ELSE UNCHANGED <<isServerActive, eventGroup>>

BrokerConnected ==
  /\ pc = "connect" /\ (ConnectedAlready \/ BrokerAnswers)
  /\ session' = IF ConnectedAlready THEN session ELSE scfg
  /\ IF updateserv THEN UNCHANGED <<isServerActive, eventGroup>> ELSE ExitConfigMode
  /\ led' = "ON"
  /\ events' = events \ {"CONNECT_MQTT"}
  /\ pc' = "monitor"
  /\ UNCHANGED <<cfg, open, http, bitfied, tries, updateserv, scfg, eq, wifiVars, brokers,
                 history>>

BrokerFailed ==
  /\ pc = "connect" /\ ~ConnectedAlready /\ ~BrokerAnswers
  /\ pc' = "top"
  /\ UNCHANGED <<shared, events, bitfied, tries, updateserv, scfg, eq, wifiVars, mqttVars,
                 led, history>>

\* WiFi.status() != WL_CONNECTED: testWifi once more.
CheckWifi ==
  /\ pc = "monitor"
  /\ pc' = IF link = Nothing THEN "retest" ELSE "loop"
  /\ tries' = 0
  /\ UNCHANGED <<shared, events, bitfied, updateserv, scfg, eq, wifiVars, mqttVars, led,
                 history>>

\* The link came back by itself; testWifi leaves the LED off.
WifiBack ==
  /\ TestConnected("retest")
  /\ led' = "OFF"
  /\ pc' = "loop"
  /\ UNCHANGED <<shared, events, bitfied, tries, updateserv, scfg, eq, wifiVars, mqttVars,
                 history>>

\* Mutant of WifiLost: nothing asks for a new WiFi.begin.
WifiLostForgotten ==
  /\ TestUpdated("retest") \/ TestTimesOut("retest")
  /\ led' = "OFF"
  /\ pc' = "top"
  /\ UNCHANGED <<cfg, isServerActive, open, http, events, bitfied, tries, updateserv, scfg, eq,
                 wifiVars, mqttVars, history>>

WifiLost ==
  /\ TestUpdated("retest") \/ TestTimesOut("retest")
  /\ events' = events \cup {"CONNECT_WIFI"}
  /\ led' = "OFF"
  /\ pc' = "top"
  /\ UNCHANGED <<cfg, isServerActive, open, http, bitfied, tries, updateserv, scfg, eq,
                 wifiVars, mqttVars, history>>

\* Mutant of ClientLoop: a lost session goes unnoticed.
ClientLoopBlind ==
  /\ pc = "loop"
  /\ pc' = "top"
  /\ UNCHANGED <<shared, events, led, bitfied, tries, updateserv, scfg, eq, wifiVars,
                 mqttVars, history>>

\* A lost session asks for a login; client.loop() only brings messages.
ClientLoop ==
  /\ pc = "loop"
  /\ IF session = Nothing
       THEN events' = events \cup {"CONNECT_MQTT"} /\ led' = "BLINK"
       ELSE UNCHANGED <<events, led>>
  /\ pc' = "top"
  /\ UNCHANGED <<shared, bitfied, tries, updateserv, scfg, eq, wifiVars, mqttVars, history>>

-----------------------------------------------------------------------------
(* The other tasks.                                                        *)

\* The switch, or nobody, turns configuration mode on or off.
EnterConfigMode ==
  /\ ~isServerActive
  /\ isServerActive' = TRUE /\ open' = TRUE
  /\ UNCHANGED <<cfg, eventGroup, http, task, wifiVars, mqttVars, led, history>>

LeaveConfigMode ==
  /\ isServerActive /\ ExitConfigMode
  /\ UNCHANGED <<cfg, open, http, task, wifiVars, mqttVars, led, history>>

\* webserver_task takes the request to stop.
StopServed ==
  /\ "STOP_SERVER" \in eventGroup
  /\ eventGroup' = eventGroup \ {"STOP_SERVER"}
  /\ UNCHANGED <<cfg, isServerActive, open, http, task, wifiVars, mqttVars, led, history>>

\* Stopping the server only closes the port: the connections that are open
\* stay, until their pages or the receive timeout end them.
ConnectionsEnd ==
  /\ open /\ ~isServerActive
  /\ open' = FALSE
  /\ UNCHANGED <<cfg, eventGroup, isServerActive, http, task, wifiVars, mqttVars, led,
                 history>>

\* A handler starts writing its section of cfg, ...
FormBegin(s) ==
  /\ open /\ http = "idle" /\ forms < Forms
  /\ forms' = forms + 1
  /\ cfg' = [cfg EXCEPT ![s] = Part(forms')]
  /\ http' = s
  /\ UNCHANGED <<eventGroup, isServerActive, open, task, wifiVars, mqttVars, led, drops,
                 signalled, swallowed>>

\* ... completes it and raises its flag, ...
FormSignal ==
  /\ http # "idle"
  /\ cfg' = [cfg EXCEPT ![http] = Whole(forms)]
  /\ eventGroup' = eventGroup \cup {UpdateFlag[http]}
  /\ signalled' = [signalled EXCEPT ![http] = forms]
  /\ http' = "idle"
  /\ UNCHANGED <<isServerActive, open, task, wifiVars, mqttVars, led, forms, drops,
                 swallowed>>

\* ... or refuses an address and leaves the section as it is.
FormRefused ==
  /\ http = "wifi"
  /\ http' = "idle"
  /\ UNCHANGED <<cfg, eventGroup, isServerActive, open, task, wifiVars, mqttVars, led,
                 history>>

-----------------------------------------------------------------------------
(* The WiFi driver and the broker.                                         *)

Associate ==
  /\ trying
  /\ link' = IF Answers(target, Networks) THEN target ELSE Nothing
  /\ trying' = (link' = Nothing)
  /\ link' # link
  /\ UNCHANGED <<shared, task, target, mqttVars, led, history>>

LoseLink ==
  /\ link # Nothing /\ drops < Drops
  /\ drops' = drops + 1
  /\ link' = Nothing
  /\ trying' = AutoReconnect
  /\ UNCHANGED <<shared, task, target, mqttVars, led, forms, signalled, swallowed>>

LoseSession ==
  /\ session # Nothing /\ drops < Drops
  /\ drops' = drops + 1
  /\ session' = Nothing
  /\ UNCHANGED <<shared, task, wifiVars, brokers, led, forms, signalled, swallowed>>

-----------------------------------------------------------------------------

ctrl_task ==
  \/ TakeSnapshot
  \/ CheckNetwork \/ NoWifiConfig \/ BeginWifi
  \/ TestAgain("test") \/ WifiConnected \/ WifiFailed
  \/ CheckCalibration
  \/ CheckService \/ (\E configured \in BOOLEAN : CopyService(configured))
  \/ BrokerConnected \/ BrokerFailed
  \/ CheckWifi \/ TestAgain("retest") \/ WifiBack \/ WifiLost
  \/ ClientLoop

ConfigMode == EnterConfigMode \/ LeaveConfigMode \/ StopServed \/ ConnectionsEnd

Handler == FormSignal \/ FormRefused

Losses == LoseLink \/ LoseSession

Next ==
  \/ ctrl_task
  \/ ConfigMode
  \/ \E s \in Edited : FormBegin(s)
  \/ Handler
  \/ Associate
  \/ Losses

Spec == Init /\ [][Next]_vars

\* The task is scheduled and none of its waits is for ever, a handler that was
\* entered returns, and a driver that is trying reaches an access point that
\* answers.
FairSpec == Spec /\ WF_vars(ctrl_task) /\ WF_vars(Handler) /\ WF_vars(Associate)

-----------------------------------------------------------------------------
(* Correctness.                                                            *)

\* The settings c are the last form of section s the page was told is
\* applied, or a newer one.
UpToDate(c, s) == c = Whole(signalled[s]) \/ c.form > signalled[s]

\* A form once confirmed is in use, or ctrl_task still knows that it has work
\* to do: the flag is up, its own event group asks for a new connection, or
\* the loop is about to read the section.  Only a network update that testWifi
\* swallowed (mqtt_task.cpp:232) is excepted.
FormsAreTakenUp ==
  /\ \/ UpToDate(target, "wifi")
     \/ Updated("wifi") \/ "CONNECT_WIFI" \in events \/ pc = "wifi"
     \/ swallowed
  /\ \/ UpToDate(scfg, "service")
     \/ Updated("service") \/ pc = "copy"
     \/ signalled["service"] = 0
  /\ UpToDate(eq, "cal") \/ Updated("cal")

\* Between two iterations the open session is one with the broker, and under
\* the name, that the service page was told is applied ("Applied settings",
\* main.html:470).
SessionUsesSettings ==
  pc = "top" /\ session # Nothing /\ "CONNECT_MQTT" \notin events => session = scfg

\* Settings that answer: the last form of both pages was accepted and is good.
Usable ==
  http = "idle" /\ Answers(cfg["wifi"], Networks) /\ Answers(cfg["service"], brokers)

Online == link # Nothing /\ session # Nothing

\* Whatever was submitted, lost and received, once the settings are usable and
\* the driver retries, the device ends up online.
OnlineAgain == []<>(Usable => Online)

\* A network form is eventually what the driver was told to connect to, unless
\* testWifi swallows its flag.
NetworkFormIsUsedUnlessSwallowed ==
  Updated("wifi") ~> UpToDate(target, "wifi") \/ swallowed

\* The same without the exception: "Applied settings" (main.html:522).
NetworkFormIsUsed == Updated("wifi") ~> UpToDate(target, "wifi")

\* A session that was lost while the LED shows it does not go unnoticed: the
\* LED goes out or blinks, there is a session again, or the loop is trying to
\* log in with settings no broker answers to.  The last leaves the LED lit for
\* as long as that lasts: a login that was asked for before the loss
\* (mqtt_task.cpp:378) and fails (402-405) never comes to 430-433.
LossIsNoticed ==
  led = "ON" /\ session = Nothing
    ~> \/ led # "ON" \/ session # Nothing
       \/ "CONNECT_MQTT" \in events /\ ~Answers(scfg, brokers)

=============================================================================
