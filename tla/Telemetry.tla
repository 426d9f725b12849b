------------------------------ MODULE Telemetry ------------------------------
(***************************************************************************)
(* What ctrl_task shares with the callbacks of the FreeRTOS timer task     *)
(* (mqtt_task.cpp and uinterface.cpp): the mode LED and its timer, the     *)
(* publishing timers, the calibration line, the buffer jsonstatus, and the *)
(* MQTT client with its own buffer, none of them behind a lock.            *)
(*                                                                         *)
(* Commands to timers go through a queue the timer task serves between two *)
(* callbacks.  The second LED is the same code with webserver_task in the  *)
(* place of ctrl_task, the second relay the same as the first.             *)
(***************************************************************************)
EXTENDS Integers, Sequences, FiniteSets

CONSTANTS
  Calibrations, \* the calibrations, by their number
  QueueLength,  \* of the timer command queue (10 in the code)
  Budgets,      \* bounds: how often what the environment does may happen
  Torn,         \* settings or a text that is written while it is read
  Nothing       \* no value

\* What the service form says of a publication; whether it names a broker,
\* and both publications.  Every form has the same topics.  A budget says how
\* often what the environment does may happen, and which forms there are.
Periods == [period : Int, unit : STRING]
Services == [host : BOOLEAN, temp : Periods, ping : Periods]

ASSUME QueueAssumption == QueueLength \in Nat \ {0}
ASSUME CalibrationAssumption == Calibrations \in Seq([x0 : Int, y0 : Int, x1 : Int, y1 : Int])
ASSUME BudgetAssumption ==
  Budgets \subseteq [leds : Nat, commands : Nat, forms : Nat, calibrations : Nat, drops : Nat,
                     services : SUBSET Services]
\* A topic that is torn is not one the device has subscribed to.
ASSUME TornAssumption == Torn \notin {"relay1", "enableTemp"}

VARIABLES
  up,         \* no assertion has failed
  task,       \* ctrl_task and the timer task: [at, job, seen], seen being the
              \* locals of status2json
  queue,      \* the commands to timers
  timers,     \* the timers, [active, ticks, tp]
  led,        \* ledMode: [mode, state], and pin, what the LED shows
  eq,         \* the calibration line, [m, b]; of is history, the number of
              \* the calibration it is of
  scfg,       \* the copy of cfg.service, or torn while it is written
  ctrlStatus, \* [relay1, enableTemp]
  jsonstatus, \* the text to publish
  client,     \* the MQTT client, [connected, buffer], and the broker's side
              \* of it: the topics subscribed; login is history, the
              \* settings last logged in with
  told,       \* what the broker last had on the ping topic
  budget,     \* what is left of the bounds
  lost,       \* history: commands for which the queue was full to the end
  late,       \* history: the LED's timer expired after the update that stops it
  asked,      \* history: the last value sent for the relay
  missed      \* history: a command was overwritten before it was read

vars == <<up, task, queue, timers, led, eq, scfg, ctrlStatus, jsonstatus, client, told,
          budget, lost, late, asked, missed>>

-----------------------------------------------------------------------------
(* The publishing period: 32-bit words, as their two halves.               *)

Half == 65536
Word(n) == <<(n \div Half) % Half, n % Half>>
Times(w, n) == <<(w[1] * n + (w[2] * n) \div Half) % Half, (w[2] * n) % Half>>
Quotient(w, n) == (w[1] \div n) * Half + ((w[1] % n) * Half + w[2]) \div n

Seconds == [unit \in {"Second", "Minute", "Hour"} |->
              CASE unit = "Second" -> 1 [] unit = "Minute" -> 60 [] OTHER -> 3600]

\* Mutant of getupdatePeriod: hours are taken for minutes.
getupdatePeriodShort(tp) ==
  IF tp.unit \in DOMAIN Seconds
  THEN Times(Times(Word(tp.period), IF Seconds[tp.unit] = 1 THEN 1 ELSE 60), 1000) ELSE Word(-1)

\* In milliseconds, or -1 for a unit it does not know.
getupdatePeriod(tp) ==
  IF tp.unit \in DOMAIN Seconds THEN Times(Times(Word(tp.period), Seconds[tp.unit]), 1000) ELSE Word(-1)

\* TickType_t is unsigned, and a tick is a millisecond.
pdMS_TO_TICKS(ms) == Quotient(Times(ms, 1000), 1000)

-----------------------------------------------------------------------------
(* The calibration line, with fractions for doubles.                       *)

\* A line through two points with the same x has the slope of one count.
Slope(cal) == [num |-> cal.y1 - cal.y0, den |-> IF cal.x1 = cal.x0 THEN 1 ELSE cal.x1 - cal.x0]
Intercept(cal) == [num |-> cal.y0 * Slope(cal).den - Slope(cal).num * cal.x0, den |-> Slope(cal).den]

\* applyCalibration(x) = y; the line is read five counts to the left.
Gives(m, b, x, y) == m.num * (x - 5) * b.den + b.num * m.den = y * m.den * b.den

-----------------------------------------------------------------------------
(* The timer command queue.                                                *)

caleq(n) == [m |-> Slope(Calibrations[n]), b |-> Intercept(Calibrations[n]), of |-> n]
OnOff == {"ON", "OFF"}
ctrl_status == [relay1 : OnOff, enableTemp : OnOff]
Shades == {"lit", "dark"}
ledctrl == [mode : OnOff \union {"BLINK"}, state : Shades, pin : Shades]
ledctrl_init == [mode |-> "OFF", state |-> "dark", pin |-> "dark"]

Rest == [at |-> "rest", job |-> Nothing, seen |-> Nothing]
ctrl == task["ctrl"]
timer == task["timer"]
Goto(t, at, job) == task' = [task EXCEPT ![t] = [at |-> at, job |-> job, seen |-> Nothing]]
Finish(t) == task' = [task EXCEPT ![t] = Rest]

\* tp is history: the period a change is for.
Command(name, t) == [name |-> name, timer |-> t, ticks |-> 0, tp |-> Nothing]
ChangePeriod(t, tp) == [name |-> "change", timer |-> t, ticks |-> pdMS_TO_TICKS(getupdatePeriod(tp)), tp |-> tp]

\* xTimerStart, Stop and ChangePeriod wait a while for room, then give up;
\* nobody looks at what they return.
Undone(cmd) == IF cmd.name = "change" THEN {<<"change", cmd.timer>>}
               ELSE {<<"start", cmd.timer>>, <<"stop", cmd.timer>>}
Post(cmd) ==
  \/ Len(queue) < QueueLength /\ queue' = Append(queue, cmd) /\ lost' = lost \ Undone(cmd)
  \/ Len(queue) = QueueLength /\ UNCHANGED queue /\ lost' = lost \union {<<cmd.name, cmd.timer>>}

Spend(what) == budget[what] > 0 /\ budget' = [budget EXCEPT ![what] = @ - 1]

Init ==
  /\ up = TRUE /\ task = [t \in {"ctrl", "timer"} |-> Rest] /\ queue = <<>>
  /\ timers = [t \in {"led", "temp", "ping"} |-> 
                [active |-> FALSE, ticks |-> IF t = "led" THEN 250 ELSE 10000, tp |-> Nothing]]
  /\ led = ledctrl_init
  /\ eq = caleq(1)
  /\ scfg = Nothing /\ ctrlStatus = [relay1 |-> "OFF", enableTemp |-> "OFF"]
  /\ jsonstatus = [m |-> Nothing, b |-> Nothing, status |-> Nothing] /\ told = Nothing
  /\ client = [connected |-> FALSE, buffer |-> Nothing, topics |-> {}, login |-> Nothing]
  /\ budget \in Budgets
  /\ lost = {} /\ late = FALSE /\ asked = "OFF" /\ missed = FALSE

-----------------------------------------------------------------------------
(* ledctrl_update.                                                         *)

Shows == [mode \in {"OFF", "BLINK", "ON"} |-> IF mode = "ON" THEN "lit" ELSE "dark"]

\* The same mode again does nothing.
SetMode ==
  /\ ctrl.at = "rest" /\ Spend("leds")
  /\ \E mode \in {"OFF", "BLINK", "ON"} \ {led.mode} :
       /\ led' = [led EXCEPT !.mode = mode, !.state = Shows[mode]]
       /\ Goto("ctrl", IF mode = "BLINK" THEN "pin" ELSE "stop", Nothing)
  /\ late' = (timer.job = <<"led">>)
  /\ UNCHANGED <<queue, timers, eq, scfg, ctrlStatus, jsonstatus, client, told, lost, asked, missed>>

\* Mutant of StopLed: a LED that is to stay lit keeps its timer.
StopLedDark ==
  /\ ctrl.at = "stop"
  /\ IF led.mode = "OFF" THEN Post(Command("stop", "led")) ELSE UNCHANGED <<queue, lost>>
  /\ Goto("ctrl", "pin", Nothing)
  /\ UNCHANGED <<timers, led, eq, scfg, ctrlStatus, jsonstatus, client, told, budget, late, asked, missed>>

StopLed ==
  /\ ctrl.at = "stop" /\ Post(Command("stop", "led")) /\ Goto("ctrl", "pin", Nothing)
  /\ UNCHANGED <<timers, led, eq, scfg, ctrlStatus, jsonstatus, client, told, budget, late, asked, missed>>

WritePin ==
  /\ ctrl.at = "pin" /\ led' = [led EXCEPT !.pin = led.state]
  /\ Goto("ctrl", IF led.mode = "BLINK" THEN "start" ELSE "rest", Nothing)
  /\ UNCHANGED <<queue, timers, eq, scfg, ctrlStatus, jsonstatus, client, told, budget, lost, late, asked, missed>>

StartLed ==
  /\ ctrl.at = "start" /\ Post(Command("start", "led")) /\ Finish("ctrl")
  /\ UNCHANGED <<timers, led, eq, scfg, ctrlStatus, jsonstatus, client, told, budget, late, asked, missed>>

-----------------------------------------------------------------------------
(* ctrl_task: calibration, login, and the messages of the broker.          *)

\* getCalibrationEquation, m before b.
WriteSlope ==
  /\ ctrl.at = "rest" /\ Spend("calibrations")
  /\ \E n \in DOMAIN Calibrations :
       /\ eq' = [eq EXCEPT !.m = Slope(Calibrations[n]), !.of = n]
       /\ Goto("ctrl", "intercept", <<n>>)
  /\ UNCHANGED <<queue, timers, led, scfg, ctrlStatus, jsonstatus, client, told, lost, late, asked, missed>>

WriteIntercept ==
  /\ ctrl.at = "intercept" /\ eq' = [eq EXCEPT !.b = Intercept(Calibrations[ctrl.job[1]])] /\ Finish("ctrl")
  /\ UNCHANGED <<queue, timers, led, scfg, ctrlStatus, jsonstatus, client, told, budget, lost, late, asked, missed>>

\* A login, for a form or after a loss, first copies the settings.  It then
\* subscribes to what the device listens to.
Topics == <<"relay1", "enableTemp">>

CopyService ==
  /\ ctrl.at = "rest" /\ Spend("forms")
  /\ \E s \in budget.services : Goto("ctrl", "connect", <<s>>)
  /\ scfg' = Torn
  /\ UNCHANGED <<queue, timers, led, eq, ctrlStatus, jsonstatus, client, told, lost, late, asked, missed>>

\* Without a broker that is all: a session that is open keeps what it was
\* opened with.  An open session is taken for a login; a broker that does not
\* answer is tried again.  A new session has no subscriptions.
Connect ==
  /\ ctrl.at = "connect" /\ scfg' = ctrl.job[1]
  /\ \/ ~scfg'.host /\ Finish("ctrl") /\ UNCHANGED client
     \/ /\ scfg'.host /\ client.connected /\ Goto("ctrl", "subscribe", <<1>>)
        /\ client' = [client EXCEPT !.login = scfg']
     \/ /\ scfg'.host /\ ~client.connected /\ Goto("ctrl", "subscribe", <<1>>)
        /\ client' = [client EXCEPT !.connected = TRUE, !.topics = {}, !.login = scfg']
     \/ scfg'.host /\ ~client.connected /\ Finish("ctrl") /\ UNCHANGED client
  /\ UNCHANGED <<queue, timers, led, eq, ctrlStatus, jsonstatus, told, budget, lost, late, asked, missed>>

\* The packet is put together in the client's buffer, and sent from there.
Subscribe ==
  /\ ctrl.at = "subscribe" /\ Goto("ctrl", "subscribing", ctrl.job)
  /\ client' = IF client.connected THEN [client EXCEPT !.buffer = <<"subscribe", Topics[ctrl.job[1]]>>] ELSE client
  /\ UNCHANGED <<queue, timers, led, eq, scfg, ctrlStatus, jsonstatus, told, budget, lost, late, asked, missed>>

\* A broker reads nothing in a packet that was written over, and may end the
\* session for it.
Subscribed ==
  /\ ctrl.at = "subscribing"
  /\ IF ctrl.job[1] < Len(Topics) THEN Goto("ctrl", "subscribe", <<ctrl.job[1] + 1>>)
                                  ELSE Goto("ctrl", "timers", <<1>>)
  /\ IF client.buffer = <<"subscribe", Topics[ctrl.job[1]]>>
     THEN client' = [client EXCEPT !.topics = IF client.connected THEN @ \union {Topics[ctrl.job[1]]} ELSE @]
     ELSE \E ends \in BOOLEAN : client' = [client EXCEPT !.connected = @ /\ ~ends]
  /\ UNCHANGED <<queue, timers, led, eq, scfg, ctrlStatus, jsonstatus, told, budget, lost, late, asked, missed>>

\* Mutant of LoginCommands: the change of the period is forgotten to start the timer.
LoginCommandsOpen ==
  <<ChangePeriod("temp", scfg.temp),
    ChangePeriod("ping", scfg.ping), Command("start", "ping")>>

\* Changing the period starts the timer.
LoginCommands ==
  <<ChangePeriod("temp", scfg.temp), Command("stop", "temp"),
    ChangePeriod("ping", scfg.ping), Command("start", "ping")>>

SetTimers ==
  /\ ctrl.at = "timers"
  /\ LET n == ctrl.job[1] IN
     /\ Post(LoginCommands[n])
     /\ IF n = Len(LoginCommands) THEN Finish("ctrl") ELSE Goto("ctrl", "timers", <<n + 1>>)
  /\ UNCHANGED <<timers, led, eq, scfg, ctrlStatus, jsonstatus, client, told, budget, late, asked, missed>>

\* client.loop finds a message and puts it into the client's buffer.  What is
\* asked of the relay anew is no longer missed.
Receive ==
  /\ ctrl.at = "rest" /\ client.connected /\ Spend("commands")
  /\ \E topic \in client.topics, value \in OnOff \union {"other"} :
       LET asks == topic = "relay1" /\ value # "other" IN
       /\ client' = [client EXCEPT !.buffer = <<topic, value>>]
       /\ asked' = IF asks THEN value ELSE asked
       /\ missed' = (missed /\ ~asks)
  /\ Goto("ctrl", "handle", Nothing)
  /\ UNCHANGED <<queue, timers, led, eq, scfg, ctrlStatus, jsonstatus, told, lost, late>>

\* subs_callback reads topic and value from that buffer.  What another
\* message was written over belongs to no topic.
Unknown ==
  /\ ctrl.at = "handle" /\ client.buffer[1] \notin {"relay1", "enableTemp"}
  /\ missed' = TRUE /\ Finish("ctrl")
  /\ UNCHANGED <<queue, timers, led, eq, scfg, ctrlStatus, jsonstatus, client, told, budget, lost, late, asked>>

\* Mutant of Relay: the status is taken for what is asked.
RelayToggles ==
  /\ ctrl.at = "handle" /\ client.buffer[1] = "relay1"
  /\ ctrlStatus' = [ctrlStatus EXCEPT !.relay1 = IF client.buffer[2] = "ON" /\ @ = "OFF" THEN "ON" ELSE "OFF"]
  /\ Goto("ctrl", "slope", <<"ping">>)
  /\ UNCHANGED <<queue, timers, led, eq, scfg, jsonstatus, client, told, budget, lost, late, asked, missed>>

\* Whatever was done, the status is published.
Relay ==
  /\ ctrl.at = "handle" /\ client.buffer[1] = "relay1"
  /\ ctrlStatus' = [ctrlStatus EXCEPT !.relay1 = IF client.buffer[2] = "other" THEN @ ELSE client.buffer[2]]
  /\ Goto("ctrl", "slope", <<"ping">>)
  /\ UNCHANGED <<queue, timers, led, eq, scfg, jsonstatus, client, told, budget, lost, late, asked, missed>>

Transmit ==
  /\ ctrl.at = "handle" /\ client.buffer[1] = "enableTemp"
  /\ LET value == client.buffer[2] IN
     IF value = "other" THEN /\ Goto("ctrl", "slope", <<"ping">>)
                             /\ UNCHANGED <<queue, lost>>
     ELSE /\ Post(Command(IF value = "ON" THEN "start" ELSE "stop", "temp"))
          /\ Goto("ctrl", "transmit", <<value>>)
  /\ UNCHANGED <<timers, led, eq, scfg, ctrlStatus, jsonstatus, client, told, budget, late, asked, missed>>

EnableTemp ==
  /\ ctrl.at = "transmit" /\ ctrlStatus' = [ctrlStatus EXCEPT !.enableTemp = ctrl.job[1]]
  /\ Goto("ctrl", "slope", <<"ping">>)
  /\ UNCHANGED <<queue, timers, led, eq, scfg, jsonstatus, client, told, budget, lost, late, asked, missed>>

\* The session is lost.
Drop ==
  /\ client.connected /\ Spend("drops") /\ client' = [client EXCEPT !.connected = FALSE]
  /\ UNCHANGED <<task, queue, timers, led, eq, scfg, ctrlStatus, jsonstatus, told, lost, late, asked, missed>>

-----------------------------------------------------------------------------
(* status2json and publish, of either task.                                *)

Step(t, from, to, seen) == task[t].at = from /\ task' = [task EXCEPT ![t].at = to, ![t].seen = seen]

ReadSlope(t) ==
  /\ Step(t, "slope", "intercept read", <<eq.m>>)
  /\ UNCHANGED <<queue, timers, led, eq, scfg, ctrlStatus, jsonstatus, client, told, budget, lost, late, asked, missed>>

ReadStatus(t) ==
  /\ Step(t, "intercept read", "line", <<task[t].seen[1], eq.b, ctrlStatus>>)
  /\ UNCHANGED <<queue, timers, led, eq, scfg, ctrlStatus, jsonstatus, client, told, budget, lost, late, asked, missed>>

\* sprintf, from left to right.
FormatLine(t) ==
  /\ Step(t, "line", "status", task[t].seen)
  /\ jsonstatus' = [jsonstatus EXCEPT !.m = task[t].seen[1], !.b = task[t].seen[2]]
  /\ UNCHANGED <<queue, timers, led, eq, scfg, ctrlStatus, client, told, budget, lost, late, asked, missed>>

FormatStatus(t) ==
  /\ Step(t, "status", "publish", Nothing)
  /\ jsonstatus' = [jsonstatus EXCEPT !.status = task[t].seen[3]]
  /\ UNCHANGED <<queue, timers, led, eq, scfg, ctrlStatus, client, told, budget, lost, late, asked, missed>>

\* Without a session nothing is published.
Drops(t) ==
  /\ task[t].at = "publish" /\ ~client.connected /\ Finish(t)
  /\ UNCHANGED <<queue, timers, led, eq, scfg, ctrlStatus, jsonstatus, client, told, budget, lost, late, asked, missed>>

\* The message is put together in the client's buffer, and sent from there.
Compose(t) ==
  /\ task[t].at = "publish" /\ client.connected /\ Step(t, "publish", "send", Nothing)
  /\ client' = [client EXCEPT !.buffer = <<IF scfg = Torn THEN Torn ELSE task[t].job[1], jsonstatus>>]
  /\ UNCHANGED <<queue, timers, led, eq, scfg, ctrlStatus, jsonstatus, told, budget, lost, late, asked, missed>>

\* What was written over is no publication any more.
Send(t) ==
  /\ task[t].at = "send" /\ Finish(t)
  /\ told' = IF client.connected /\ client.buffer[1] = "ping" THEN client.buffer[2] ELSE told
  /\ UNCHANGED <<queue, timers, led, eq, scfg, ctrlStatus, jsonstatus, client, budget, lost, late, asked, missed>>

-----------------------------------------------------------------------------
(* The timer task.                                                         *)

\* Mutant of Expire: the ping is sent with the text that is there.
ExpireStale(t) ==
  /\ timer.at = "rest" /\ timers[t].active
  /\ Goto("timer", CASE t = "led" -> "toggle" [] t = "ping" /\ jsonstatus.status # Nothing -> "publish" [] OTHER -> "slope", <<t>>)
  /\ late' = (late \/ (t = "led" /\ led.mode # "BLINK"))
  /\ UNCHANGED <<queue, timers, led, eq, scfg, ctrlStatus, jsonstatus, client, told, budget, lost, asked, missed>>

\* A timer expires: its callback begins.
Expire(t) ==
  /\ timer.at = "rest" /\ timers[t].active
  /\ Goto("timer", IF t = "led" THEN "toggle" ELSE "slope", <<t>>)
  /\ late' = (late \/ (t = "led" /\ led.mode # "BLINK"))
  /\ UNCHANGED <<queue, timers, led, eq, scfg, ctrlStatus, jsonstatus, client, told, budget, lost, asked, missed>>

\* tmledmode_callback: the state is read, written, and read again for the pin.
ReadState ==
  /\ Step("timer", "toggle", "toggled", <<led.state>>)
  /\ UNCHANGED <<queue, timers, led, eq, scfg, ctrlStatus, jsonstatus, client, told, budget, lost, late, asked, missed>>

WriteState ==
  /\ Step("timer", "toggled", "show", Nothing)
  /\ led' = [led EXCEPT !.state = IF timer.seen = <<"lit">> THEN "dark" ELSE "lit"]
  /\ UNCHANGED <<queue, timers, eq, scfg, ctrlStatus, jsonstatus, client, told, budget, lost, late, asked, missed>>

ShowState ==
  /\ timer.at = "show" /\ Finish("timer") /\ led' = [led EXCEPT !.pin = led.state]
  /\ UNCHANGED <<queue, timers, eq, scfg, ctrlStatus, jsonstatus, client, told, budget, lost, late, asked, missed>>

\* A command.  A period of no ticks fails an assertion of FreeRTOS.
Serve ==
  /\ timer.at = "rest" /\ queue # <<>> /\ queue' = Tail(queue)
  /\ LET cmd == Head(queue) IN
     /\ up' = ~(cmd.name = "change" /\ cmd.ticks = 0)
     /\ timers' = [timers EXCEPT ![cmd.timer] =
                     IF cmd.name = "change" THEN [active |-> TRUE, ticks |-> cmd.ticks, tp |-> cmd.tp]
                     ELSE [@ EXCEPT !.active = cmd.name = "start"]]
  /\ UNCHANGED <<task, led, eq, scfg, ctrlStatus, jsonstatus, client, told, budget, lost, late, asked, missed>>

-----------------------------------------------------------------------------
Publication(t) == \/ ReadSlope(t) \/ ReadStatus(t) \/ FormatLine(t) \/ FormatStatus(t) \/ Drops(t) \/ Compose(t) \/ Send(t)

\* What ctrl_task goes through once begun, and the two tasks' other steps.
CtrlStep == \/ StopLed \/ WritePin \/ StartLed \/ WriteIntercept \/ Connect \/ Subscribe \/ Subscribed \/ SetTimers
            \/ Unknown \/ Relay \/ Transmit \/ EnableTemp \/ Publication("ctrl")
TimerStep == \/ ReadState \/ WriteState \/ ShowState \/ Publication("timer")
Begin == SetMode \/ WriteSlope \/ CopyService \/ Receive \/ Drop

Next == /\ up
        /\ \/ Serve
           \/ UNCHANGED up /\ (Begin \/ CtrlStep \/ TimerStep \/ \E t \in DOMAIN timers : Expire(t))

\* Both tasks go on, and a timer that runs expires again and again; no form,
\* message or loss has to come.
Spec == /\ Init /\ [][Next]_vars
        /\ WF_vars(up /\ UNCHANGED up /\ CtrlStep) /\ WF_vars(up /\ UNCHANGED up /\ TimerStep) /\ SF_vars(up /\ Serve)
        /\ SF_vars(up /\ UNCHANGED up /\ Expire("ping"))

-----------------------------------------------------------------------------
(* Properties.                                                             *)

TypeOK ==
  /\ up \in BOOLEAN
  /\ \A t \in DOMAIN task : task[t].at \in
       {"rest", "stop", "pin", "start", "intercept", "connect", "subscribe", "subscribing", "timers",
        "handle", "transmit", "slope", "intercept read", "line", "status", "publish", "send", "toggle", "toggled", "show"}
  /\ Len(queue) <= QueueLength
  /\ \A t \in {"led", "temp", "ping"} : timers[t].active \in BOOLEAN /\ timers[t].ticks \in Nat
  /\ led \in ledctrl
  /\ scfg \in budget.services \union {Nothing, Torn} /\ client.login \in budget.services \union {Nothing}
  /\ ctrlStatus \in ctrl_status
  /\ told = Nothing \/ told.status \in ctrl_status
  /\ late \in BOOLEAN /\ missed \in BOOLEAN

AtRest == up /\ ctrl = Rest /\ timer = Rest /\ queue = <<>>

\* At rest the LED shows its mode: dark, lit, or as the timer left it.  But
\* the expiry that overtakes the stop command turns it round for good, as the
\* same mode again does nothing; and a command may have found no room.
LedShowsMode ==
  AtRest /\ ~late /\ lost \intersect {<<"start", "led">>, <<"stop", "led">>} = {} =>
    /\ timers["led"].active <=> led.mode = "BLINK"
    /\ led.pin = IF led.mode = "BLINK" THEN led.state ELSE Shows[led.mode]

\* Types, and what the LED shows.
LedInv == TypeOK /\ LedShowsMode

\* The milliseconds a form asks for, as long as 32 bits hold a thousand times
\* as many: an hour and eleven minutes.
Longest == 4294967
Meant(tp) == tp.period * Seconds[tp.unit] * 1000
IsMeant(tp) == tp.unit \in DOMAIN Seconds /\ tp.period \in 1..(Longest \div (Seconds[tp.unit] * 1000))

\* A publishing timer has the period of the settings last logged in with, also
\* after settings without a broker; and no period within reason restarts the
\* device.
PeriodIsMeant ==
  /\ AtRest /\ client.login # Nothing => \A t \in {"temp", "ping"} :
       IsMeant(client.login[t]) /\ <<"change", t>> \notin lost => timers[t].ticks = Meant(client.login[t])
  /\ ~up => \E t \in {"temp", "ping"} : timers[t].ticks = 0 /\ ~IsMeant(timers[t].tp)

\* At rest, a device that reports to transmit no temperature transmits none,
\* unless the command that stops it found no room.
SilenceIsKept ==
  AtRest /\ <<"stop", "temp">> \notin lost => (timers["temp"].active => ctrlStatus.enableTemp = "ON")

\* What the status reports as transmitted is transmitted: the status calls it
\* "transmitir".  But a login stops the timer and leaves the report as it is.
ReportedIsTransmitted ==
  AtRest /\ client.connected /\ <<"start", "temp">> \notin lost =>
    (ctrlStatus.enableTemp = "ON" => timers["temp"].active)

\* The relay is as last asked for, unless a publication of the timer task
\* overwrote that message in the client's buffer.
RelayIsAsAsked == ctrl.at # "handle" /\ ~missed => ctrlStatus.relay1 = asked

\* Once nothing more is asked and the ping goes on, the broker comes to know
\* the state of the device and stays with it, whatever was mixed before: the
\* relay, the transmission, and the line of the last calibration, which gives
\* what was confirmed for its points at five counts more.
Calm == up /\ ctrl = Rest /\ client.connected /\ timers["ping"].active
OnTheLine(m, b, cal) ==
  Gives(m, b, cal.x0 + 5, cal.y0) /\ (cal.x0 # cal.x1 => Gives(m, b, cal.x1 + 5, cal.y1))
Known ==
  /\ told # Nothing /\ told.status = ctrlStatus
  /\ OnTheLine(told.m, told.b, Calibrations[eq.of])
BrokerKnowsInTheEnd == <>[]Calm => <>[]Known

=============================================================================
