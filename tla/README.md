# Verification of the 4-20mA WiFi bridge firmware

TLA+ models of `src/firmware`, the firmware of an ESP32 device that reads a
4-20 mA sensor, publishes it over WiFi and MQTT, switches two relays on command
and is configured through web pages it serves itself; and of the two libraries
it carries along to serve them, AsyncTCP and ESPAsyncWebServer. TLC checks the
models on small instances; TLAPS proves the invariants they check, all but the
one that section 4 names, for every instance, and that the detailed model of the
web server implements an abstract one.

## 1. The system

Everything runs in one address space on two cores, under FreeRTOS, with no lock
in the firmware and one, around the closed slots, in AsyncTCP:

| task | code | runs |
|---|---|---|
| lwIP | `AsyncTCP.cpp` | its callbacks, which post events; the calls the others make into TCP |
| `async_tcp` | `AsyncTCP.cpp`, `ESPAsyncWebServer`, handlers in `webserver.cpp` | the events: requests, responses, page handlers |
| `webserver_task` (priority 3) | `webserver.cpp` | start and stop of the server, scans, saves |
| `ctrl_task` (priority 1) | `mqtt_task.cpp` | WiFi, broker, received commands |
| timer task | `main.cpp`, `mqtt_task.cpp`, `uinterface.cpp` | `switch_callback`, the publications, the blinking |
| `Ext_INT1_ISR` | `main.cpp` | a rising edge of the push button |

They share the settings `cfg`, the factory calibration `cal`, the EEPROM
library's RAM image, two event groups, the text `jsonstatus`, the MQTT client
and a dozen plain globals.

### Components, state, operations, correctness

* **Configuration store** (`config-mng.cpp`). State: `cfg`, `cal`, the RAM
  image, the flash blob. Operations: `config_load`, `config_savecfg`,
  `config_setdefault`, `config_overwritedefaultcal`. Correct when what is
  committed is what was set, and a restart finds it.
* **Web server task and page handlers** (`webserver.cpp`). State: the event
  group of eight flags, the task's snapshot of it, the request being handled.
  Operations: five forms, scan, reboot, reset; the loop that serves the flags;
  the `..Updated` calls of `ctrl_task`. Correct when what a page was told is
  saved, and nothing else.
* **Connection task** (`mqtt_task.cpp`). State: its own event group and the
  snapshot of it, its copy of the service settings, the link, the session.
  Correct when every confirmed form is taken up, and the device gets online
  whenever it can.
* **Configuration mode, switch and boot** (`main.cpp`, `ctrl_enterConfigMode`,
  `ctrl_exitConfigMode`). State: `isServerActive`, the WiFi mode, `tmswitch`,
  `timerstate`. Correct when the server, the access point and the flag agree,
  short and long presses are told apart, and no press is lost.
* **Factory reset** (`uinterface.cpp`, `config_setdefault`). Correct when the
  restart finds the shipped settings.
* **Telemetry, commands, LEDs, period, calibration line** (`mqtt_task.cpp`,
  `uinterface.cpp`). State: the timers and their command queue, `jsonstatus`,
  the client's buffer, `ctrlStatus`, the line, the two `ledctrl`. Correct when
  a LED shows its mode, the timers have the period that was asked for, a command
  does what it says, and what the broker knows is so.
* **Forms** (`main.html`, the handlers, `stringToIp`). Correct when what is
  confirmed with "ok" is stored as it was typed, and what is refused is wrong.
* **AsyncTCP**. State: the event queue, the closed slots, the clients, the
  server's control block. Correct when neither thread uses what the other has
  freed, the application is given the data in order, and every client of an
  ended connection is deleted.
* **HTTP requests and responses** (ESPAsyncWebServer). State: the request's
  parser, the response with what is left of it. Correct when a request is
  handled once however it was cut, its body is read as it was sent, and its
  answer leaves whole, in order, and to the end.

They interact by calls (`webserver_start` and `webserver_stop` from the mode,
`ctrl_exitConfigMode` from the login), by flags (forms to both tasks), by the
shared `cfg`, by the timer command queue, and by AsyncTCP's queue of events.

### What is hard

The `hazards` of `PROJECT.json` list forty of them at their lines, each with the
properties that are about it: flags that are cleared after the work instead of
before it, a flag nobody waits for, a copy of `cfg` taken while a handler writes
it, check-then-act on `isServerActive` from two tasks, timer commands that take
effect after the callback that posted them or find no room, a stale snapshot and
five `continue`s, a reset that shares the EEPROM image with a save, one text and
one client buffer for two tasks, an event queue turned over while another thread
posts to it, a control block freed between a check and a call, a response that
exactly fills the send buffer, a body cut inside what looks like a boundary, and
fields narrower than what a page lets one type.

## 2. Modules

| module | models | composed with |
|---|---|---|
| `Settings` | `struct config`, abstracted to which form a section holds and whether as a whole | |
| `ConfigStore` | `config-mng.cpp` | extends `Settings` |
| `DurableSettings` | abstract: what the user of the pages is promised | extends `Settings` |
| `WebServer` | `webserver.cpp`, `factoryreset`, restarts | extends `ConfigStore`; implements `DurableSettings` |
| `CtrlTask` | `ctrl_task`, `testWifi`, the forms it reads, driver and broker | extends `Settings` |
| `ConfigMode` | boot, switch, timer task, enter and exit of the mode, server flags | |
| `Telemetry` | publications, commands, LED, period, calibration line | |
| `BodyParser` | `_parseMultipartPostByte`, `_parsePlainPostChar`, `urlDecode` | |
| `Forms` | the pages' scripts, the url's parameters, routes, the five handlers | extends `BodyParser` |
| `HttpExchange` | one connection of `ESPAsyncWebServer`, request and response | |
| `AsyncTcp` | the server side of `AsyncTCP.cpp` | |
| `MCForms`, `MCHttpExchange`, `MCTelemetry` | instances: visits, requests, budgets | |
| `WebServerProofs`, `CtrlTaskProofs`, `ConfigModeProofs` | theorems about the firmware's tasks | extend the module they are about |
| `TelemetryProofs` | theorems about publications, LED, periods | extends `Telemetry` |
| `AsyncTcpProofs` | theorems about slots and blocks, and about the order of events | extends `AsyncTcp` |
| `HttpExchangeProofs` | theorems about requests and responses | extends `HttpExchange` |
| `BodyParserProofs` | lemmas about texts, their encoding, and the reading of a body | extends `Forms` |
| `FormsProofs` | theorems about forms and bodies | extends `BodyParserProofs` |

**Step size.** An action is the code between two points where another task can
run and be noticed. So a save is three steps (copy of `cfg`, commit, clear of the
flag), `config_setdefault` four (`memset`, the fields, copy, commit), a form
three (first field, last field, flags and answer), `ctrl_enterConfigMode` three,
`status2json` four, a call into lwIP three (each of its two arguments, and the
execution by the other thread). Where one task runs alone (`Forms`,
`HttpExchange`) the steps are the turns of its loops or the calls of its
callbacks.

**Settings.** A section's content is `[form, whole]`: the number of the form it
came from, 0 being the shipped one, and whether it is that form entirely. A
section caught between two fields, left by a refused form, or cleared by
`setdefault`'s `memset`, is a part. `cfg["wifi"]`, say, stands for `cfg.wifi`.
What the fields hold is the business of `Forms`.

**WebServer.** `web` is the line of the loop, `ctrlflags` the local variable;
`FromStart` to `FromOverwrite` are the chain of `if`s. `http` is the request in
progress. `listening` is the server's listener, `open` whether a connection is:
`server.end()` closes the first only, so forms arrive until `ConnectionsEnd`.
`reset[r]` follows each caller of `factoryreset` through its steps.
`Boot` is `setup()` after any restart: RAM is lost and `config_load` reads the
blob. History variables: `confirmed` (the last form of each section answered
"ok"), `asked` (the last confirmed form that asked to overwrite the factory
calibration), `overtaken` (a form was confirmed between the copy of `cfg` and the
clearing of `SAVE_CFG`), `disturbed` (a form or another reset met a reset).

**DurableSettings** knows what was told, what is kept, and whether the two are
settled, due or under a reset. `WebServer` implements it with `confirmed`, the
forms of the blob in flash, and `Phase` in their place. A step of `Keep` may
keep anything not older than what is kept, which is how several forms, saved in
any order and in parts, become one promise.

**CtrlTask.** `pc` names the points of the loop. `continue` is a step to "top".
Each loop of `testWifi` is `TestAgain`, and its three ends are `TestConnected`,
`TestUpdated` and `TestTimesOut`, used at both of its calls. The mode LED has the
value it has between two polls, the flashes inside one are left out. The status
that a poll reads a moment before it looks for an update is read with it: what
may come between, an association, commutes with that look. The subscriptions and timer
commands of a login, and what the broker's messages do, are `Telemetry`'s.
External, after the use the code makes of them: the driver (`Associate`,
`LoseLink`), the broker (`LoseSession`, `BrokerAnswers`), and
`PubSubClient::connect`, which returns true at once when a session is open.

**ConfigMode.** `boot` follows `setup()`, which enables the interrupt before
there is a timer to start. The interrupt is three steps and runs on the other
core than the timer task. `daemon` is the line of `switch_callback`, with the
mode functions it calls inlined; `ctrl` is where `ctrl_task` sets up the access
point or leaves the mode. Commands are posted to `cmds` and processed in order,
and only between two callbacks: the callback's own `xTimerStop` acts after it
returned. `Expire` waits for the interrupt and for `ctrl_task`'s exit to be over,
since both take far less than the second the timer runs. History variables:
`raced` (an interrupt between what the callback has decided and what it does
about it), `crossed` (a start and a stop of the server overlapped), `held` (the
periods that ran out with the button held since the press) and `tapped` (a press
met the answer to another, or commands waited).

**Telemetry.** `task` has a point, a job and the locals of `status2json` for each
of `ctrl_task` and the timer task. Timer commands wait in `queue`, served between
two callbacks; a command for which there is no room is dropped and noted in
`lost`. `jsonstatus` is the line's slope and intercept and the status that went
into it, each at the moment it was formatted; the client's buffer is shared by
what is received and what is sent. Periods are 32-bit words, kept as two halves;
doubles are fractions. A login copies the settings (and ends at once when they
name no broker), connects, subscribes topic by topic through the same buffer, and
sends four commands; `client` has the session, the buffer, the topics the broker
knows of and the settings logged in with. `eq` is the line in its two writes, with
the calibration it is of. History variables: `lost`, `late` (the LED's timer
expired after the update that stops it), `missed` (the last command was written
over in the buffer before it was read), `asked` (the last value sent for the
relay).

**Forms, BodyParser.** A text is a sequence of characters of one or two bytes, of
which only those that mean something on the way are told apart; a decimal number
is one character, and so is what JSON writes after `\u`. A backslash and what
follows it are read as ArduinoJson does, and line ends that came of it are not
shown again. A form goes through the page's own check, its encoding, the url's
parameters, the route, the reading by the handler, and back into the page: the
page is loaded again and confirmed as it is. `parser` is the request's parser,
fed byte by byte, any byte being possibly the last of its segment. `Stored` is what
`strcpy` makes of a text in a field of so many bytes and is read back from it:
one that leaves no room for its end goes on into the next field; one that is
longer still runs over it (`ApplyOverrun`), and the settings are not followed
any further. A missing parameter is a null pointer (`ApplyIncomplete`). What a
visit may be is `IsVisit`: what is typed into a form is, for each of its fields,
a text of any characters within the `maxlength` of its input, which counts
characters and which an id and the intervals do not have (a key with its quotes
is one token, which no one types; a name of a network has at most its 32 bytes);
the mode is one of the page's two choices, and a body of either kind has any
fields, but no boundary inside an item and no two files by one name. Left out are
`\u0000`, characters of three and four bytes and the pairs that JSON writes them
with, and tabs in the access point's page, which a browser takes out of a url.

**HttpExchange.** The request is a sequence of tokens cut anywhere, the response
one of numbered units. `todo` is what `_onData` goes on with inside a segment.
`tcp` has the send buffer's window, the acknowledgements lwIP has posted, and the
two timeouts; `Written` is what `write` may do, failures included: a failing one
returns after the content was cut and counted, so that it is lost and the response
ends without it. Deleting the request deletes its response.

**AsyncTcp.** `conn` are lwIP's control blocks, `heap` the `AsyncClient`s at
addresses that are given out again. A callback of lwIP sets `lwip` and posts in a
step of its own when the queue has room. `async` is the point of the `async_tcp`
task with the event it handles and the registers of the call it makes. `_close`
takes `tcp_arg` away in one step and the callbacks in the next, and `FinUnhooked`
is the FIN between or after them. `server` is the listener's block, which a refused
bind leaves "freed".
`mishaps` notes what was used after it was freed, `causes` the race that led
there.

## 3. Runs

| run | asks | result |
|---|---|---|
| `web_save` | is what the pages were told saved, with scans, starts, stops, reboots and power cuts at any time; is "Overwrite default calibration" served with the calibration that asked for it; is the promise of `DurableSettings` kept? | yes, but for a form that overtook a save, and a later calibration |
| `web_reset` | does a reset reset, against the save of `webserver_task` and a second reset? | yes, when no form or other reset met it |
| `web_lostsave` | is every confirmed form saved? | no: `SAVE_CFG` is cleared after the save (`webserver.cpp:549`) |
| `ctrl_main` | are confirmed forms taken up, is a loss noticed, does the device get online, with a second or third form that names a dead broker? | yes, but for a network form `testWifi` swallows |
| `ctrl_swallowed` | is every network form used? | no (`mqtt_task.cpp:232`) |
| `ctrl_session` | is the session one with the broker of the service page? | no: `connect` keeps an open session (`mqtt_task.cpp:386`) |
| `mode_presses` | presses of any length from the boot on: are mode, server and access point one, resets only for a button held through both periods, presses never unnoticed? | yes, but for the races the properties name |
| `tcp_main` | is nothing used that was freed, data given in order, every client deleted? | yes, but for the races the properties name |
| `http_main` | is a request handled once, its answer sent in order and to the end? | yes while every call finds memory; with one that does not, content is lost, but nothing is sent twice and neither side waits for ever |
| `forms_main` | is what was typed stored, what was sent as a body read, and what is shown confirmed without a change? | yes, but for the characters that are not sent or shown as they are, texts of more bytes than characters, and fields too narrow |
| `telemetry_main` | do LED, periods, relays, silence and the broker's knowledge agree with what was asked? | yes in the end, but for commands without room and a command that was written over |
| `telemetry_reported` | does "transmitir" ON mean that it transmits? | no: every login stops the timer (`mqtt_task.cpp:392`) |

Properties with an exception state it over a history variable that is set
exactly when the named race happens. `web_lostsave` and `ctrl_swallowed` check
the same statement without it; of the other exceptions each was seen to be needed
by dropping it. For `disturbed` the trace is a form handled in the second between
`config_setdefault` and `ESP.restart` (`uinterface.cpp:131`), which is saved and
survives the restart. For `raced` see `main.cpp:27-28`, where the callback's stop
lands after the start of a new press, and `main.cpp:36-42`, where `timerstate = 1`
overwrites the interrupt's 0 and a press of one second resets the device. For
`tapped`, a button released and pressed again when the long period has just run
out is found held by `main.cpp:50`. In `AsyncTcp`: a reset (RST) frees the control block and marks no slot; a FIN
between the reading of `_pcb` and of `_closed_slot` lets a call through with
both, and one between the two steps of `_close` finds no client; a slot marked free is given to the next client while a call still carries
it; a client accepted with no slot free makes its calls unchecked; an event
posted between the receive and the send of `_remove_events_with_arg` overtakes
those it puts back.

An exception is a hazard the code is exposed to: a property does not catch it, it
says that nothing else leads there. The notes of the hazards in `PROJECT.json` say
which are of this kind.

The type invariants of the four library and telemetry modules are checked
together with the property that needs them most (`SlotsInv`, `FinishedInv`,
`BodyInv`, `LedInv`).

### Seen while modelling

What the code does and no doc denies is no finding; these are worth knowing, and
the models contain them:

* `OVERWRITE_CALIBRATION` is not among the bits `webserver_task` waits for
  (`webserver.cpp:502`); a save under way takes `SAVE_CFG`, and the overwrite
  waits for the next flag of any kind; no property says when it is served.
* A form refused for its address has already written its other fields to `cfg`,
  and the next save of another form writes them to flash (`webserver.cpp:394`).
* Two tasks that enter and leave the mode may leave the server running without
  it: the flags are posted apart from `isServerActive` (`mqtt_task.cpp:267`).
* A save that falls between the `memset` and the fields of `setdefault` puts an
  empty configuration into flash, until the reset's own commit
  (`config-mng.cpp:31`).
* A name or password with `& + % #` reaches the access point's form as another
  text (`main.html:346`), and a `#` lets the handler follow a null pointer
  (`webserver.cpp:295`), as a missing parameter does in `/scanWifi`,
  `/rebootbtnfunction` and `/resetbtnfunction` (`webserver.cpp:322`, `:477`,
  `:488`). Spaces at the end of the password are lost with the url. Backslashes
  and quotes change or break the JSON of the others (`main.html:504`): `p\nq`
  typed with a backslash is stored with a line end, which the page then does not
  show, so that confirming it unchanged changes the setting.
* The pages count characters and `strcpy` copies bytes (`webserver.cpp:297`,
  `:378`): a text of accented characters within its limit runs over the field
  behind it.
* The time form checks the port of the service form that stands beside it, and a
  field `#host` that does not exist (`main.html:554`): it is not sent when that
  port is empty, and sent when its own host is.
* A client id longer than its field is read on into the user name
  (`webserver.cpp:424`), and so is a network's name of 32 bytes into its password;
  a port beyond 65535, and an interval beyond 32 bits, is stored as 0 and
  answered "ok".
* A period beyond 71 minutes wraps (`mqtt_task.cpp:255`); one of zero fails an
  assertion of FreeRTOS at every login.
* A connection without a request is given up after three seconds; one whose
  response is done is never closed by the device (`WebResponses.cpp:178`
  announces it, the peer has to do it).
* A client for which no closed slot is left is accepted all the same, with
  `_closed_slot` at -1, which the calls take for a connection that is open
  (`AsyncTCP.cpp:821`, `:377`): nothing stops one after a FIN.
* When bind is refused, the server keeps a pointer to a closed control block
  (`AsyncTCP.cpp:1286`): it is not started again, and `end()` uses it.
* A FIN after `_close` took `tcp_arg` away and before it took `tcp_recv` calls
  `_s_lwip_fin` for a null client (`AsyncTCP.cpp:283`, `:803`).
* A write that finds no memory loses the content that was cut for it; the
  response counts it as sent and ends (`WebResponses.cpp:229`).
* The mode LED stays dark after `testWifi` brought the link back, and lit for
  ever when the session is lost after settings without a broker were copied over
  the ones in use: every iteration then ends at `mqtt_task.cpp:379` or `:405`,
  before `:433` turns it off.
* A tap just when the long period of an earlier press runs out resets the device
  (`main.cpp:50`).
* Settings without a broker, copied while a session is open, do not end it; it
  keeps the periods it was given (`mqtt_task.cpp:375`).
* `subscribe` and the timer task's `publish` put their packets into one buffer
  (`mqtt_task.cpp:387`, `:140`). A subscription lost in this way is made again
  only with the next session.

### Bounds

* `Forms`: 2 or 3. The races need one form under way and one more to be
  confirmed, and `ctrl_session` and `ctrl_swallowed` a first one to connect with.
  With resets, 1: the second form would only repeat `web_save` after a reset.
* `Edited`: sections that differ in what they raise. `"ap"` raises `SAVE_CFG`
  only, `"cal"` the overwrite besides.
* `MaxTries`: 2 instead of 30. One poll that goes on and one that gives up.
* `Drops`: 1 lost link or session. Every point of the loop sees it.
* `Networks`, `Brokers`: in `ctrl_main` the second or the third form names no
  broker that answers, so that a login fails and a later form repairs it, or a
  session is lost with dead settings in place.
* `Presses`: 3. A press, one that meets its callback, and one that meets the
  mode the first two left. `QueueLengths`: 10 as in the build, and 2 to overflow.
* `AsyncTcp`: two connections at two addresses, so that an address and a slot can
  be given out again; `Slots` 1 instead of 16, so that the second client gets
  none, or the one of the first; `QueueLength` 3 instead of 256, so that it runs
  out; `Traffic` 2 segments, acknowledgements or polls, so that
  data can be out of order.
* `HttpExchange`: a head of 2 units and a page of 3, with windows of 1, 2, 4, 5
  and 6: less than a head, exactly a head, part of the page, exactly all, more
  than all. `Failures`: one call without memory, at any moment.
* `Forms`: `Size` 3 for the id and the name, 7 for other texts, instead of 16 to
  64, `JsonRoom` 8 instead of 512, `BufferSize` 3 instead of 1460, `Widest` 70000
  instead of 2147483647, with texts and numbers on both sides of each.
* `Telemetry`: `QueueLength` 2 instead of 10; each budget of `SomeBudgets` lets a
  few things happen that meet in one place: LED changes, a login against LED
  changes, commands against a login, two calibrations against a publication (one of three
  lines goes through one point only), a loss and a second login, settings without
  a broker against a session.

No state constraint is used. Deadlock is checked where the system never stops:
in all runs of `WebServer`, `CtrlTask` and `ConfigMode`. It is not in the
others: a form or an exchange ends, a budget or the traffic is spent, and
`AsyncTcp` stops in a state its `Stuck` describes, the queue full and its only
reader waiting for room in it.

### Fairness

* `WF(WebTask)`, `WF(ctrl_task)`, `WF(setup)`, `WF(Daemon)`, `WF(CtrlTask)`,
  `WF(Interrupt)`: the scheduler runs every ready task, and each wait inside them
  (a scan, the delays, `testWifi`, `connect`) ends. The event wait of
  `webserver_task` is a guard, not a delay.
* `WF(Handler)`: a handler that was entered returns, with a yes or a no.
* `WF(Associate)`: a driver that is trying reaches an access point that answers.
* `Telemetry`: `WF` of what either task has begun, `SF(Serve)` because the timer
  task takes a command between any two callbacks, `SF(Expire("ping"))` because a
  timer that runs expires again and again.
* `AsyncTcp`: `WF` of the lwIP thread's post and its service of calls, and of the
  task. Nothing of the peer.
* `HttpExchange`: `WF(Segment)`, since a callback that was entered returns;
  `SF(OnAck)`, `SF(OnPoll)` and `SF(Disconnected)`, since the task takes every
  event in turn though others keep coming; `WF(RxTimeout)`, the poll that looks
  at the clock; `WF(PeerAcks)`, a peer that acknowledges what it got while the
  connection is open.

Nothing is assumed of those who submit forms, press the button, cut the power,
lose a link or send commands. In `ctrl_main` `AutoReconnect` is TRUE: the driver
tries again after a loss, as the Arduino core does unless told otherwise.
`OnlineAgain` needs it: without a broker configured every iteration ends at the
`continue` of `mqtt_task.cpp:379`, before the loop looks at the WiFi status, so
with FALSE a link lost then is never asked for again. The safety properties are
proved for both values.

## 4. Proofs

For every value of the constants allowed by the assumptions of the modules.

* `WebServerProofs!TypeCorrect`: `Spec => []TypeOK`.
* `WebServerProofs!ConfirmedStaysSaved`: `Spec => []ConfirmedIsSaved`. The
  property speaks of `SAVE_CFG` and flash only, and is not inductive: what is in
  flash came from the RAM image, and that from `cfg`. The invariant follows the
  content along this way. `CfgIsNewest`: what was confirmed is in `cfg`.
  `RomFollows`: it is in the image from the copy on, or whenever the flag is
  down. `FlashFollows`: the same of flash from the commit on. `SaveFlagStays`
  is why the flag of a snapshot can be relied on until the save ends: nobody
  else clears it. `FormsBound` and `ResetIsAlone` say that a new form is newer
  than anything stored, and that a reset no form met has nothing to keep.
* `WebServerProofs!ResetRestoresFactory`: `Spec => UndisturbedResetRestoresFactory`.
  `ResetInv` follows the shipped settings from `cfg` to the image to flash as
  the reset goes (`FactoryComes`), for one reset at a time (`ResetIsSingle`);
  what `webserver_task` copies or commits meanwhile is the same, and its
  overwrite changes nothing once `cfg.cal` is the factory calibration
  (`CalFollows`).
* `WebServerProofs!OverwriteStaysAsAsked`: `Spec => OverwritesAsAsked`. As
  long as the flag is up or in the snapshot, `cfg` has what the form that raised
  it asked for or what a later one wrote (`AskedIsInUse`), since a form no reset
  meets has its section of `cfg` for itself (`FormIsAlone`).
* `WebServerProofs!PromiseKept`: `Spec => PromiseIsKept`, that is, `WebServer`
  implements `DurableSettings`. Initial states map to initial states
  (`InitRefines`), and every step to a step of the promise or to a stutter
  (`NextRefines`): `SignalRefines` to `Tell`, `BootRefines` to `Restart`,
  `ResetRefines` to `Reset` or `ResetGoesOn`, and all the others are `Quiet`,
  which `QuietRefines` maps to `Keep` or to nothing. Beyond the invariant above,
  which makes what is called settled so (`SettledIsKept`), a step of `Keep` needs
  that nothing goes backwards, and a restart that nothing is lost: `RInv` adds
  `Ordered` (flash, the image and `cfg` are never out of order outside a reset),
  `Versions` (after the first boot `config_load` finds an image of its own
  version) and `FormIsNew` (the form being handled is newer than any confirmed).
* `CtrlTaskProofs!TypeCorrect`: `Spec => []TypeOK`.
* `CtrlTaskProofs!FormsStayTakenUp`: `Spec => []FormsAreTakenUp`. A stale
  snapshot, a torn copy and every `continue` are harmless to it because a flag
  is raised after `cfg` is complete. The invariant adds `CfgUpToDate` (`cfg`
  never falls behind what was confirmed), `SignalledBound`, and `TestUpToDate`:
  while `testWifi` waits, a target that is obsolete has its flag up, which is
  why success may clear `CONNECT_WIFI`.
* `ConfigModeProofs!TypeCorrect`: `Spec => []TypeOK`, for any room in the
  timer's queue; `PostLatest` says what a post does to a full one and to another.
* `ConfigModeProofs!ModeStaysServed`: `Spec => []ModeIsServed`. `Called` is what
  the server will be once the flags that are up are served. Outside an enter
  or an exit it agrees with `isServerActive` and with the access point
  (`ModeAgrees`); within one the invariant says who has done what:
  `EnteringIsNotCalled`, `LeavingIsCalled`, and `SetupIsUnserved` for the time
  before the access point is configured. Without an overlap the flags are never
  both up (`OneFlag`). The delicate case is two exits at once: `ctrl_task` in the
  middle of one cannot be overtaken by a new toggle, since the timer needs a
  second to expire again.
* `ConfigModeProofs!ResetStaysLong` and `PressStaysTimed`: `Spec =>
  []ResetNeedsLongPress` and `Spec => []PressIsTimed`. Commands take effect only
  after the callback, so the invariant speaks of the last command in the queue:
  it decides what the timer does once the queue is empty. After "long"
  no "short" can be last unless an interrupt posted it, which then also clears
  `timerstate` (`LongComes`); a "stop" is last only if the button was seen
  released or the reset is decided (`StopAfterRelease`, `PressRuns`). `HeldInv`
  counts the periods for which the button was held: the short one when its expiry
  is answered (`HeldFirst`), both when the second half of the callback looks at
  the level (`HeldSecond`), unless that half answers a press that met the first.

* `TelemetryProofs!TypeCorrect`: `Spec => []TypeOK`, from `TypeInv`, which adds
  what either task carries along at each of its points.
* `TelemetryProofs!LedShowsItsMode`: `Spec => []LedInv`. A command acts when the
  timer task is back from its callbacks, so the invariant speaks of the last
  command in the queue: `WillRun` says what the timer will do once the queue is
  empty, and `LedFollows` that this agrees with the mode but in the middle of an
  update, and the pin with the state but while one of the tasks is about to
  write it.
* `TelemetryProofs!PeriodMeantAlways`: `Spec => []PeriodIsMeant`. `PeriodFollows`
  says the same of the last change of each period (`WillHave`), from its command
  in the login on, `client.login` being what the session was opened with, whatever
  was copied to `scfg` after; `FailsForPeriod` that only a period of no ticks stops the
  scheduler. `TicksExact` is the arithmetic: for every period and unit whose
  milliseconds fit into a word, `period * sec * 1000` on 32 bits and
  `pdMS_TO_TICKS` give the ticks that are meant, and not 0.
* `TelemetryProofs!SilenceAlways` and `RelayAlways`: `Spec => []SilenceIsKept`
  and `Spec => []RelayIsAsAsked`, by `SilenceFollows` and `RelayFollows`, which
  say between which two commands, and at which point of a message, the timer or
  the relay is allowed to be ahead of what is reported.
* `AsyncTcpProofs!SlotsStayAccounted`: `Spec => []SlotsInv`. `SafetyInv` has the
  types with what the task's registers are at each point; `Links`, the block's
  pointer to its client and the client's to its block, which part at a FIN, a
  reset and a close in different orders; `EventsFit`, what an event that waits
  says of its connection; and `SlotsOwned`: a slot is marked in use exactly when
  one client has it.
* `AsyncTcpProofs!FreedStaysLeftAlone`: `Spec => []FreedBlocksAreLeftAlone`. The
  property only notes that it happened; `FreedFollows` says why it does not. A
  client whose block is closed was reset or is about to be discarded
  (`BlocksClosed`), and a call under way still has its client's block and slot,
  or finds the slot marked (`CallChecked`), unless one of the races the property
  names came between. `ServerLeftAlone` adds the listener's block: a bind is only
  refused while a connection of before is there.
* `AsyncTcpProofs!DeletedStaysLeftAlone`: `Spec =>
  []DeletedClientsAreLeftAlone`. What keeps the task from an event of a deleted
  client is the order of the queue: the end of a connection is its last event,
  and a close puts a CLEAR in front, which removes the others before the next is
  handled. `EventsOrdered` says so (`Unique`, `ClearsFirst`, `EndIsLast`), for a
  queue that the task turns over while lwIP posts to it: `Ahead` is the order in
  which events will be taken, and a step keeps it but for what `Overtakes`. Then
  `EventsCurrent`: an event of a client is of its present connection, or about to
  be removed, or excused; and `ClosingFollows`, what has been done at each point
  of a close.
* `AsyncTcpProofs!DataStaysInOrder`: `Spec => []DataInOrderUnlessOvertaken`,
  with the same order. `DataOrdered`: what was delivered are the first segments,
  what waits has higher numbers, in order. That there is no gap needs
  `ClientFollows`: all that was received and not delivered waits, unless the
  client is being closed, and the client's handlers are set or its ACCEPT comes
  first.
* `HttpExchangeProofs!ExchangeAlways`: `Spec => []ExchangeInv`, the inductive
  invariant the other three follow from. `RequestInv` says that what is left of
  the stream is what the parser's state says (`LinesFit`, `BodyFits`): the line it
  has begun, what it holds of the segment, and what has not arrived are together
  one of the four texts that may remain, so that a line is found the same however
  it was cut. `HandlingFits` counts the handling. `ResponseInv` says that what is
  left of a response are its last units, whatever fails (`ResponseFits`); that
  they follow what the peer got, while nothing has failed (`ContentFits`); and
  that what was acknowledged, what is on its way to be and what is open are
  together what was handed to TCP (`AcksFit`), with the acknowledgements that
  wait added up by a witness and not by a recursive sum.
* `HttpExchangeProofs!PeerAlwaysGetsInOrder`, `FinishedAlways` and
  `CompleteAlwaysHandled`: `Spec => []PeerGetsInOrder`, `[]FinishedInv` (with the
  types) and `[]CompleteIsHandled`. The first two speak of exchanges in which no
  call fails, and only such a response is proved to be whole when it counts as
  finished; it may count as acknowledged as many bytes early as the interim
  response has.
* `FormsProofs!FormsInductive`: `Spec => []IInv`, from which the six properties
  of `Forms` follow: `TypedIsStored` (`[]StoredAsTyped`), `RefusedMeansMalformed`
  (`[]RefusedIsMalformed`), `AgainKeeps` (`[]ConfirmedAgainIsKept`),
  `BodyReading` (`[]BodyInv`), `FieldsAreRead` (`[]BodyIsRead`) and
  `FilesReachTheHandler` (`[]FilesAreGivenOn`). None of them is inductive: they
  speak of the answer, and what is answered depends on every step before. `IInv`
  has four parts beside the three properties of answers:
  * `ReadInv`, where the request is. In the head, `HeadOK` says which of the
    url's parameters were read and what is left of its text. In the body,
    `PostReads` says the same of fields that are encoded as a url is, and
    `Reads` of a multipart body: the parser is at one of seven stages (`Opens`,
    `Between`, `Feeds`, `Heads`, `Items`, `Finished`, `Failed`), each with what
    is in the parser and the text that remains. The delicate one is `Items`: `j`
    bytes of the item and then `m` that may be of a boundary were read
    (`Matches`), of which the first `j` are in the value, or in the buffer and
    the pieces given on (`ItemData`). When a byte is not the next of a boundary
    the `m` become data and it is looked at anew (`NoBoundaryStep`), and when
    `m` reaches the whole of a boundary, `j` is the whole of the item
    (`WholeMatch`), because the item has no boundary inside.
  * `CfgOK`: every setting is such as a page can show and take back. A number is
    one the field holds, an address is four bytes, a text has no key inside and
    leaves room for its end in its field, but for an id and a network's name that
    filled it, which end in the field behind.
  * `AgainInv`: until the second answer the settings are those the page was
    filled from, and what it sends is what it showed.
  * `AnswerInv`: who answered, and that a password confirmed with "ok" was JSON.
* `BodyParserProofs` and the first half of `FormsProofs` are the lemmas on texts
  this rests on: `EncodeDecode` (`urlDecode` undoes `encodeURIComponent`, for
  every text), `EscapeDecode`, `FlattenAt` and `IndexOfConcat` (a text of pieces,
  and the first of a character in it), `JsonQuery` and `MemberOf` (each member of
  a form's JSON comes back by its key), `APQuery` and `APGiven` (the same of the
  access point's url), `CanonicalIs`, `ShownAddress` (`stringToIp` of what a user
  means by an address, and of what `ipToString` shows). They are inductions over
  a text. The library's theorems for that take an operator as parameter, which
  none of the provers can instantiate; `Inductive` and `LeastOf` say it of a set
  of numbers, from `NatLessThanWellFounded`, and a function defined by recursion
  or a fold is first shown to be what its equations say (`DecodeBy`,
  `FlattenBy`).

The assumptions are those the modules name, which TLC evaluates on every run. Of
`Telemetry`: a queue with room for one command (`QueueAssumption`), calibrations
of integers, budgets of any size with any settings, and that a torn topic is none
the device has subscribed to (`TornAssumption`). Of `AsyncTcp`: any number of
connections, slots, segments and addresses, a queue with room for one event
(`TcpAssumption`), and no client at the null address (`AddressAssumption`). Of
`HttpExchange`: any requests, a head and a page of at least one unit, windows of
at least one, and any number of failing calls (`HttpAssumption`). Of `Forms`: any
set of visits as described above, whole numbers of any size written without the
characters that have a meaning, among them every byte that can be shown, any
sizes of the fields (`FormsAssumption`) into which the shipped texts fit
(`ShippedAssumption`); any boundary without a line end in it, a buffer
of at least one byte, any names of files (`BodyAssumption`).

TLC finds the inductive invariants true as well: in every state of the runs, but
for those of `AsyncTcp`, which it checks in all states of one connection and in
the first 140 000 of two, since they compare every event with every other. Only
model-checked are:

* all liveness, which, with `ENABLED`, is out of this prover's reach;
* `NothingIsDoubled`;
* the four properties the code violates.

## 5. Not modelled

* WebSocket, event source and the file editor of ESPAsyncWebServer: no code of
  the firmware registers them. Templates, chunked, stream and callback
  responses, rewrites, regular expressions in routes and digest authentication,
  which it does not use either; whether a login is right is an input of
  `HttpExchange`.
* Outgoing connections, name resolution and socket options of AsyncTCP: the
  firmware opens none through it.
* Two connections above TCP: `HttpExchange` has one, since requests share
  nothing but the handlers' globals, which `WebServer` models with one request at
  a time, as the one `async_tcp` task handles them.
* The list of networks: `jsonwifis` is rebuilt by `webserver_task` while the
  handler of `/scanWifi` may copy it (`webserver.cpp:526`). What a `String` read
  during its own reallocation gives is beyond a model of this kind.
* `getadcValue` (64 readings and their mean), the time, logging, the layout of
  pages and texts, the login page.
* `config_load`'s two checks of the layout, which only log and wait
  (`config-mng.cpp:87`); losses of scheduling (stack overflow, watchdog) and
  flash wear.
* The scripts under `firmware/test` and the hardware.

## 6. Plan

Done: the store, the web server, the connection task, the mode with the boot,
telemetry and LEDs, the forms, the two libraries; an abstract specification of
the settings and the proof that the web server implements it; proofs of the
safety invariants but `NothingIsDoubled`. Left, in this order:

1. `NothingIsDoubled` for every instance: what is left of a response are units
   later than all that was handed to TCP, whatever failed.
2. `Bridge`: `WebServer`, `CtrlTask` and `ConfigMode` over the one event group,
   with an abstract mode ("either both server and access point or neither").
3. An abstract byte stream that `HttpExchange` implements for the response, and
   `AsyncTcp` for the segments.
4. The list of networks, with a string as pointer, length and content.
