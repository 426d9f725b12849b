----------------------------- MODULE ConfigMode -----------------------------
(***************************************************************************)
(* Configuration mode: the push button that switches it on and off         *)
(* (firmware/src/main.cpp), the two functions that enter and leave it      *)
(* (mqtt_task.cpp) and the flags by which webserver_task follows.          *)
(*                                                                         *)
(* The interrupt of the button only posts commands for the timer tmswitch. *)
(* The FreeRTOS timer task takes these commands, and runs switch_callback  *)
(* when tmswitch expires: after a second the level of the button tells a   *)
(* short press (toggle the mode) from a long one (wait four seconds more,  *)
(* then factory reset).  The callback posts to the same queue, so what it  *)
(* posts takes effect only after it has returned.  ctrl_task leaves the    *)
(* mode on its own whenever it has logged in to the broker.                *)
(*                                                                         *)
(* The device boots in parts: setup() lets the interrupt in before it      *)
(* creates the timer, and creates the tasks; ctrl_task then configures the *)
(* access point while the switch may already be at work.                   *)
(***************************************************************************)
EXTENDS Naturals, Sequences

CONSTANTS
  Presses,      \* bound: how often the button is pressed in a behaviour
  QueueLengths  \* the room other timers may leave in the timer command queue
                \* (10 in the build, if they leave all of it)

ASSUME PressesAssumption == Presses \in Nat
ASSUME QueueLengthsAssumption == QueueLengths \subseteq Nat \ {0}

VARIABLES
  boot,            \* how far setup() is
  room,            \* what the timer command queue holds, in this behaviour
  level,           \* the button's pin
  isr,             \* the point of Ext_INT1_ISR the interrupt is at
  cmds,            \* the timer command queue
  tmswitch,        \* the timer: dormant, or the period it runs with
  timerstate,      \* which expiry the callback takes this one for
  daemon,          \* the point of its loop or of switch_callback the timer
                   \* task is at
  fired,           \* the period of the expiry being handled
  isServerActive,  \* mqtt_task.cpp's: configuration mode is on
  wifiMode,
  eventGroup,      \* the two flags of webserver.cpp's group
  ctrl,            \* the point of the access point's set up or of
                   \* ctrl_exitConfigMode ctrl_task is at
  web, ctrlflags,  \* webserver_task, and its snapshot of the flags
  listening,       \* the HTTP server is up, and the state LED blinks
  presses,         \* how often the button was pressed
  raced,           \* history: an interrupt between what switch_callback reads
                   \* and what it does about it, a press held since before the
                   \* last restart, or a command the queue had no room for
  crossed,         \* history: a start and a stop of the server, or a start
                   \* and the access point's set up, overlapped
  held,            \* history: the seconds of tmswitch's periods that ran out
                   \* while the present press was held, up to LongPress
  tapped           \* history: the present press began with an expiry that was
                   \* not its own

button == <<level, isr, presses>>
timer == <<cmds, tmswitch, timerstate, daemon, fired>>
mode == <<isServerActive, wifiMode, eventGroup>>
server == <<web, ctrlflags, listening>>
press == <<held, tapped>>
history == <<raced, crossed, press>>
vars == <<boot, room, button, timer, mode, ctrl, server, history>>

ServerFlags == {"START_SERVER", "STOP_SERVER"}
Commands == {"short", "start", "long", "stop"}
DaemonPoints == {"idle", "drain", "expired", "first", "postshortstop",
                 "postlong", "setstate", "toggle", "delay", "start", "stop",
                 "station", "inactive", "postlongstop", "second", "reset"}

Period == [short |-> 1, long |-> 4]
LongPress == Period.short + Period.long

TypeOK ==
  /\ boot \in {"attached", "failed", "created", "run"}
  /\ room \in QueueLengths
  /\ level \in {"LOW", "HIGH"}
  /\ isr \in {"idle", "period", "start", "state"}
  /\ cmds \in Seq(Commands) /\ Len(cmds) <= room
  /\ tmswitch \in {"dormant", "short", "long"}
  /\ timerstate \in {0, 1}
  /\ daemon \in DaemonPoints
  /\ fired \in {"short", "long"}
  /\ isServerActive \in BOOLEAN
  /\ wifiMode \in {"OFF", "AP", "STA", "AP_STA"}
  /\ eventGroup \subseteq ServerFlags
  /\ ctrl \in {"none", "softap", "setup", "idle", "station", "inactive"}
  /\ web \in {"none", "wait", "start", "stop", "busy"}
  /\ ctrlflags \subseteq ServerFlags
  /\ listening \in BOOLEAN
  /\ presses \in 0..Presses
  /\ raced \in BOOLEAN /\ crossed \in BOOLEAN
  /\ held \in 0..LongPress /\ tapped \in BOOLEAN

\* The interrupt is attached, and the settings are being loaded.
Init ==
  /\ boot = "attached" /\ room \in QueueLengths
  /\ level = "LOW" /\ isr = "idle" /\ presses = 0
  /\ cmds = <<>> /\ tmswitch = "dormant" /\ timerstate = 0
  /\ daemon = "idle" /\ fired = "short"
  /\ isServerActive = FALSE /\ wifiMode = "OFF" /\ eventGroup = {}
  /\ ctrl = "none"
  /\ web = "none" /\ ctrlflags = {} /\ listening = FALSE
  /\ raced = FALSE /\ crossed = FALSE /\ held = 0 /\ tapped = FALSE

\* Mutant of Post: the last place is given twice.
PostOverfull(command, race) ==
  /\ cmds' = IF Len(cmds) <= room THEN Append(cmds, command) ELSE cmds
  /\ raced' = (raced \/ race \/ Len(cmds) > room)

\* A command for the timer is dropped when the queue is full: no caller looks
\* at the result.
Post(command, race) ==
  /\ cmds' = IF Len(cmds) < room THEN Append(cmds, command) ELSE cmds
  /\ raced' = (raced \/ race \/ Len(cmds) = room)

\* All of RAM is lost, the button stays as it is.
Restart ==
  /\ boot' = "attached"
  /\ cmds' = <<>> /\ tmswitch' = "dormant" /\ timerstate' = 0
  /\ daemon' = "idle" /\ fired' = "short"
  /\ isServerActive' = FALSE /\ wifiMode' = "OFF" /\ eventGroup' = {}
  /\ ctrl' = "none"
  /\ web' = "none" /\ ctrlflags' = {} /\ listening' = FALSE
  /\ raced' = (level = "HIGH") /\ crossed' = FALSE /\ held' = 0 /\ tapped' = FALSE
  /\ isr' = "idle"
  /\ UNCHANGED <<room, level, presses>>

-----------------------------------------------------------------------------
(* setup(), after the interrupt was attached.  The interrupt runs on its   *)
(* core.                                                                   *)

Setup(from, to) ==
  /\ boot = from /\ isr = "idle"
  /\ boot' = to
  /\ UNCHANGED <<room, button, timer, mode, history>>

\* The settings are loaded; without a file system setup() gives up.
MountFails == Setup("attached", "failed") /\ UNCHANGED <<ctrl, server>>

\* Somebody pulls the plug of a device that did not come up.
PowerCycle == boot = "failed" /\ Restart

CreateTimer == Setup("attached", "created") /\ UNCHANGED <<ctrl, server>>

CreateTasks ==
  /\ Setup("created", "run")
  /\ ctrl' = "softap" /\ web' = "wait"
  /\ UNCHANGED <<ctrlflags, listening>>

-----------------------------------------------------------------------------
(* The button.                                                             *)

\* The points of switch_callback at which it has decided, but not yet posted
\* its stop or stored its state.
Deciding == daemon \in {"postshortstop", "postlongstop", "setstate"}

\* An expiry is being answered: a press that begins now is taken for the one
\* the period was started for.
Answering == daemon \in {"expired", "first", "postlong", "postlongstop", "second", "reset"}

\* A rising edge runs Ext_INT1_ISR, on the other core than the timer task: it
\* starts a period of one second, whether the timer runs or not, ...
Press ==
  /\ level = "LOW" /\ isr = "idle" /\ presses < Presses
  /\ level' = "HIGH"
  /\ isr' = "period"
  /\ presses' = presses + 1
  /\ raced' = (raced \/ Deciding)
  /\ held' = 0 /\ tapped' = Answering
  /\ UNCHANGED <<boot, room, timer, mode, ctrl, server, crossed>>

Isr(from, to) ==
  /\ isr = from /\ boot \in {"created", "run"}
  /\ isr' = to
  /\ UNCHANGED <<boot, room, level, presses, tmswitch, daemon, fired, mode, ctrl, server, crossed,
                 press>>

\* Without a timer the call is refused by an assertion.
PressMeetsNoTimer ==
  /\ isr = "period" /\ boot \in {"attached", "failed"}
  /\ Restart

PressPostsPeriod ==
  /\ Isr("period", "start")
  /\ Post("short", Deciding) /\ UNCHANGED timerstate

PressPostsStart ==
  /\ Isr("start", "state")
  /\ Post("start", Deciding) /\ UNCHANGED timerstate

\* Mutant of PressSetsState: the interrupt leaves timerstate alone.
PressKeepsState ==
  /\ Isr("state", "idle")
  /\ raced' = (raced \/ Deciding) /\ UNCHANGED <<cmds, timerstate>>

\* ... and makes the next expiry the first of a press.
PressSetsState ==
  /\ Isr("state", "idle")
  /\ timerstate' = 0
  /\ raced' = (raced \/ Deciding) /\ UNCHANGED cmds

Release ==
  /\ level = "HIGH"
  /\ level' = "LOW"
  /\ UNCHANGED <<boot, room, isr, presses, timer, mode, ctrl, server, history>>

-----------------------------------------------------------------------------
(* The timer task.                                                         *)

daemonOnly == UNCHANGED <<boot, room, button, mode, ctrl, server, crossed>>

\* One command: xTimerChangePeriod also starts a dormant timer.
ProcessCommand ==
  /\ daemon \in {"idle", "drain"} /\ cmds # <<>>
  /\ tmswitch' = CASE Head(cmds) = "short" -> "short"
                   [] Head(cmds) = "long"  -> "long"
                   [] Head(cmds) = "stop"  -> "dormant"
                   [] Head(cmds) = "start" -> IF tmswitch = "dormant" THEN "short"
                                                                      ELSE tmswitch
  /\ cmds' = Tail(cmds)
  /\ daemonOnly /\ UNCHANGED <<timerstate, daemon, fired, raced, press>>

\* After a callback the queue is emptied before the next expiry is looked at.
Drained ==
  /\ daemon = "drain" /\ cmds = <<>>
  /\ daemon' = "idle"
  /\ daemonOnly /\ UNCHANGED <<cmds, tmswitch, timerstate, fired, raced, press>>

\* tmswitch expires and reloads.  Neither the interrupt nor the rest of
\* setup() nor the exit of ctrl_task takes a second: one that began is over
\* before an expiry that follows it, and may begin during the callback.  A
\* press whose commands still wait began within the period that ends here.
Expire ==
  /\ daemon = "idle" /\ tmswitch # "dormant" /\ isr = "idle"
  /\ boot = "run" /\ ctrl \notin {"station", "inactive"}
  /\ daemon' = "expired"
  /\ fired' = tmswitch
  /\ held' = IF level = "LOW" THEN held
             ELSE IF held + Period[tmswitch] < LongPress THEN held + Period[tmswitch]
             ELSE LongPress
  /\ tapped' = (tapped \/ cmds # <<>>)
  /\ daemonOnly /\ UNCHANGED <<cmds, tmswitch, timerstate, raced>>

Goto(from, to) ==
  /\ daemon = from
  /\ daemon' = to
  /\ daemonOnly /\ UNCHANGED <<tmswitch, fired, press>>

ReadState ==
  /\ Goto("expired", IF timerstate = 0 THEN "first" ELSE "postlongstop")
  /\ UNCHANGED <<cmds, timerstate, raced>>

ReadLevelFirst ==
  /\ Goto("first", IF level = "LOW" THEN "postshortstop" ELSE "postlong")
  /\ UNCHANGED <<cmds, timerstate, raced>>

\* Mutant of PostShortStop: the timer, which reloads itself, is not stopped.
PostNoStop ==
  /\ Goto("postshortstop", "toggle")
  /\ UNCHANGED <<cmds, timerstate, raced>>

PostShortStop ==
  /\ Goto("postshortstop", "toggle")
  /\ Post("stop", FALSE) /\ UNCHANGED timerstate

\* Mutant of PostLong: the timer is stopped instead of given its long period.
PostStopForLong ==
  /\ Goto("postlong", "setstate")
  /\ Post("stop", FALSE) /\ UNCHANGED timerstate

PostLong ==
  /\ Goto("postlong", "setstate")
  /\ Post("long", FALSE) /\ UNCHANGED timerstate

SetState ==
  /\ Goto("setstate", "drain")
  /\ timerstate' = 1 /\ UNCHANGED <<cmds, raced>>

PostLongStop ==
  /\ Goto("postlongstop", "second")
  /\ Post("stop", FALSE) /\ UNCHANGED timerstate

ReadLevelSecond ==
  /\ Goto("second", IF level = "HIGH" THEN "reset" ELSE "drain")
  /\ UNCHANGED <<cmds, timerstate, raced>>

\* factoryreset() ends in a restart.
FactoryReset == daemon = "reset" /\ Restart

-----------------------------------------------------------------------------
(* The toggle: ctrl_enterConfigMode and ctrl_exitConfigMode in the timer   *)
(* task, ctrl_exitConfigMode in ctrl_task.                                 *)

modeOnly == UNCHANGED <<boot, room, button, cmds, tmswitch, timerstate, fired, ctrl, server, raced,
                       press>>

Toggle ==
  /\ daemon = "toggle"
  /\ IF isServerActive
       THEN daemon' = "stop" /\ UNCHANGED wifiMode
       ELSE daemon' = "delay" /\ wifiMode' = "AP_STA"
  /\ modeOnly /\ UNCHANGED <<isServerActive, eventGroup, crossed>>

\* The second ctrl_enterConfigMode waits for the access point.
DelayEnds ==
  /\ daemon = "delay"
  /\ daemon' = "start"
  /\ isServerActive' = TRUE
  /\ modeOnly /\ UNCHANGED <<wifiMode, eventGroup, crossed>>

\* A flag is posted; the other one still waits, or the other call is under way.
Overlap(flag, otherCaller) ==
  crossed' = (crossed \/ ServerFlags \ {flag} \subseteq eventGroup \/ otherCaller)

Start ==
  /\ daemon = "start"
  /\ daemon' = "drain"
  /\ eventGroup' = eventGroup \cup {"START_SERVER"}
  /\ Overlap("START_SERVER", ctrl # "idle" \/ ~isServerActive)
  /\ modeOnly /\ UNCHANGED <<isServerActive, wifiMode>>

Stop ==
  /\ daemon = "stop"
  /\ IF isServerActive
       THEN /\ daemon' = "station"
            /\ eventGroup' = eventGroup \cup {"STOP_SERVER"}
            /\ Overlap("STOP_SERVER", FALSE)
       ELSE /\ daemon' = "drain"
            /\ UNCHANGED <<eventGroup, crossed>>
  /\ modeOnly /\ UNCHANGED <<isServerActive, wifiMode>>

\* Mutant of Station: the access point stays up.
StationForgotten ==
  /\ daemon = "station"
  /\ daemon' = "inactive"
  /\ modeOnly /\ UNCHANGED <<wifiMode, isServerActive, eventGroup, crossed>>

Station ==
  /\ daemon = "station"
  /\ daemon' = "inactive"
  /\ wifiMode' = "STA"
  /\ modeOnly /\ UNCHANGED <<isServerActive, eventGroup, crossed>>

Inactive ==
  /\ daemon = "inactive"
  /\ daemon' = "drain"
  /\ isServerActive' = FALSE
  /\ modeOnly /\ UNCHANGED <<wifiMode, eventGroup, crossed>>

ctrlOnly == UNCHANGED <<boot, room, button, timer, server, raced, press>>

\* WiFi.softAP adds the access point to whatever the mode is.
SoftAP ==
  /\ ctrl = "softap"
  /\ ctrl' = "setup"
  /\ wifiMode' = IF wifiMode \in {"STA", "AP_STA"} THEN "AP_STA" ELSE "AP"
  /\ ctrlOnly /\ UNCHANGED <<isServerActive, eventGroup, crossed>>

\* Configured, the access point is taken down, by then perhaps from under the
\* mode the switch has entered.
SetupStation ==
  /\ ctrl = "setup"
  /\ ctrl' = "idle"
  /\ wifiMode' = "STA"
  /\ crossed' = (crossed \/ isServerActive \/ daemon \in {"delay", "start"})
  /\ ctrlOnly /\ UNCHANGED <<isServerActive, eventGroup>>

\* ctrl_task has logged in to the broker.
ExitStop ==
  /\ ctrl = "idle" /\ isServerActive
  /\ ctrl' = "station"
  /\ eventGroup' = eventGroup \cup {"STOP_SERVER"}
  /\ Overlap("STOP_SERVER", daemon = "start")
  /\ ctrlOnly /\ UNCHANGED <<isServerActive, wifiMode>>

ExitStation ==
  /\ ctrl = "station"
  /\ ctrl' = "inactive"
  /\ wifiMode' = "STA"
  /\ ctrlOnly /\ UNCHANGED <<isServerActive, eventGroup, crossed>>

ExitInactive ==
  /\ ctrl = "inactive"
  /\ ctrl' = "idle"
  /\ isServerActive' = FALSE
  /\ ctrlOnly /\ UNCHANGED <<wifiMode, eventGroup, crossed>>

-----------------------------------------------------------------------------
(* webserver_task: it may be busy with a scan or a save for some seconds.  *)

webOnly == UNCHANGED <<boot, room, button, timer, isServerActive, wifiMode, ctrl, history>>

AfterStart(f) == IF "STOP_SERVER" \in f THEN "stop" ELSE "wait"

WaitForFlags ==
  /\ web = "wait" /\ eventGroup # {}
  /\ ctrlflags' = eventGroup
  /\ web' = IF "START_SERVER" \in ctrlflags' THEN "start" ELSE AfterStart(ctrlflags')
  /\ webOnly /\ UNCHANGED <<eventGroup, listening>>

HandleStart ==
  /\ web = "start"
  /\ eventGroup' = eventGroup \ {"START_SERVER"}
  /\ listening' = TRUE
  /\ web' = AfterStart(ctrlflags)
  /\ webOnly /\ UNCHANGED ctrlflags

HandleStop ==
  /\ web = "stop"
  /\ eventGroup' = eventGroup \ {"STOP_SERVER"}
  /\ listening' = FALSE
  /\ web' = "wait"
  /\ webOnly /\ UNCHANGED ctrlflags

\* Woken by another flag, with neither of these two in its snapshot.
BeBusy ==
  /\ web = "wait" /\ eventGroup = {}
  /\ web' = "busy"
  /\ webOnly /\ UNCHANGED <<eventGroup, ctrlflags, listening>>

BusyEnds ==
  /\ web = "busy"
  /\ web' = "wait"
  /\ webOnly /\ UNCHANGED <<eventGroup, ctrlflags, listening>>

-----------------------------------------------------------------------------

Callback ==
  \/ ReadState
  \/ ReadLevelFirst \/ PostShortStop \/ PostLong \/ SetState
  \/ PostLongStop \/ ReadLevelSecond \/ FactoryReset
  \/ Toggle \/ DelayEnds \/ Start \/ Stop \/ Station \/ Inactive

Interrupt == PressMeetsNoTimer \/ PressPostsPeriod \/ PressPostsStart \/ PressSetsState

Daemon == ProcessCommand \/ Drained \/ Expire \/ Callback

CtrlTask == SoftAP \/ SetupStation \/ ExitStation \/ ExitInactive

setup == MountFails \/ CreateTimer \/ CreateTasks

WebTask == WaitForFlags \/ HandleStart \/ HandleStop \/ BusyEnds

Next ==
  \/ setup \/ PowerCycle
  \/ Press \/ Interrupt \/ Release
  \/ Daemon
  \/ ExitStop \/ CtrlTask
  \/ WebTask \/ BeBusy

Spec == Init /\ [][Next]_vars

\* The tasks are scheduled and every wait in them ends.  Nobody has to press
\* the button, and nothing but ctrl_task's login need leave the mode.
FairSpec ==
  /\ Spec
  /\ WF_vars(setup) /\ WF_vars(Interrupt) /\ WF_vars(Daemon) /\ WF_vars(CtrlTask) /\ WF_vars(WebTask)

-----------------------------------------------------------------------------
(* Correctness.                                                            *)

\* Nobody is in the middle of a change and webserver_task has taken all flags.
AtRest ==
  /\ boot = "run" /\ isr = "idle" /\ daemon = "idle" /\ ctrl = "idle" /\ web = "wait"
  /\ eventGroup = {}

\* Configuration mode is the web server and the access point together
\* (mqtt_task.h:19), once every request is served - unless a start and a stop
\* of the server overlapped, or the switch was faster than the access point's
\* set up (mqtt_task.cpp:318).
ModeIsServed ==
  AtRest /\ ~crossed =>
    listening = isServerActive /\ (wifiMode = "AP_STA") = isServerActive

\* Only a press that was held through both periods, five seconds, resets the
\* device: neither one that ended with the short period, nor two that together
\* last as long - unless the press began just when a period ran out that an
\* earlier one had started (main.cpp:27, 50 read the level after the expiry),
\* an interrupt came between the two statements that start the long period
\* (36-42), or a full queue dropped a command.
ResetNeedsLongPress == daemon = "reset" => held = LongPress \/ tapped \/ raced

\* While the button is held the timer runs: no press goes unnoticed - unless
\* the callback's stop was posted after the interrupt's start (main.cpp:27-28),
\* a command was dropped, or the press met a device that was not yet ready
\* for it and restarted (main.cpp:92).
PressIsTimed ==
  boot = "run" /\ daemon = "idle" /\ cmds = <<>> /\ isr = "idle" /\ level = "HIGH" =>
    tmswitch # "dormant" \/ raced

\* Every boot and every press ends: the device runs, the timer stops, the
\* callback returns, and the server's flags are taken - but for a device
\* without a file system, which only a press or the plug can restart.
PressEnds == []<>((AtRest /\ tmswitch = "dormant") \/ boot = "failed")

=============================================================================
