-------------------------- MODULE ConfigModeProofs --------------------------
(***************************************************************************)
(* Proofs about ConfigMode, for every number of presses and every room in  *)
(* the timer command queue.                                                *)
(***************************************************************************)
EXTENDS ConfigMode, SequenceTheorems, TLAPS

-----------------------------------------------------------------------------
(* Sequences of commands.                                                  *)

LatestOf(s) == s[Len(s)]

LEMMA TailLatest ==
  ASSUME NEW S, NEW s \in Seq(S), s # <<>>
  PROVE  /\ Tail(s) \in Seq(S) /\ Head(s) \in S /\ Len(Tail(s)) = Len(s) - 1
         /\ Tail(s) = <<>> => Head(s) = LatestOf(s)
         /\ Tail(s) # <<>> => LatestOf(Tail(s)) = LatestOf(s)
<1> DEFINE n == Len(s)
           m == Len(Tail(s))
<1>1. n \in Nat \ {0}
  BY EmptySeq
<1>2. /\ Tail(s) \in Seq(S) /\ Head(s) \in S /\ m = n - 1
      /\ \A i \in 1..m : Tail(s)[i] = s[i + 1]
  BY HeadTailProperties
<1>3. ASSUME Tail(s) = <<>> PROVE Head(s) = LatestOf(s)
  <2>1. m = 0
    BY <1>3, EmptySeq
  <2>2. n = 1
    <3> HIDE DEF n, m
    <3> QED
      BY <1>1, <1>2, <2>1
  <2>3. Head(s) = s[1]
    OBVIOUS
  <2> QED
    BY <2>2, <2>3 DEF LatestOf
<1>4. ASSUME Tail(s) # <<>> PROVE LatestOf(Tail(s)) = LatestOf(s)
  <2>1. m \in Nat \ {0}
    BY <1>2, <1>4, EmptySeq
  <2>2. m \in 1..m /\ m + 1 = n
    <3> HIDE DEF n, m
    <3> QED
      BY <1>1, <1>2, <2>1
  <2>3. Tail(s)[m] = s[n]
    <3> HIDE DEF n, m
    <3> QED
      BY <1>2, <2>2
  <2> QED
    BY <2>3 DEF LatestOf
<1> QED
  BY <1>2, <1>3, <1>4

LEMMA AppendLatest ==
  ASSUME NEW S, NEW s \in Seq(S), NEW c \in S
  PROVE  /\ Append(s, c) \in Seq(S) /\ Append(s, c) # <<>>
         /\ Len(Append(s, c)) = Len(s) + 1
         /\ LatestOf(Append(s, c)) = c
BY DEF LatestOf

\* Posting a command to the timer's queue makes it the last one, or is
\* recorded.
LEMMA PostLatest ==
  ASSUME TypeOK, NEW command \in Commands, NEW race \in BOOLEAN, Post(command, race),
         room' = room
  PROVE  /\ cmds' \in Seq(Commands) /\ Len(cmds') <= room' /\ raced' \in BOOLEAN
         /\ ~raced' => ~raced /\ ~race /\ cmds' # <<>> /\ LatestOf(cmds') = command
<1>1. cmds \in Seq(Commands) /\ Len(cmds) <= room /\ raced \in BOOLEAN /\ room \in Nat
  BY QueueLengthsAssumption DEF TypeOK
<1>2. /\ Append(cmds, command) \in Seq(Commands) /\ Append(cmds, command) # <<>>
      /\ Len(Append(cmds, command)) = Len(cmds) + 1
      /\ LatestOf(Append(cmds, command)) = command
  BY <1>1, AppendLatest
<1>3. Len(cmds) \in Nat
  BY <1>1, LenProperties
<1>4. CASE Len(cmds) < room
  <2>1. cmds' = Append(cmds, command) /\ raced' = (raced \/ race)
    BY <1>1, <1>3, <1>4 DEF Post
  <2>2. Len(cmds) + 1 <= room
    BY <1>1, <1>3, <1>4
  <2> QED
    BY <1>1, <1>2, <2>1, <2>2
<1>5. CASE ~(Len(cmds) < room)
  <2>1. cmds' = cmds /\ Len(cmds) = room
    BY <1>1, <1>3, <1>5 DEF Post
  <2>2. raced'
    BY <2>1 DEF Post
  <2> QED
    BY <1>1, <2>1, <2>2
<1> QED
  BY <1>4, <1>5

-----------------------------------------------------------------------------
(* Types.                                                                  *)

LEMMA InitType == Init => TypeOK
<1> SUFFICES ASSUME Init PROVE TypeOK
  OBVIOUS
<1>1. cmds \in Seq(Commands) /\ Len(cmds) = 0
  BY EmptySeq DEF Init
<1>2. room \in QueueLengths /\ room \in Nat
  BY QueueLengthsAssumption DEF Init
<1>3. Len(cmds) <= room
  BY <1>1, <1>2
<1>4. presses \in 0..Presses
  BY PressesAssumption DEF Init
<1>5. daemon \in DaemonPoints
  BY DEF Init, DaemonPoints
<1>6. /\ boot = "attached" /\ level = "LOW" /\ isr = "idle"
      /\ tmswitch = "dormant" /\ timerstate = 0 /\ fired = "short"
      /\ isServerActive = FALSE /\ wifiMode = "OFF" /\ eventGroup = {}
      /\ ctrl = "none" /\ web = "none" /\ ctrlflags = {} /\ listening = FALSE
      /\ raced = FALSE /\ crossed = FALSE /\ held = 0 /\ tapped = FALSE
  BY DEF Init
<1>7. held \in 0..LongPress
  BY DEF Init, LongPress, Period
<1> QED
  BY <1>1, <1>2, <1>3, <1>4, <1>5, <1>6, <1>7 DEF TypeOK

\* A restart is as typed as the start.
LEMMA RestartType == TypeOK /\ Restart => TypeOK'
<1> SUFFICES ASSUME TypeOK, Restart PROVE TypeOK'
  OBVIOUS
<1>1. cmds' \in Seq(Commands) /\ Len(cmds') = 0
  BY EmptySeq DEF Restart
<1>2. room' \in QueueLengths /\ room' \in Nat
  BY QueueLengthsAssumption DEF Restart, TypeOK
<1>3. Len(cmds') <= room'
  BY <1>1, <1>2
<1>4. level' \in {"LOW", "HIGH"} /\ presses' \in 0..Presses /\ raced' \in BOOLEAN
  BY DEF Restart, TypeOK
<1>5. daemon' \in DaemonPoints
  BY DEF Restart, DaemonPoints
<1>6. /\ boot' = "attached" /\ isr' = "idle"
      /\ tmswitch' = "dormant" /\ timerstate' = 0 /\ fired' = "short"
      /\ isServerActive' = FALSE /\ wifiMode' = "OFF" /\ eventGroup' = {}
      /\ ctrl' = "none" /\ web' = "none" /\ ctrlflags' = {} /\ listening' = FALSE
      /\ crossed' = FALSE /\ held' = 0 /\ tapped' = FALSE
  BY DEF Restart
<1>7. held' \in 0..LongPress'
  BY DEF Restart, LongPress, Period
<1> QED
  BY <1>1, <1>2, <1>3, <1>4, <1>5, <1>6, <1>7 DEF TypeOK

\* Every step keeps the types.
LEMMA NextType == TypeOK /\ [Next]_vars => TypeOK'
<1> SUFFICES ASSUME TypeOK, [Next]_vars PROVE TypeOK'
  OBVIOUS
<1> USE DEF TypeOK, button, timer, mode, server, history, press
<1>1. CASE setup
  BY <1>1 DEF setup, MountFails, CreateTimer, CreateTasks, Setup
<1>2. CASE PowerCycle
  BY <1>2, RestartType DEF PowerCycle
<1>3. CASE Press
  BY <1>3, PressesAssumption DEF Press, Answering, LongPress, Period
<1>4. CASE Interrupt
  <2>1. CASE PressMeetsNoTimer
    BY <2>1, RestartType DEF PressMeetsNoTimer
  <2>2. CASE PressPostsPeriod \/ PressPostsStart
    <3>1. PICK c \in {"short", "start"} : Post(c, Deciding) /\ room' = room
      BY <2>2 DEF PressPostsPeriod, PressPostsStart, Isr
    <3>2. Deciding \in BOOLEAN /\ c \in Commands
      BY DEF Deciding, Commands
    <3>3. cmds' \in Seq(Commands) /\ Len(cmds') <= room' /\ raced' \in BOOLEAN
      BY <3>1, <3>2, PostLatest
    <3> QED
      BY <2>2, <3>3 DEF PressPostsPeriod, PressPostsStart, Isr
  <2>3. CASE PressSetsState
    BY <2>3 DEF PressSetsState, Isr
  <2> QED
    BY <1>4, <2>1, <2>2, <2>3 DEF Interrupt
<1>5. CASE Release
  BY <1>5 DEF Release
<1>6. CASE ProcessCommand
  <2>1. cmds \in Seq(Commands) /\ cmds # <<>> /\ cmds' = Tail(cmds)
    BY <1>6 DEF ProcessCommand
  <2>2. cmds' \in Seq(Commands) /\ Head(cmds) \in Commands /\ Len(cmds') = Len(cmds) - 1
    BY <2>1, TailLatest
  <2>3. Len(cmds') <= room
    BY <2>1, <2>2, LenProperties, QueueLengthsAssumption
  <2>4. tmswitch' \in {"dormant", "short", "long"}
    BY <1>6, <2>2 DEF ProcessCommand, Commands
  <2>5. daemonOnly /\ UNCHANGED <<timerstate, daemon, fired, raced, press>>
    BY <1>6 DEF ProcessCommand
  <2> QED
    BY <2>2, <2>3, <2>4, <2>5 DEF daemonOnly
<1>7. CASE Drained \/ Expire
  <2>1. CASE Drained
    BY <2>1 DEF Drained, daemonOnly, DaemonPoints
  <2>2. CASE Expire
    <3>1. held' \in 0..LongPress /\ tapped' \in BOOLEAN
      BY <2>2 DEF Expire, LongPress, Period
    <3>2. fired' \in {"short", "long"} /\ daemon' \in DaemonPoints
      BY <2>2 DEF Expire, DaemonPoints
    <3>3. daemonOnly /\ UNCHANGED <<cmds, tmswitch, timerstate, raced>>
      BY <2>2 DEF Expire
    <3> QED
      BY <3>1, <3>2, <3>3 DEF daemonOnly
  <2> QED
    BY <1>7, <2>1, <2>2
<1>8. CASE ReadState \/ ReadLevelFirst \/ SetState \/ ReadLevelSecond
  BY <1>8 DEF ReadState, ReadLevelFirst, SetState, ReadLevelSecond, Goto, daemonOnly, DaemonPoints
<1>9. CASE PostShortStop \/ PostLong \/ PostLongStop
  <2>1. PICK c \in {"stop", "long"} : Post(c, FALSE) /\ room' = room
    BY <1>9 DEF PostShortStop, PostLong, PostLongStop, Goto, daemonOnly
  <2>2. cmds' \in Seq(Commands) /\ Len(cmds') <= room' /\ raced' \in BOOLEAN
    BY <2>1, PostLatest DEF Commands
  <2> QED
    BY <1>9, <2>2
    DEF PostShortStop, PostLong, PostLongStop, Goto, daemonOnly, DaemonPoints
<1>10. CASE FactoryReset
  BY <1>10, RestartType DEF FactoryReset
<1>11. CASE Toggle \/ DelayEnds \/ Station \/ Inactive
  BY <1>11 DEF Toggle, DelayEnds, Station, Inactive, modeOnly, DaemonPoints
<1>12. CASE Start \/ Stop \/ ExitStop \/ SetupStation
  <2>1. crossed' \in BOOLEAN
    BY <1>12 DEF Start, Stop, ExitStop, SetupStation, Overlap
  <2>2. eventGroup' \subseteq ServerFlags
    BY <1>12 DEF Start, Stop, ExitStop, SetupStation, ServerFlags
  <2>3. CASE Start \/ Stop
    BY <2>1, <2>2, <2>3 DEF Start, Stop, modeOnly, DaemonPoints
  <2>4. CASE ExitStop \/ SetupStation
    BY <2>1, <2>2, <2>4 DEF ExitStop, SetupStation, ctrlOnly
  <2> QED
    BY <1>12, <2>3, <2>4
<1>13. CASE SoftAP \/ ExitStation \/ ExitInactive
  BY <1>13 DEF SoftAP, ExitStation, ExitInactive, ctrlOnly
<1>14. CASE WebTask \/ BeBusy
  BY <1>14 DEF WebTask, WaitForFlags, HandleStart, HandleStop, BusyEnds, BeBusy, AfterStart,
               webOnly
<1>15. CASE UNCHANGED vars
  BY <1>15 DEF vars
<1> QED
  BY <1>1, <1>2, <1>3, <1>4, <1>5, <1>6, <1>7, <1>8, <1>9, <1>10, <1>11, <1>12, <1>13, <1>14,
     <1>15 DEF Next, Daemon, Callback, CtrlTask

\* Every variable of the mode and of the switch keeps its type, and the
\* timer's queue its bound.
THEOREM TypeCorrect == Spec => []TypeOK
BY InitType, NextType, PTL DEF Spec

-----------------------------------------------------------------------------
(* Configuration mode is served.                                           *)

\* What webserver_task will have made of the server once it has served the
\* flags that are up.
Called ==
  IF "START_SERVER" \in eventGroup THEN TRUE
  ELSE IF "STOP_SERVER" \in eventGroup THEN FALSE ELSE listening

Leaving == daemon \in {"station", "inactive"} \/ ctrl \in {"station", "inactive"}

\* The flags are never both up, and webserver_task serves one that is.
OneFlag ==
  /\ ~({"START_SERVER", "STOP_SERVER"} \subseteq eventGroup)
  /\ web = "start" => "START_SERVER" \in eventGroup /\ "STOP_SERVER" \notin ctrlflags
  /\ web = "stop" => "STOP_SERVER" \in eventGroup

\* Who leaves the mode has asked for the end of the server, and takes the
\* access point down before it says so; ctrl_task is not overtaken by a new
\* toggle, and the timer task may have said so for it.
LeavingIsCalled ==
  /\ Leaving => ~Called
  /\ daemon = "inactive" \/ ctrl = "inactive" => wifiMode = "STA"
  /\ ctrl \in {"station", "inactive"} =>
       daemon \notin {"delay", "start"} /\ (isServerActive \/ daemon \in {"drain", "idle"})

\* Who enters the mode has the access point up, and asks for the server last.
EnteringIsNotCalled ==
  daemon \in {"delay", "start"} =>
    ~Called /\ isServerActive = (daemon = "start") /\ (ctrl = "idle" => wifiMode = "AP_STA")

\* Until the access point is configured the mode is at most being entered.
SetupIsUnserved ==
  /\ boot # "run" => ctrl = "none"
  /\ ctrl \in {"none", "softap", "setup"} =>
       /\ ~Called /\ (isServerActive => daemon = "start")
       /\ daemon \notin {"stop", "station", "inactive"}

\* Otherwise the flag isServerActive, the server and the access point agree.
ModeAgrees ==
  ctrl = "idle" /\ daemon \notin {"delay", "start", "station", "inactive"} =>
    Called = isServerActive /\ (wifiMode = "AP_STA") = isServerActive

ModeInv ==
  ~crossed => OneFlag /\ LeavingIsCalled /\ EnteringIsNotCalled /\ SetupIsUnserved /\ ModeAgrees

LEMMA InitMode == Init => ModeInv
BY DEF Init, ModeInv, OneFlag, LeavingIsCalled, EnteringIsNotCalled, SetupIsUnserved, ModeAgrees,
       Called, Leaving

LEMMA RestartMode == Restart => ModeInv'
BY DEF Restart, ModeInv, OneFlag, LeavingIsCalled, EnteringIsNotCalled, SetupIsUnserved, ModeAgrees,
       Called, Leaving

\* Every step keeps the mode and the server in agreement.
LEMMA NextMode == TypeOK /\ ModeInv /\ [Next]_vars => ModeInv'
<1> SUFFICES ASSUME TypeOK, ModeInv, [Next]_vars PROVE ModeInv'
  OBVIOUS
<1>t. /\ isServerActive \in BOOLEAN /\ listening \in BOOLEAN /\ crossed \in BOOLEAN
      /\ eventGroup \subseteq {"START_SERVER", "STOP_SERVER"}
      /\ ctrlflags \subseteq {"START_SERVER", "STOP_SERVER"}
      /\ ctrl \in {"none", "softap", "setup", "idle", "station", "inactive"}
  BY DEF TypeOK, ServerFlags
<1> USE <1>t
    DEF ModeInv, OneFlag, LeavingIsCalled, EnteringIsNotCalled, SetupIsUnserved, ModeAgrees,
        Called, Leaving, button, timer, mode, server, history
<1>1. CASE setup
  <2>1. CASE MountFails \/ CreateTimer
    <3>1. boot # "run" /\ UNCHANGED <<daemon, mode, ctrl, server, crossed>>
      BY <2>1 DEF MountFails, CreateTimer, Setup
    <3> QED
      BY <3>1
  <2>2. CASE CreateTasks
    BY <2>2 DEF CreateTasks, Setup
  <2> QED
    BY <1>1, <2>1, <2>2 DEF setup
<1>2. CASE Restart
  BY <1>2, RestartMode
<1>3. CASE Press \/ Release \/ PressPostsPeriod \/ PressPostsStart \/ PressSetsState
  <2>1. UNCHANGED <<boot, daemon, mode, ctrl, server, crossed>>
    BY <1>3 DEF Press, Release, PressPostsPeriod, PressPostsStart, PressSetsState, Isr
  <2> QED
    BY <2>1
<1>4. CASE ProcessCommand \/ Drained
  <2>1. UNCHANGED <<boot, mode, ctrl, server, crossed>>
    BY <1>4 DEF ProcessCommand, Drained, daemonOnly
  <2>2. daemon' = daemon \/ (daemon = "drain" /\ daemon' = "idle")
    BY <1>4 DEF ProcessCommand, Drained
  <2> QED
    BY <2>1, <2>2
<1>5. CASE Expire
  BY <1>5 DEF Expire, daemonOnly
<1>6. CASE ReadState \/ ReadLevelFirst \/ SetState \/ ReadLevelSecond
  <2>1. UNCHANGED <<boot, mode, ctrl, server, crossed>>
    BY <1>6 DEF ReadState, ReadLevelFirst, SetState, ReadLevelSecond, Goto, daemonOnly
  <2>2. /\ daemon \in {"expired", "first", "setstate", "second"}
        /\ daemon' \in {"first", "postlongstop", "postshortstop", "postlong", "drain", "reset"}
    BY <1>6 DEF ReadState, ReadLevelFirst, SetState, ReadLevelSecond, Goto
  <2> QED
    BY <2>1, <2>2
<1>7. CASE PostShortStop \/ PostLong \/ PostLongStop
  <2>1. UNCHANGED <<boot, mode, ctrl, server, crossed>>
    BY <1>7 DEF PostShortStop, PostLong, PostLongStop, Goto, daemonOnly
  <2>2. /\ daemon \in {"postshortstop", "postlong", "postlongstop"}
        /\ daemon' \in {"toggle", "setstate", "second"}
    BY <1>7 DEF PostShortStop, PostLong, PostLongStop, Goto
  <2> QED
    BY <2>1, <2>2
<1>8. CASE Toggle
  BY <1>8 DEF Toggle, modeOnly
<1>9. CASE DelayEnds
  BY <1>9 DEF DelayEnds, modeOnly
<1>10. CASE Start
  BY <1>10 DEF Start, Overlap, ServerFlags, modeOnly
<1>11. CASE Stop
  BY <1>11 DEF Stop, Overlap, ServerFlags, modeOnly
<1>12. CASE Station
  BY <1>12 DEF Station, modeOnly
<1>13. CASE Inactive
  BY <1>13 DEF Inactive, modeOnly
<1>14. CASE SoftAP
  BY <1>14 DEF SoftAP, ctrlOnly
<1>15. CASE SetupStation
  BY <1>15 DEF SetupStation, ctrlOnly
<1>16. CASE ExitStop
  BY <1>16 DEF ExitStop, Overlap, ServerFlags, ctrlOnly
<1>17. CASE ExitStation \/ ExitInactive
  <2>1. CASE ExitStation
    BY <2>1 DEF ExitStation, ctrlOnly
  <2>2. CASE ExitInactive
    BY <2>2 DEF ExitInactive, ctrlOnly
  <2> QED
    BY <1>17, <2>1, <2>2
<1>18. CASE WaitForFlags
  BY <1>18 DEF WaitForFlags, AfterStart, webOnly
<1>19. CASE HandleStart
  BY <1>19 DEF HandleStart, AfterStart, webOnly
<1>20. CASE HandleStop
  BY <1>20 DEF HandleStop, webOnly
<1>21. CASE BusyEnds \/ BeBusy
  <2>1. UNCHANGED <<boot, daemon, mode, ctrl, ctrlflags, listening, crossed>>
    BY <1>21 DEF BusyEnds, BeBusy, webOnly
  <2>2. web' \in {"wait", "busy"}
    BY <1>21 DEF BusyEnds, BeBusy
  <2> QED
    BY <2>1, <2>2
<1>22. CASE UNCHANGED vars
  BY <1>22 DEF vars
<1> QED
  BY <1>1, <1>2, <1>3, <1>4, <1>5, <1>6, <1>7, <1>8, <1>9, <1>10, <1>11, <1>12, <1>13, <1>14,
     <1>15, <1>16, <1>17, <1>18, <1>19, <1>20, <1>21, <1>22
  DEF Next, Daemon, Callback, CtrlTask, WebTask, Interrupt, PowerCycle, PressMeetsNoTimer,
      FactoryReset

\* At rest the web server, the access point and isServerActive are on or off
\* together, as mqtt_task.h:19 has it, however the switch, the login's exit and
\* webserver_task were interleaved - unless their requests overlapped.
THEOREM ModeStaysServed == Spec => []ModeIsServed
<1>1. TypeOK /\ ModeInv => ModeIsServed
  BY DEF TypeOK, ModeInv, ModeIsServed, AtRest, ModeAgrees, Called
<1> QED
  BY <1>1, InitType, NextType, InitMode, NextMode, PTL DEF Spec

-----------------------------------------------------------------------------
(* The timer and its queue follow the presses.                             *)

\* From the first expiry of a press to the end of what follows it, timerstate
\* says so.
FirstExpiry ==
  daemon \in {"first", "postshortstop", "postlong", "setstate", "toggle", "delay", "start", "stop",
              "station", "inactive"} => timerstate = 0

\* What is taken for the second expiry is that of the long period.
SecondIsLong ==
  /\ daemon = "expired" /\ timerstate = 1 => fired = "long"
  /\ daemon \in {"postlongstop", "second", "reset"} => fired = "long"

\* Before timerstate says so, the long period is the last thing asked for.
LongIsPosted == daemon = "setstate" => cmds # <<>> /\ LatestOf(cmds) = "long"

\* As long as no other press intervenes, the timer will not run with the short
\* period once its queue is empty.
LongComes ==
  timerstate = 1 /\ isr = "idle" =>
    /\ daemon = "idle" => cmds = <<>> /\ tmswitch # "short"
    /\ daemon \in {"second", "drain"} =>
         /\ cmds = <<>> => tmswitch # "short"
         /\ cmds # <<>> => LatestOf(cmds) \in {"long", "stop"}

\* A press is taken for a short one after the button was released.
StopAfterRelease == daemon = "postshortstop" => level = "LOW"

\* While the button is held, the timer will run once its queue is empty.
PressRuns ==
  level = "HIGH" /\ isr \in {"idle", "state"} /\ daemon \notin {"second", "reset"} =>
    /\ cmds = <<>> => tmswitch # "dormant"
    /\ cmds # <<>> => LatestOf(cmds) # "stop"

SwitchInv ==
  /\ FirstExpiry
  /\ ~raced => SecondIsLong /\ LongIsPosted /\ LongComes /\ StopAfterRelease /\ PressRuns

LEMMA InitSwitch == Init => SwitchInv
BY DEF Init, SwitchInv, FirstExpiry, SecondIsLong, LongIsPosted, LongComes, StopAfterRelease,
       PressRuns

LEMMA RestartSwitch == TypeOK /\ Restart => SwitchInv'
BY DEF TypeOK, Restart, SwitchInv, FirstExpiry, SecondIsLong, LongIsPosted, LongComes,
       StopAfterRelease, PressRuns

\* Every step of the interrupt, of the timer task and of the button keeps what
\* is known of the timer.
LEMMA NextSwitch == TypeOK /\ SwitchInv /\ [Next]_vars => SwitchInv'
<1> SUFFICES ASSUME TypeOK, SwitchInv, [Next]_vars PROVE SwitchInv'
  OBVIOUS
<1>t. /\ cmds \in Seq(Commands) /\ raced \in BOOLEAN /\ timerstate \in {0, 1}
      /\ level \in {"LOW", "HIGH"} /\ Deciding \in BOOLEAN
  BY DEF TypeOK, Deciding
<1> USE <1>t
    DEF SwitchInv, FirstExpiry, SecondIsLong, LongIsPosted, LongComes, StopAfterRelease, PressRuns,
        button, timer, mode, server, history
<1>1. CASE setup \/ SoftAP \/ SetupStation \/ ExitStop \/ ExitStation \/ ExitInactive \/ WebTask
           \/ BeBusy
  <2>1. UNCHANGED <<level, isr, cmds, tmswitch, timerstate, daemon, fired, raced>>
    <3>1. CASE setup
      BY <3>1 DEF setup, MountFails, CreateTimer, CreateTasks, Setup
    <3>2. CASE SoftAP \/ SetupStation \/ ExitStop \/ ExitStation \/ ExitInactive
      BY <3>2 DEF SoftAP, SetupStation, ExitStop, ExitStation, ExitInactive, ctrlOnly
    <3>3. CASE WebTask \/ BeBusy
      BY <3>3 DEF WebTask, BeBusy, WaitForFlags, HandleStart, HandleStop, BusyEnds, webOnly
    <3> QED
      BY <1>1, <3>1, <3>2, <3>3
  <2> QED
    BY <2>1
<1>2. CASE Restart
  BY <1>2, RestartSwitch
<1>3. CASE Press
  BY <1>3 DEF Press, Deciding
<1>4. CASE PressPostsPeriod \/ PressPostsStart
  <2>1. PICK c \in {"short", "start"} : Post(c, Deciding)
    BY <1>4 DEF PressPostsPeriod, PressPostsStart, Isr
  <2>2. /\ UNCHANGED <<room, level, tmswitch, timerstate, daemon, fired>>
        /\ isr' \in {"start", "state"}
    BY <1>4 DEF PressPostsPeriod, PressPostsStart, Isr
  <2>3. ~raced' => ~raced /\ ~Deciding /\ cmds' # <<>> /\ LatestOf(cmds') = c
    BY <2>1, <2>2, PostLatest DEF Commands
  <2> QED
    BY <2>2, <2>3 DEF Deciding
<1>5. CASE PressSetsState
  BY <1>5 DEF PressSetsState, Isr, Deciding
<1>6. CASE Release
  BY <1>6 DEF Release
<1>7. CASE ProcessCommand
  <2>1. /\ cmds # <<>> /\ cmds' = Tail(cmds) /\ daemon \in {"idle", "drain"}
        /\ UNCHANGED <<level, isr, timerstate, daemon, fired, raced>>
    BY <1>7 DEF ProcessCommand, daemonOnly
  <2>2. /\ cmds' = <<>> => Head(cmds) = LatestOf(cmds)
        /\ cmds' # <<>> => LatestOf(cmds') = LatestOf(cmds)
        /\ Head(cmds) \in Commands
    BY <2>1, TailLatest
  <2>3. /\ Head(cmds) \in {"long", "stop"} => tmswitch' # "short"
        /\ Head(cmds) # "stop" => tmswitch' # "dormant"
    BY <1>7, <2>2 DEF ProcessCommand, Commands
  <2> QED
    BY <2>1, <2>2, <2>3
<1>8. CASE Drained \/ Expire
  <2>1. CASE Drained
    BY <2>1 DEF Drained, daemonOnly
  <2>2. CASE Expire
    <3>1. tmswitch \in {"dormant", "short", "long"}
      BY DEF TypeOK
    <3>2. /\ UNCHANGED <<level, isr, cmds, tmswitch, timerstate, raced>>
          /\ daemon = "idle" /\ daemon' = "expired" /\ isr = "idle"
          /\ tmswitch # "dormant" /\ fired' = tmswitch
      BY <2>2 DEF Expire, daemonOnly
    <3> QED
      BY <3>1, <3>2
  <2> QED
    BY <1>8, <2>1, <2>2
<1>9. CASE ReadState
  BY <1>9 DEF ReadState, Goto, daemonOnly
<1>10. CASE ReadLevelFirst
  BY <1>10 DEF ReadLevelFirst, Goto, daemonOnly
<1>11. CASE PostShortStop \/ PostLongStop
  <2>1. /\ Post("stop", FALSE)
        /\ UNCHANGED <<room, level, isr, tmswitch, timerstate, fired>>
        /\ \/ daemon = "postshortstop" /\ daemon' = "toggle"
           \/ daemon = "postlongstop" /\ daemon' = "second"
    BY <1>11 DEF PostShortStop, PostLongStop, Goto, daemonOnly
  <2>2. ~raced' => ~raced /\ cmds' # <<>> /\ LatestOf(cmds') = "stop"
    BY <2>1, PostLatest DEF Commands
  <2> QED
    BY <2>1, <2>2
<1>12. CASE PostLong
  <2>1. /\ Post("long", FALSE)
        /\ UNCHANGED <<room, level, isr, tmswitch, timerstate, fired>>
        /\ daemon = "postlong" /\ daemon' = "setstate"
    BY <1>12 DEF PostLong, Goto, daemonOnly
  <2>2. ~raced' => ~raced /\ cmds' # <<>> /\ LatestOf(cmds') = "long"
    BY <2>1, PostLatest DEF Commands
  <2> QED
    BY <2>1, <2>2
<1>13. CASE SetState
  BY <1>13 DEF SetState, Goto, daemonOnly
<1>14. CASE ReadLevelSecond
  BY <1>14 DEF ReadLevelSecond, Goto, daemonOnly
<1>15. CASE Toggle \/ DelayEnds \/ Start \/ Stop \/ Station \/ Inactive
  <2>1. /\ UNCHANGED <<level, isr, cmds, tmswitch, timerstate, fired, raced>>
        /\ daemon \in {"toggle", "delay", "start", "stop", "station", "inactive"}
        /\ daemon' \in {"delay", "start", "stop", "station", "inactive", "drain"}
    BY <1>15 DEF Toggle, DelayEnds, Start, Stop, Station, Inactive, modeOnly
  <2> QED
    BY <2>1
<1>16. CASE UNCHANGED vars
  BY <1>16 DEF vars
<1> QED
  BY <1>1, <1>2, <1>3, <1>4, <1>5, <1>6, <1>7, <1>8, <1>9, <1>10, <1>11, <1>12, <1>13, <1>14,
     <1>15, <1>16
  DEF Next, Daemon, Callback, CtrlTask, Interrupt, PowerCycle, PressMeetsNoTimer, FactoryReset

\* The timer runs whenever the button is held and every command was taken, with
\* the same exceptions.
THEOREM PressStaysTimed == Spec => []PressIsTimed
<1>1. SwitchInv => PressIsTimed
  BY DEF SwitchInv, PressRuns, PressIsTimed
<1> QED
  BY <1>1, InitType, NextType, InitSwitch, NextSwitch, PTL DEF Spec

-----------------------------------------------------------------------------
(* What resets the device is a press of five seconds.                      *)

\* Of a press that began before the expiry that is answered, the short period
\* has run out, and before a reset the long one too.
HeldFirst ==
  daemon \in {"expired", "first", "postlong", "setstate", "postlongstop", "second"} =>
    isr = "idle" /\ (level = "HIGH" => held >= Period.short)

HeldSecond ==
  /\ timerstate = 1 /\ isr = "idle" /\ level = "HIGH" => held >= Period.short
  /\ (daemon = "expired" /\ timerstate = 1) \/ daemon \in {"postlongstop", "second"} =>
       (level = "HIGH" => held = LongPress)
  /\ daemon = "reset" => held = LongPress

HeldInv == ~raced /\ ~tapped => HeldFirst /\ HeldSecond

LEMMA InitHeld == Init => HeldInv
BY DEF Init, HeldInv, HeldFirst, HeldSecond

LEMMA RestartHeld == Restart => HeldInv'
BY DEF Restart, HeldInv, HeldFirst, HeldSecond

\* Every step keeps account of how long the press was held.
LEMMA NextHeld == TypeOK /\ SwitchInv /\ HeldInv /\ [Next]_vars => HeldInv'
<1> SUFFICES ASSUME TypeOK, SwitchInv, HeldInv, [Next]_vars PROVE HeldInv'
  OBVIOUS
<1>t. /\ held \in 0..5 /\ LongPress = 5 /\ Period.short = 1 /\ Period.long = 4
      /\ raced \in BOOLEAN /\ tapped \in BOOLEAN /\ timerstate \in {0, 1}
      /\ level \in {"LOW", "HIGH"} /\ tmswitch \in {"dormant", "short", "long"}
  BY DEF TypeOK, LongPress, Period
<1>s. ~raced /\ timerstate = 1 /\ isr = "idle" /\ daemon = "idle" => tmswitch # "short"
  BY DEF SwitchInv, LongComes
<1> USE <1>t
    DEF HeldInv, HeldFirst, HeldSecond, button, timer, mode, server, history, press
<1>1. CASE setup \/ SoftAP \/ SetupStation \/ ExitStop \/ ExitStation \/ ExitInactive \/ WebTask
           \/ BeBusy
  <2>1. UNCHANGED <<level, isr, timerstate, daemon, raced, press>>
    <3>1. CASE setup
      BY <3>1 DEF setup, MountFails, CreateTimer, CreateTasks, Setup
    <3>2. CASE SoftAP \/ SetupStation \/ ExitStop \/ ExitStation \/ ExitInactive
      BY <3>2 DEF SoftAP, SetupStation, ExitStop, ExitStation, ExitInactive, ctrlOnly
    <3>3. CASE WebTask \/ BeBusy
      BY <3>3 DEF WebTask, BeBusy, WaitForFlags, HandleStart, HandleStop, BusyEnds, webOnly
    <3> QED
      BY <1>1, <3>1, <3>2, <3>3
  <2> QED
    BY <2>1
<1>2. CASE Restart
  BY <1>2, RestartHeld
<1>3. CASE Press
  BY <1>3 DEF Press, Deciding, Answering
<1>4. CASE PressPostsPeriod \/ PressPostsStart
  <2>1. /\ UNCHANGED <<level, timerstate, daemon, press>>
        /\ isr # "idle" /\ isr' # "idle" /\ (~raced' => ~raced)
    BY <1>4 DEF PressPostsPeriod, PressPostsStart, Isr, Post
  <2> QED
    BY <2>1
<1>5. CASE PressSetsState
  <2>1. /\ UNCHANGED <<level, daemon, press>> /\ isr # "idle"
        /\ timerstate' = 0 /\ (~raced' => ~raced)
    BY <1>5 DEF PressSetsState, Isr
  <2> QED
    BY <2>1
<1>6. CASE Release
  BY <1>6 DEF Release
<1>7. CASE ProcessCommand \/ Drained
  <2>1. /\ UNCHANGED <<level, isr, timerstate, raced, press>>
        /\ daemon \in {"idle", "drain"} /\ daemon' \in {"idle", "drain"}
    BY <1>7 DEF ProcessCommand, Drained, daemonOnly
  <2> QED
    BY <2>1
<1>8. CASE Expire
  <2>1. /\ UNCHANGED <<level, isr, timerstate, raced>> /\ isr = "idle" /\ daemon = "idle"
        /\ daemon' = "expired" /\ tmswitch # "dormant" /\ (~tapped' => ~tapped)
    BY <1>8 DEF Expire, daemonOnly
  <2>2. level = "HIGH" => held' = IF held + Period[tmswitch] < 5 THEN held + Period[tmswitch] ELSE 5
    BY <1>8 DEF Expire
  <2>3. level = "HIGH" => held' >= 1
    BY <2>1, <2>2
  <2>4. ~raced' /\ ~tapped' /\ timerstate = 1 /\ level = "HIGH" => held' = 5
    <3> SUFFICES ASSUME ~raced', ~tapped', timerstate = 1, level = "HIGH" PROVE held' = 5
      OBVIOUS
    <3>1. tmswitch = "long" /\ held >= 1
      BY <2>1, <1>s
    <3> QED
      BY <2>2, <3>1
  <2> QED
    BY <2>1, <2>3, <2>4
<1>9. CASE ReadState \/ ReadLevelFirst \/ SetState \/ ReadLevelSecond
  BY <1>9 DEF ReadState, ReadLevelFirst, SetState, ReadLevelSecond, Goto, daemonOnly
<1>10. CASE PostShortStop \/ PostLong \/ PostLongStop
  BY <1>10 DEF PostShortStop, PostLong, PostLongStop, Goto, Post, daemonOnly
<1>11. CASE Toggle \/ DelayEnds \/ Start \/ Stop \/ Station \/ Inactive
  <2>1. /\ UNCHANGED <<level, isr, timerstate, raced, press>>
        /\ daemon' \in {"delay", "start", "stop", "station", "inactive", "drain"}
    BY <1>11 DEF Toggle, DelayEnds, Start, Stop, Station, Inactive, modeOnly
  <2> QED
    BY <2>1
<1>12. CASE UNCHANGED vars
  BY <1>12 DEF vars
<1> QED
  BY <1>1, <1>2, <1>3, <1>4, <1>5, <1>6, <1>7, <1>8, <1>9, <1>10, <1>11, <1>12
  DEF Next, Daemon, Callback, CtrlTask, Interrupt, PowerCycle, PressMeetsNoTimer, FactoryReset

\* Only a press held through the short and the long period resets the device -
\* unless it began just when an earlier one's period ran out, an interrupt came
\* between what switch_callback reads and what it does about it, or the timer's
\* queue was full.
THEOREM ResetStaysLong == Spec => []ResetNeedsLongPress
<1>1. HeldInv => ResetNeedsLongPress
  BY DEF HeldInv, HeldSecond, ResetNeedsLongPress
<1> QED
  BY <1>1, InitType, NextType, InitSwitch, NextSwitch, InitHeld, NextHeld, PTL DEF Spec

=============================================================================
