--------------------------- MODULE TelemetryProofs ---------------------------
(***************************************************************************)
(* Proofs about Telemetry, for every room in the timer command queue, any  *)
(* calibrations and any settings.                                          *)
(*                                                                         *)
(* What a timer does is decided by the commands that still wait for it, so *)
(* the invariants speak of what a timer will be once the queue is empty.   *)
(***************************************************************************)
EXTENDS Telemetry, SequenceTheorems, TLAPS

-----------------------------------------------------------------------------
(* The invariant.                                                          *)

Timers == {"led", "temp", "ping"}
Publishing == {"temp", "ping"}
Ticks(tp) == pdMS_TO_TICKS(getupdatePeriod(tp))

Plain == [name : {"start", "stop"}, timer : Timers, ticks : {0}, tp : {Nothing}]
Change == {c \in [name : {"change"}, timer : Publishing, ticks : Nat, tp : Periods] : c.ticks = Ticks(c.tp)}
Commands == Plain \union Change

Timer == [active : BOOLEAN, ticks : Nat, tp : Periods \union {Nothing}]
Budget == [leds : Nat, commands : Nat, forms : Nat, calibrations : Nat, drops : Nat,
           services : SUBSET Services]

\* The points of a publication, of ctrl_task and of the timer task.
PublicationPoints == {"slope", "intercept read", "line", "status", "publish", "send"}
CtrlPoints == {"rest", "stop", "pin", "start", "intercept", "connect", "subscribe", "subscribing", "timers",
               "handle", "transmit"}
              \union PublicationPoints
TogglePoints == {"toggle", "toggled", "show"}
TimerPoints == {"rest"} \union TogglePoints \union PublicationPoints

\* The tasks, and what either carries along.
Tasks == {"ctrl", "timer"}
TaskShape == DOMAIN task = Tasks /\ \A t \in Tasks : DOMAIN task[t] = {"at", "job", "seen"}
TasksOK ==
  /\ ctrl.at \in CtrlPoints /\ timer.at \in TimerPoints
  /\ ctrl.at = "connect" => ctrl.job[1] \in budget.services
  /\ ctrl.at \in {"subscribe", "subscribing", "timers"} => scfg \in budget.services /\ client.login = scfg
  /\ ctrl.at \in {"subscribe", "subscribing"} => ctrl.job[1] \in 1..2
  /\ ctrl.at = "timers" => ctrl.job[1] \in 1..4
  /\ ctrl.at = "transmit" => ctrl.job[1] \in OnOff
  /\ ctrl.at \in PublicationPoints => ctrl.job[1] = "ping"
  /\ timer.at \in TogglePoints => timer.job = <<"led">>
  /\ timer.at \in PublicationPoints => timer.job[1] \in Publishing

\* The text and the client's buffer: what is published has a status, and a
\* message that was written over belongs to no topic.
ClientFields == {"connected", "buffer", "topics", "login"}
Listened == {"relay1", "enableTemp"}
TextShape ==
  /\ DOMAIN jsonstatus = {"m", "b", "status"}
  /\ DOMAIN client = ClientFields /\ client.connected \in BOOLEAN /\ client.topics \subseteq Listened
TextOK ==
  /\ \A t \in Tasks :
       /\ task[t].at \in {"line", "status"} => task[t].seen[3] \in ctrl_status
       /\ task[t].at \in {"publish", "send"} => jsonstatus.status \in ctrl_status
       /\ task[t].at = "send" /\ client.buffer[1] = "ping" => client.buffer[2].status \in ctrl_status
  /\ ctrl.at = "handle" /\ client.buffer[1] \in {"relay1", "enableTemp"} => client.buffer[2] \in OnOff \union {"other"}
  /\ told = Nothing \/ told.status \in ctrl_status

TypeInv ==
  /\ up \in BOOLEAN /\ late \in BOOLEAN /\ missed \in BOOLEAN /\ asked \in OnOff
  /\ TaskShape /\ TasksOK /\ TextShape /\ TextOK
  /\ queue \in Seq(Commands) /\ Len(queue) <= QueueLength
  /\ timers \in [Timers -> Timer]
  /\ led \in ledctrl /\ ctrlStatus \in ctrl_status
  /\ budget \in Budget /\ scfg \in budget.services \union {Nothing, Torn}
  /\ client.login \in budget.services \union {Nothing}

\* A timer will run once the queue is empty: the last command for it says so.
WillRun(t) ==
  \/ /\ timers[t].active
     /\ \A i \in 1..Len(queue) : queue[i].timer # t
  \/ \E i \in 1..Len(queue) :
       /\ queue[i].timer = t /\ queue[i].name # "stop"
       /\ \A j \in (i + 1)..Len(queue) : queue[j].timer # t

\* Its period will be this one: the last change says so.
Changes(cmd, t) == cmd.name = "change" /\ cmd.timer = t
WillHave(t, ticks) ==
  \/ /\ timers[t].ticks = ticks
     /\ \A i \in 1..Len(queue) : ~Changes(queue[i], t)
  \/ \E i \in 1..Len(queue) :
       /\ Changes(queue[i], t) /\ queue[i].ticks = ticks
       /\ \A j \in (i + 1)..Len(queue) : ~Changes(queue[j], t)

\* The LED: before the late expiry it has the state of its mode; the pin has
\* it when nobody is about to write the pin; and its timer will run when it
\* has to, but in the middle of an update or after a command without room.
LedFollows ==
  /\ ctrl.at = "stop" => led.mode # "BLINK"
  /\ ctrl.at = "start" => led.mode = "BLINK"
  /\ ~late /\ timer.at \in TogglePoints => led.mode = "BLINK"
  /\ ~late /\ led.mode # "BLINK" => led.state = Shows[led.mode]
  /\ ctrl.at \notin {"stop", "pin"} /\ timer.at # "show" => led.pin = led.state
  /\ /\ <<"start", "led">> \notin lost /\ <<"stop", "led">> \notin lost
     /\ ctrl.at \notin {"stop", "start"} /\ ~(ctrl.at = "pin" /\ led.mode = "BLINK")
     => (WillRun("led") <=> led.mode = "BLINK")

\* The publishing timers will have the period of the settings last logged in
\* with, from their command in the login on.
Place(t) == IF t = "temp" THEN 1 ELSE 3
PeriodFollows ==
  \A t \in Publishing :
    client.login # Nothing /\ ctrl.at \notin {"subscribe", "subscribing"}
    /\ ~(ctrl.at = "timers" /\ ctrl.job[1] <= Place(t)) =>
      /\ client.login \in budget.services
      /\ <<"change", t>> \notin lost => WillHave(t, Ticks(client.login[t]))

\* What stopped the scheduler is a period of no ticks.
FailsForPeriod == ~up => \E t \in Publishing : timers[t].ticks = 0 /\ ~IsMeant(timers[t].tp)

\* No temperature will be transmitted that is not reported, but between the
\* two commands of a login and within a message that says ON.
SilenceFollows ==
  <<"stop", "temp">> \notin lost /\ WillRun("temp") =>
    /\ \/ ctrlStatus.enableTemp = "ON"
       \/ ctrl.at = "timers" /\ ctrl.job[1] = 2
       \/ ctrl.at = "transmit" /\ ctrl.job[1] = "ON"
    /\ ~(ctrl.at = "transmit" /\ ctrl.job[1] = "OFF")

\* The relay is as asked for, or the message that asks is in the buffer, or
\* what is there is about to be found of no topic.
RelayFollows ==
  ~missed =>
    \/ ctrlStatus.relay1 = asked /\ (ctrl.at = "handle" => client.buffer[1] # "relay1" \/ client.buffer[2] = "other")
    \/ ctrl.at = "handle" /\ client.buffer[1] = "relay1" /\ client.buffer[2] = asked
    \/ ctrl.at = "handle" /\ client.buffer[1] \notin {"relay1", "enableTemp"}

-----------------------------------------------------------------------------
(* The words of a period.                                                  *)

LEMMA DivMod ==
  ASSUME NEW x \in Int
  PROVE  /\ x \div 65536 \in Int /\ x % 65536 \in Int /\ 0 <= x % 65536 /\ x % 65536 < 65536
         /\ x = 65536 * (x \div 65536) + (x % 65536)
BY SMT

LEMMA Small == ASSUME NEW x \in Int, 0 <= x, x < 65536 PROVE x % 65536 = x
BY SMT

\* The two halves of a word; and of this value.
Pair(w) == \E h, l \in Int : w = <<h, l>> /\ 0 <= h /\ 0 <= l
Stands(w, v) == \E h, l \in Int : w = <<h, l>> /\ 0 <= h /\ 0 <= l /\ h * 65536 + l = v

Full == 4294967296

LEMMA WordPair == ASSUME NEW n \in Int PROVE Pair(Word(n))
<1> DEFINE a == n \div 65536  h == a % 65536  l == n % 65536
<1>1. Word(n) = <<h, l>>
  BY SMT DEF Word, Half
<1>2. a \in Int /\ l \in Int /\ 0 <= l
  BY SMT, DivMod
<1>3. h \in Int /\ 0 <= h
  <2> HIDE DEF a
  <2> QED BY SMT, <1>2, DivMod
<1> HIDE DEF a, h, l
<1> QED BY SMT, <1>1, <1>2, <1>3 DEF Pair

LEMMA WordStands ==
  ASSUME NEW n \in Int, 0 <= n, n < Full PROVE Stands(Word(n), n)
<1> DEFINE a == n \div 65536  h == a % 65536  l == n % 65536
<1>1. Word(n) = <<h, l>>
  BY SMT DEF Word, Half
<1>2. a \in Int /\ l \in Int /\ 0 <= l /\ l < 65536 /\ n = 65536 * a + l
  BY SMT, DivMod
<1>3. h = a /\ 0 <= a
  <2> HIDE DEF a, l
  <2>1. 0 <= a /\ a < 65536
    BY SMT, <1>2 DEF Full
  <2> QED BY SMT, <1>2, <2>1, Small
<1> HIDE DEF a, h, l
<1> QED BY SMT, <1>1, <1>2, <1>3 DEF Stands

\* The low half of a product, and what it carries into the high half.
Carry(h, l, n, q, r) ==
  /\ l * n = 65536 * q + r /\ 0 <= r /\ r < 65536
  /\ Times(<<h, l>>, n) = <<(h * n + q) % 65536, r>>

LEMMA TimesForm ==
  ASSUME NEW h \in Int, NEW l \in Int, NEW n \in Int
  PROVE  \E q, r \in Int : Carry(h, l, n, q, r)
<1> DEFINE x == l * n  q == x \div 65536  r == x % 65536
<1>1. Times(<<h, l>>, n) = <<(h * n + q) % 65536, r>>
  BY SMT DEF Times, Half
<1>2. x \in Int
  BY SMT
<1>3. q \in Int /\ r \in Int /\ 0 <= r /\ r < 65536 /\ x = 65536 * q + r
  <2> HIDE DEF x
  <2> QED BY SMT, <1>2, DivMod
<1>4. Carry(h, l, n, q, r)
  <2> HIDE DEF q, r
  <2> QED BY SMT, <1>1, <1>3 DEF Carry
<1> HIDE DEF q, r
<1> QED BY SMT, <1>3, <1>4

LEMMA TimesPair == ASSUME NEW w, Pair(w), NEW n \in Int PROVE Pair(Times(w, n))
<1>1. PICK h \in Int, l \in Int : w = <<h, l>>
  BY SMT DEF Pair
<1>2. PICK q \in Int, r \in Int : Carry(h, l, n, q, r)
  BY TimesForm
<1> DEFINE x == h * n  m == (x + q) % 65536
<1>3. x \in Int
  BY SMT
<1>4. Times(w, n) = <<m, r>> /\ 0 <= r
  BY SMT, <1>1, <1>2 DEF Carry
<1>5. m \in Int /\ 0 <= m
  <2> HIDE DEF x
  <2> DEFINE y == x + q
  <2>1. y \in Int
    BY SMT, <1>3
  <2> HIDE DEF y
  <2>2. y % 65536 \in Int /\ 0 <= y % 65536
    BY SMT, <2>1, DivMod
  <2> QED BY SMT, <2>2 DEF y
<1> HIDE DEF m
<1> QED BY SMT, <1>4, <1>5 DEF Pair

\* A product that 32 bits hold is the product.
LEMMA TimesStands ==
  ASSUME NEW w, NEW v \in Int, Stands(w, v), NEW n \in Int, 0 <= n, v * n < Full
  PROVE  Stands(Times(w, n), v * n)
<1>1. PICK h \in Int, l \in Int : w = <<h, l>> /\ 0 <= h /\ 0 <= l /\ h * 65536 + l = v
  BY SMT DEF Stands
<1>2. PICK q \in Int, r \in Int : Carry(h, l, n, q, r)
  BY TimesForm
<1> DEFINE x == h * n  y == l * n
<1>3. x \in Int /\ 0 <= x
  BY SMT, <1>1
<1>4. y \in Int /\ 0 <= y
  BY SMT, <1>1
<1>5. v * n = x * 65536 + y
  BY SMT, <1>1
<1>6. y = 65536 * q + r /\ 0 <= r /\ r < 65536 /\ Times(w, n) = <<(x + q) % 65536, r>>
  BY SMT, <1>1, <1>2 DEF Carry
<1>7. x * 65536 + y < 4294967296
  BY SMT, <1>5 DEF Full
<1> HIDE DEF x, y
<1>8. x + q \in Int /\ 0 <= x + q /\ x + q < 65536
  BY SMT, <1>3, <1>4, <1>6, <1>7
<1>9. (x + q) % 65536 = x + q
  BY SMT, <1>8, Small
<1>10. (x + q) * 65536 + r = v * n
  BY SMT, <1>3, <1>4, <1>5, <1>6
<1> DEFINE z == x + q
<1>11. z \in Int /\ 0 <= z /\ Times(w, n) = <<z, r>> /\ z * 65536 + r = v * n
  BY SMT, <1>6, <1>8, <1>9, <1>10
<1> HIDE DEF z
<1> QED BY SMT, <1>6, <1>11 DEF Stands

LEMMA QuotientForm ==
  ASSUME NEW h \in Int, NEW l \in Int, 0 <= h, 0 <= l
  PROVE  \E q \in Nat : Quotient(<<h, l>>, 1000) = q /\ (\A v \in Int : h * 65536 + l = v * 1000 => q = v)
<1> DEFINE a == h \div 1000  r == h % 1000  x == r * 65536 + l  b == x \div 1000  c == x % 1000
<1>1. Quotient(<<h, l>>, 1000) = a * 65536 + b
  BY SMT DEF Quotient, Half
<1>2. a \in Int /\ r \in Int /\ 0 <= a /\ 0 <= r /\ h = 1000 * a + r
  BY SMT
<1>3. x \in Int /\ 0 <= x
  <2> HIDE DEF a, r
  <2> QED BY SMT, <1>2 DEF x
<1>4. b \in Int /\ c \in Int /\ 0 <= b /\ 0 <= c /\ c < 1000 /\ x = 1000 * b + c
  <2> HIDE DEF x
  <2> QED BY SMT, <1>3
<1>5. x = r * 65536 + l
  OBVIOUS
<1> HIDE DEF a, r, x, b, c
<1>6. a * 65536 + b \in Nat
  BY SMT, <1>2, <1>4
<1>7. \A v \in Int : h * 65536 + l = v * 1000 => a * 65536 + b = v
  BY SMT, <1>2, <1>4, <1>5
<1> QED BY SMT, <1>1, <1>6, <1>7

LEMMA SecondsValues ==
  /\ DOMAIN Seconds = {"Second", "Minute", "Hour"}
  /\ Seconds["Second"] = 1 /\ Seconds["Minute"] = 60 /\ Seconds["Hour"] = 3600
BY SMT DEF Seconds

LEMMA QuotientNat == ASSUME NEW w, Pair(w) PROVE Quotient(w, 1000) \in Nat
<1>1. PICK h \in Int, l \in Int : w = <<h, l>> /\ 0 <= h /\ 0 <= l
  BY SMT DEF Pair
<1>2. \E q \in Nat : Quotient(<<h, l>>, 1000) = q
  BY SMT, <1>1, QuotientForm
<1> QED BY SMT, <1>1, <1>2

LEMMA QuotientStands ==
  ASSUME NEW w, NEW v \in Int, Stands(w, v * 1000)
  PROVE  Quotient(w, 1000) = v
<1>1. PICK h \in Int, l \in Int : w = <<h, l>> /\ 0 <= h /\ 0 <= l /\ h * 65536 + l = v * 1000
  BY SMT DEF Stands
<1>2. PICK q \in Nat : Quotient(<<h, l>>, 1000) = q /\ (\A u \in Int : h * 65536 + l = u * 1000 => q = u)
  BY SMT, <1>1, QuotientForm
<1>3. Quotient(w, 1000) = q
  BY SMT, <1>1, <1>2
<1> QED BY SMT, <1>1, <1>2, <1>3

LEMMA TicksType ==
  ASSUME NEW tp \in Periods
  PROVE  Ticks(tp) \in Nat
<1>1. Pair(getupdatePeriod(tp))
  <2>1. CASE tp.unit \in DOMAIN Seconds
    <3>1. Pair(Word(tp.period))
      BY SMT, WordPair DEF Periods
    <3>2. Seconds[tp.unit] \in Int
      BY SMT, <2>1, SecondsValues
    <3>3. Pair(Times(Times(Word(tp.period), Seconds[tp.unit]), 1000))
      BY SMT, <3>1, <3>2, TimesPair
    <3> QED BY SMT, <2>1, <3>3 DEF getupdatePeriod
  <2>2. CASE tp.unit \notin DOMAIN Seconds
    BY SMT, <2>2, WordPair DEF getupdatePeriod
  <2> QED BY <2>1, <2>2
<1>2. Pair(Times(getupdatePeriod(tp), 1000))
  BY SMT, <1>1, TimesPair
<1> QED BY SMT, <1>2, QuotientNat DEF Ticks, pdMS_TO_TICKS

\* A period within reason has the ticks that are meant.
LEMMA TicksExact ==
  ASSUME NEW tp \in Periods, IsMeant(tp)
  PROVE  Ticks(tp) = Meant(tp) /\ Ticks(tp) > 0
<1> DEFINE p == tp.period  s == Seconds[tp.unit]  m == p * s * 1000
<1>1. p \in Int /\ s \in {1, 60, 3600} /\ tp.unit \in DOMAIN Seconds
  BY SMT, SecondsValues DEF IsMeant, Periods
<1>2. p \in 1..(4294967 \div (s * 1000))
  BY SMT DEF IsMeant, Longest
<1>3. Meant(tp) = m
  BY DEF Meant
<1>4. getupdatePeriod(tp) = Times(Times(Word(p), s), 1000)
  BY <1>1 DEF getupdatePeriod
<1>m. m = p * s * 1000
  OBVIOUS
<1> HIDE DEF p, s, m
<1>5. m \in Int /\ p * s \in Int /\ 0 < m /\ m <= 4294967 /\ p <= m /\ p * s <= m /\ 0 < p
  <2>2. CASE s = 1
    BY SMT, <1>1, <1>2, <1>m, <2>2
  <2>3. CASE s = 60
    BY SMT, <1>1, <1>2, <1>m, <2>3
  <2>4. CASE s = 3600
    BY SMT, <1>1, <1>2, <1>m, <2>4
  <2> QED BY SMT, <1>1, <2>2, <2>3, <2>4
<1>6. Stands(Word(p), p)
  BY SMT, <1>1, <1>5, WordStands DEF Full
<1>7. Stands(Times(Word(p), s), p * s)
  <2>1. s \in Int /\ 0 <= s /\ p * s < Full
    BY SMT, <1>1, <1>5 DEF Full
  <2> QED BY SMT, <1>1, <1>6, <2>1, TimesStands
<1>8. Stands(getupdatePeriod(tp), m)
  <2>1. (p * s) * 1000 = m /\ (p * s) * 1000 < Full
    BY SMT, <1>5, <1>m DEF Full
  <2> QED BY SMT, <1>4, <1>5, <1>7, <2>1, TimesStands
<1>9. Stands(Times(getupdatePeriod(tp), 1000), m * 1000)
  <2>1. m * 1000 < Full
    BY SMT, <1>5 DEF Full
  <2> QED BY SMT, <1>5, <1>8, <2>1, TimesStands
<1>10. Ticks(tp) = m
  BY SMT, <1>5, <1>9, QuotientStands DEF Ticks, pdMS_TO_TICKS
<1> QED BY SMT, <1>3, <1>5, <1>10

-----------------------------------------------------------------------------
(* The tasks.                                                              *)

LEMMA GotoTask ==
  ASSUME TaskShape, NEW t \in Tasks, NEW at, NEW job, Goto(t, at, job)
  PROVE  /\ TaskShape' /\ task'[t].at = at /\ task'[t].job = job
         /\ \A u \in Tasks \ {t} : task'[u] = task[u]
BY DEF TaskShape, Tasks, Goto

LEMMA FinishTask ==
  ASSUME TaskShape, NEW t \in Tasks, Finish(t)
  PROVE  TaskShape' /\ task'[t].at = "rest" /\ \A u \in Tasks \ {t} : task'[u] = task[u]
BY DEF TaskShape, Tasks, Finish, Rest

LEMMA StepTask ==
  ASSUME TaskShape, NEW t \in Tasks, NEW from, NEW to, NEW seen, Step(t, from, to, seen)
  PROVE  /\ TaskShape' /\ task[t].at = from
         /\ task'[t].at = to /\ task'[t].job = task[t].job /\ task'[t].seen = seen
         /\ \A u \in Tasks \ {t} : task'[u] = task[u]
BY DEF TaskShape, Tasks, Step

LEMMA CtrlGoes ==
  ASSUME TaskShape, NEW at, NEW job, Goto("ctrl", at, job)
  PROVE  TaskShape' /\ ctrl'.at = at /\ ctrl'.job = job /\ timer' = timer
BY GotoTask DEF ctrl, timer, Tasks

LEMMA CtrlFinishes ==
  ASSUME TaskShape, Finish("ctrl") PROVE TaskShape' /\ ctrl'.at = "rest" /\ timer' = timer
BY FinishTask DEF ctrl, timer, Tasks

LEMMA SpendBudget ==
  ASSUME budget \in Budget, NEW what \in {"leds", "commands", "forms", "calibrations", "drops"}, Spend(what)
  PROVE  budget' \in Budget /\ budget'.services = budget.services
BY SMT DEF Budget, Spend

-----------------------------------------------------------------------------
(* The queue.                                                              *)

LEMMA AppendQueue ==
  ASSUME queue \in Seq(Commands), NEW cmd \in Commands, queue' = Append(queue, cmd)
  PROVE  /\ queue' \in Seq(Commands) /\ Len(queue') = Len(queue) + 1
         /\ queue'[Len(queue) + 1] = cmd
         /\ \A i \in 1..Len(queue) : queue'[i] = queue[i]
BY SMT, AppendProperties

LEMMA TailQueue ==
  ASSUME queue \in Seq(Commands), queue # <<>>, queue' = Tail(queue)
  PROVE  /\ Head(queue) = queue[1] /\ queue[1] \in Commands
         /\ queue' \in Seq(Commands) /\ Len(queue') = Len(queue) - 1 /\ Len(queue) \in Nat \ {0}
         /\ \A i \in 1..Len(queue') : queue'[i] = queue[i + 1]
<1>1. Len(queue) \in Nat /\ Len(queue) # 0
  BY EmptySeq, LenProperties
<1>2. Head(queue) = queue[1] /\ queue[1] \in Commands
  BY SMT, <1>1, ElementOfSeq
<1>3. queue' \in Seq(Commands) /\ Len(queue') = Len(queue) - 1 /\ \A i \in 1..Len(queue') : queue'[i] = queue[i + 1]
  BY SMT, <1>1, HeadTailProperties
<1> QED BY <1>1, <1>2, <1>3, SMT

LEMMA PostQueue ==
  ASSUME queue \in Seq(Commands), Len(queue) <= QueueLength, NEW cmd \in Commands, Post(cmd)
  PROVE  queue' \in Seq(Commands) /\ Len(queue') <= QueueLength
<1>1. CASE queue' = Append(queue, cmd) /\ Len(queue) < QueueLength
  BY SMT, <1>1, AppendQueue, QueueAssumption
<1>2. CASE UNCHANGED queue
  BY SMT, <1>2
<1> QED BY <1>1, <1>2 DEF Post

-----------------------------------------------------------------------------
(* Types.                                                                  *)

LEMMA LedWithMode ==
  ASSUME led \in ledctrl, NEW m \in OnOff \union {"BLINK"}, NEW s \in Shades,
         led' = [led EXCEPT !.mode = m, !.state = s]
  PROVE  led' \in ledctrl /\ led'.mode = m /\ led'.state = s /\ led'.pin = led.pin
BY DEF ledctrl

LEMMA LedWithState ==
  ASSUME led \in ledctrl, NEW s \in Shades, led' = [led EXCEPT !.state = s]
  PROVE  led' \in ledctrl /\ led'.mode = led.mode /\ led'.state = s /\ led'.pin = led.pin
BY DEF ledctrl

LEMMA LedWithPin ==
  ASSUME led \in ledctrl, led' = [led EXCEPT !.pin = led.state]
  PROVE  led' \in ledctrl /\ led'.mode = led.mode /\ led'.state = led.state /\ led'.pin = led.state
BY DEF ledctrl

LEMMA PlainCommand ==
  ASSUME NEW name \in {"start", "stop"}, NEW t \in Timers
  PROVE  Command(name, t) \in Commands
BY DEF Command, Commands, Plain

LEMMA ChangeCommand ==
  ASSUME NEW t \in Publishing, NEW tp \in Periods
  PROVE  ChangePeriod(t, tp) \in Commands /\ ChangePeriod(t, tp).ticks = Ticks(tp)
BY TicksType DEF ChangePeriod, Ticks, Commands, Change

LEMMA LoginCommandsAre ==
  ASSUME scfg \in Services
  PROVE  /\ Len(LoginCommands) = 4 /\ \A n \in 1..4 : LoginCommands[n] \in Commands
         /\ LoginCommands[1] = ChangePeriod("temp", scfg.temp) /\ LoginCommands[2] = Command("stop", "temp")
         /\ LoginCommands[3] = ChangePeriod("ping", scfg.ping) /\ LoginCommands[4] = Command("start", "ping")
<1>1. scfg.temp \in Periods /\ scfg.ping \in Periods
  BY DEF Services
<1>2. /\ ChangePeriod("temp", scfg.temp) \in Commands /\ Command("stop", "temp") \in Commands
      /\ ChangePeriod("ping", scfg.ping) \in Commands /\ Command("start", "ping") \in Commands
  BY <1>1, PlainCommand, ChangeCommand DEF Timers, Publishing
<1> QED BY SMT, <1>2 DEF LoginCommands

LEMMA SetModeDoes ==
  ASSUME TypeInv, SetMode
  PROVE  /\ TaskShape' /\ timer' = timer /\ ctrl.at = "rest"
         /\ ctrl'.at = IF led'.mode = "BLINK" THEN "pin" ELSE "stop"
         /\ led' \in ledctrl /\ led'.state = Shows[led'.mode] /\ led'.pin = led.pin
         /\ budget' \in Budget /\ budget'.services = budget.services
<1>1. TaskShape /\ led \in ledctrl /\ budget \in Budget
  BY DEF TypeInv
<1>2. budget' \in Budget /\ budget'.services = budget.services
  BY <1>1, SpendBudget DEF SetMode
<1>3. PICK mode \in {"OFF", "BLINK", "ON"} \ {led.mode} :
       /\ led' = [led EXCEPT !.mode = mode, !.state = Shows[mode]]
       /\ Goto("ctrl", IF mode = "BLINK" THEN "pin" ELSE "stop", Nothing)
  BY DEF SetMode
<1>4. Shows[mode] \in Shades
  BY SMT DEF Shows, Shades
<1>0. mode \in OnOff \union {"BLINK"}
  BY DEF OnOff
<1>5. led' \in ledctrl /\ led'.mode = mode /\ led'.state = Shows[mode] /\ led'.pin = led.pin
  BY <1>0, <1>1, <1>3, <1>4, LedWithMode
<1>6. TaskShape' /\ ctrl'.at = (IF mode = "BLINK" THEN "pin" ELSE "stop") /\ timer' = timer
  BY <1>1, <1>3, GotoTask DEF ctrl, timer, Tasks
<1> QED BY <1>2, <1>5, <1>6 DEF SetMode

LEMMA SetModeTypes == ASSUME TypeInv, UNCHANGED up, SetMode PROVE TypeInv'
<1>1. TaskShape' /\ timer' = timer /\ ctrl'.at \in {"pin", "stop"} /\ led' \in ledctrl
      /\ budget' \in Budget /\ budget'.services = budget.services
  BY SetModeDoes
<1>2. TasksOK'
  BY <1>1 DEF SetMode, TypeInv, TasksOK, CtrlPoints, PublicationPoints
<1>3. TextShape' /\ TextOK'
  BY <1>1 DEF SetMode, TypeInv, TextShape, TextOK, ctrl, timer, Tasks
<1>4. late' \in BOOLEAN
  BY DEF SetMode
<1> QED BY <1>1, <1>2, <1>3, <1>4 DEF SetMode, TypeInv

LEMMA StopLedTypes == ASSUME TypeInv, UNCHANGED up, StopLed PROVE TypeInv'
<1>1. TaskShape' /\ timer' = timer /\ ctrl'.at = "pin"
  BY CtrlGoes DEF TypeInv, StopLed
<1>2. queue' \in Seq(Commands) /\ Len(queue') <= QueueLength
  BY PlainCommand, PostQueue DEF TypeInv, StopLed, Timers
<1>3. TasksOK'
  BY <1>1 DEF StopLed, TypeInv, TasksOK, CtrlPoints, PublicationPoints
<1>4. TextShape' /\ TextOK'
  BY <1>1 DEF StopLed, TypeInv, TextShape, TextOK, ctrl, timer, Tasks
<1> QED BY <1>1, <1>2, <1>3, <1>4 DEF StopLed, TypeInv

LEMMA WritePinTypes == ASSUME TypeInv, UNCHANGED up, WritePin PROVE TypeInv'
<1>1. TaskShape' /\ timer' = timer /\ ctrl'.at \in {"start", "rest"}
  BY CtrlGoes DEF TypeInv, WritePin
<1>2. led' \in ledctrl
  BY LedWithPin DEF TypeInv, WritePin
<1>3. TasksOK'
  BY <1>1 DEF WritePin, TypeInv, TasksOK, CtrlPoints, PublicationPoints
<1>4. TextShape' /\ TextOK'
  BY <1>1 DEF WritePin, TypeInv, TextShape, TextOK, ctrl, timer, Tasks
<1> QED BY <1>1, <1>2, <1>3, <1>4 DEF WritePin, TypeInv

LEMMA StartLedTypes == ASSUME TypeInv, UNCHANGED up, StartLed PROVE TypeInv'
<1>1. TaskShape' /\ timer' = timer /\ ctrl'.at = "rest"
  BY CtrlFinishes DEF TypeInv, StartLed
<1>2. queue' \in Seq(Commands) /\ Len(queue') <= QueueLength
  BY PlainCommand, PostQueue DEF TypeInv, StartLed, Timers
<1>3. TasksOK'
  BY <1>1 DEF StartLed, TypeInv, TasksOK, CtrlPoints, PublicationPoints
<1>4. TextShape' /\ TextOK'
  BY <1>1 DEF StartLed, TypeInv, TextShape, TextOK, ctrl, timer, Tasks
<1> QED BY <1>1, <1>2, <1>3, <1>4 DEF StartLed, TypeInv

LEMMA WriteSlopeTypes == ASSUME TypeInv, UNCHANGED up, WriteSlope PROVE TypeInv'
<1>1. TaskShape' /\ timer' = timer /\ ctrl'.at = "intercept"
  BY CtrlGoes DEF TypeInv, WriteSlope
<1>2. budget' \in Budget /\ budget'.services = budget.services
  BY SpendBudget DEF TypeInv, WriteSlope
<1>3. TasksOK'
  BY <1>1, <1>2 DEF WriteSlope, TypeInv, TasksOK, CtrlPoints, PublicationPoints
<1>4. TextShape' /\ TextOK'
  BY <1>1 DEF WriteSlope, TypeInv, TextShape, TextOK, ctrl, timer, Tasks
<1> QED BY <1>1, <1>2, <1>3, <1>4 DEF WriteSlope, TypeInv

LEMMA WriteInterceptTypes == ASSUME TypeInv, UNCHANGED up, WriteIntercept PROVE TypeInv'
<1>1. TaskShape' /\ timer' = timer /\ ctrl'.at = "rest"
  BY CtrlFinishes DEF TypeInv, WriteIntercept
<1>2. TasksOK'
  BY <1>1 DEF WriteIntercept, TypeInv, TasksOK, CtrlPoints, PublicationPoints
<1>3. TextShape' /\ TextOK'
  BY <1>1 DEF WriteIntercept, TypeInv, TextShape, TextOK, ctrl, timer, Tasks
<1> QED BY <1>1, <1>2, <1>3 DEF WriteIntercept, TypeInv

LEMMA CopyServiceTypes == ASSUME TypeInv, UNCHANGED up, CopyService PROVE TypeInv'
<1>1. PICK s \in budget.services : Goto("ctrl", "connect", <<s>>)
  BY DEF CopyService
<1>2. TaskShape' /\ timer' = timer /\ ctrl'.at = "connect" /\ ctrl'.job[1] = s
  BY <1>1, CtrlGoes DEF TypeInv
<1>3. budget' \in Budget /\ budget'.services = budget.services /\ scfg' \in budget'.services \union {Nothing, Torn}
  BY SpendBudget DEF TypeInv, CopyService
<1>4. TasksOK'
  BY <1>2, <1>3 DEF CopyService, TypeInv, TasksOK, CtrlPoints, PublicationPoints
<1>5. TextShape' /\ TextOK'
  BY <1>2 DEF CopyService, TypeInv, TextShape, TextOK, ctrl, timer, Tasks
<1> QED BY <1>2, <1>3, <1>4, <1>5 DEF CopyService, TypeInv

\* A field of the client, written.
LEMMA ClientWith ==
  ASSUME TypeInv, NEW c \in BOOLEAN, NEW b, NEW s, NEW l
  PROVE  /\ LET new == [client EXCEPT !.connected = c] IN
            /\ DOMAIN new = ClientFields /\ new.connected = c
            /\ new.buffer = client.buffer /\ new.topics = client.topics /\ new.login = client.login
         /\ LET new == [client EXCEPT !.connected = c, !.topics = s, !.login = l] IN
            /\ DOMAIN new = ClientFields /\ new.connected = c /\ new.buffer = client.buffer
            /\ new.topics = s /\ new.login = l
         /\ LET new == [client EXCEPT !.login = l] IN
            /\ DOMAIN new = ClientFields /\ new.connected = client.connected
            /\ new.buffer = client.buffer /\ new.topics = client.topics /\ new.login = l
         /\ LET new == [client EXCEPT !.topics = s] IN
            /\ DOMAIN new = ClientFields /\ new.connected = client.connected
            /\ new.buffer = client.buffer /\ new.topics = s /\ new.login = client.login
         /\ LET new == [client EXCEPT !.buffer = b] IN
            /\ DOMAIN new = ClientFields /\ new.connected = client.connected
            /\ new.buffer = b /\ new.topics = client.topics /\ new.login = client.login
BY DEF TypeInv, TextShape, ClientFields

LEMMA ConnectDoes ==
  ASSUME TypeInv, Connect
  PROVE  /\ TaskShape' /\ timer' = timer /\ scfg' = ctrl.job[1] /\ scfg' \in budget.services
         /\ TextShape' /\ client'.buffer = client.buffer
         /\ \/ ctrl'.at = "subscribe" /\ ctrl'.job[1] = 1 /\ client'.login = scfg'
            \/ ctrl'.at = "rest" /\ client'.login = client.login
<1>1. scfg' = ctrl.job[1] /\ scfg' \in budget.services
  BY DEF Connect, TypeInv, TasksOK
<1>2. client.connected \in BOOLEAN /\ client.topics \subseteq Listened /\ UNCHANGED jsonstatus /\ TextShape
  BY DEF TypeInv, TextShape, Connect
<1>3. CASE Goto("ctrl", "subscribe", <<1>>)
            /\ \/ client' = [client EXCEPT !.login = scfg']
               \/ client' = [client EXCEPT !.connected = TRUE, !.topics = {}, !.login = scfg']
  <2>1. TaskShape' /\ timer' = timer /\ ctrl'.at = "subscribe" /\ ctrl'.job = <<1>>
    BY <1>3, CtrlGoes DEF TypeInv
  <2>2. DOMAIN client' = ClientFields /\ client'.connected \in BOOLEAN /\ client'.topics \subseteq Listened
        /\ client'.buffer = client.buffer /\ client'.login = scfg'
    <3>1. CASE client' = [client EXCEPT !.login = scfg']
      BY <1>2, <3>1, ClientWith
    <3>2. CASE client' = [client EXCEPT !.connected = TRUE, !.topics = {}, !.login = scfg']
      <4> DEFINE none == {}  yes == TRUE
      <4>1. yes \in BOOLEAN /\ none \subseteq Listened
        OBVIOUS
      <4>2. client' = [client EXCEPT !.connected = yes, !.topics = none, !.login = scfg']
        BY <3>2
      <4> HIDE DEF none, yes
      <4> QED BY <4>1, <4>2, ClientWith
    <3> QED BY <1>3, <3>1, <3>2
  <2>3. TextShape'
    BY <1>2, <2>2 DEF TextShape
  <2>4. ctrl'.job[1] = 1
    BY <2>1
  <2> QED BY <1>1, <2>1, <2>2, <2>3, <2>4
<1>4. CASE Finish("ctrl") /\ UNCHANGED client
  BY <1>1, <1>2, <1>4, CtrlFinishes DEF TypeInv, TextShape
<1> QED BY <1>3, <1>4 DEF Connect

LEMMA ConnectTypes == ASSUME TypeInv, UNCHANGED up, Connect PROVE TypeInv'
<1>1. /\ TaskShape' /\ timer' = timer /\ scfg' \in budget.services
      /\ TextShape' /\ client'.buffer = client.buffer
      /\ \/ ctrl'.at = "subscribe" /\ ctrl'.job[1] \in 1..2 /\ client'.login = scfg'
         \/ ctrl'.at = "rest" /\ client'.login = client.login
  <2>1. 1 \in 1..2
    BY SMT
  <2> QED BY <2>1, ConnectDoes
<1>2. TasksOK'
  BY <1>1 DEF Connect, TypeInv, TasksOK, CtrlPoints, PublicationPoints
<1>3. TextOK'
  BY <1>1 DEF Connect, TypeInv, TextOK, ctrl, timer, Tasks
<1> QED BY <1>1, <1>2, <1>3 DEF Connect, TypeInv

LEMMA SubscribeDoes ==
  ASSUME TypeInv, Subscribe
  PROVE  /\ TaskShape' /\ timer' = timer /\ ctrl'.at = "subscribing"
         /\ ctrl'.job = ctrl.job
         /\ TextShape' /\ client'.connected = client.connected /\ client'.login = client.login
         /\ client'.buffer = client.buffer \/ client'.buffer[1] = "subscribe"
<1> DEFINE packet == <<"subscribe", Topics[ctrl.job[1]]>>
<1>1. TaskShape' /\ timer' = timer /\ ctrl'.at = "subscribing" /\ ctrl'.job = ctrl.job
  BY CtrlGoes DEF TypeInv, Subscribe
<1>2. client' = [client EXCEPT !.buffer = packet] \/ client' = client
  BY DEF Subscribe
<1>3. packet[1] = "subscribe"
  OBVIOUS
<1> HIDE DEF packet
<1>4. /\ DOMAIN client' = ClientFields /\ client'.connected = client.connected /\ client'.login = client.login
      /\ client'.buffer = client.buffer \/ client'.buffer = packet
      /\ client'.topics = client.topics
  <2>1. CASE client' = [client EXCEPT !.buffer = packet]
    BY <2>1, ClientWith
  <2>2. CASE client' = client
    BY <2>2 DEF TypeInv, TextShape
  <2> QED BY <1>2, <2>1, <2>2
<1>5. TextShape'
  BY <1>4 DEF TypeInv, TextShape, Subscribe
<1> QED BY <1>1, <1>3, <1>4, <1>5

LEMMA SubscribeTypes == ASSUME TypeInv, UNCHANGED up, Subscribe PROVE TypeInv'
<1>1. /\ TaskShape' /\ timer' = timer /\ ctrl.at = "subscribe" /\ ctrl'.at = "subscribing"
      /\ ctrl'.job = ctrl.job
      /\ TextShape' /\ client'.login = client.login
      /\ client'.buffer = client.buffer \/ client'.buffer[1] = "subscribe"
  BY SubscribeDoes DEF Subscribe
<1>2. TasksOK'
  BY <1>1 DEF Subscribe, TypeInv, TasksOK, CtrlPoints, PublicationPoints
<1>3. TextOK'
  BY <1>1 DEF Subscribe, TypeInv, TextOK, ctrl, timer, Tasks
<1> QED BY <1>1, <1>2, <1>3 DEF Subscribe, TypeInv

LEMMA SubscribedDoes ==
  ASSUME TypeInv, Subscribed
  PROVE  /\ TaskShape' /\ timer' = timer
         /\ \/ ctrl'.at = "subscribe" /\ ctrl'.job[1] \in 1..2
            \/ ctrl'.at = "timers" /\ ctrl'.job[1] = 1
         /\ TextShape'
         /\ client'.login = client.login /\ client'.buffer = client.buffer
<1>0. ctrl.job[1] \in 1..2 /\ Len(Topics) = 2 /\ Topics[1] \in Listened /\ Topics[2] \in Listened
  BY SMT DEF TypeInv, TasksOK, Subscribed, Topics, Listened
<1>1. /\ TaskShape' /\ timer' = timer
      /\ \/ ctrl'.at = "subscribe" /\ ctrl'.job[1] \in 1..2
         \/ ctrl'.at = "timers" /\ ctrl'.job[1] = 1
  <2> DEFINE n == ctrl.job[1] + 1
  <2>1. (Goto("ctrl", "subscribe", <<n>>) /\ ctrl.job[1] < 2) \/ Goto("ctrl", "timers", <<1>>)
    BY <1>0 DEF Subscribed
  <2>4. ctrl.job[1] < 2 => n \in 1..2
    BY SMT, <1>0
  <2> HIDE DEF n
  <2>2. CASE Goto("ctrl", "subscribe", <<n>>) /\ ctrl.job[1] < 2
    <3>1. TaskShape' /\ timer' = timer /\ ctrl'.at = "subscribe" /\ ctrl'.job = <<n>>
      BY <2>2, CtrlGoes DEF TypeInv
    <3> QED BY <2>2, <2>4, <3>1
  <2>3. CASE Goto("ctrl", "timers", <<1>>)
    <3>1. TaskShape' /\ timer' = timer /\ ctrl'.at = "timers" /\ ctrl'.job = <<1>>
      BY <2>3, CtrlGoes DEF TypeInv
    <3> QED BY <3>1
  <2> QED BY <2>1, <2>2, <2>3
<1>2. /\ DOMAIN client' = ClientFields /\ client'.connected \in BOOLEAN /\ client'.topics \subseteq Listened
      /\ client'.login = client.login /\ client'.buffer = client.buffer
  <2> DEFINE some == IF client.connected THEN client.topics \union {Topics[ctrl.job[1]]} ELSE client.topics
  <2>1. \/ client' = [client EXCEPT !.topics = some]
        \/ \E ends \in BOOLEAN : client' = [client EXCEPT !.connected = client.connected /\ ~ends]
    BY DEF Subscribed
  <2>4. some \subseteq Listened
    <3>1. Topics[ctrl.job[1]] \in Listened
      BY SMT, <1>0
    <3> QED BY <3>1 DEF TypeInv, TextShape
  <2> HIDE DEF some
  <2>2. CASE client' = [client EXCEPT !.topics = some]
    BY <2>2, <2>4, ClientWith DEF TypeInv, TextShape
  <2>3. ASSUME NEW ends \in BOOLEAN, client' = [client EXCEPT !.connected = client.connected /\ ~ends]
        PROVE  /\ DOMAIN client' = ClientFields /\ client'.connected \in BOOLEAN
               /\ client'.topics = client.topics /\ client'.login = client.login /\ client'.buffer = client.buffer
    <3> DEFINE c == client.connected /\ ~ends
    <3>1. c \in BOOLEAN
      OBVIOUS
    <3>2. client' = [client EXCEPT !.connected = c]
      BY <2>3
    <3> HIDE DEF c
    <3> QED BY <3>1, <3>2, ClientWith
  <2> QED BY <2>1, <2>2, <2>3 DEF TypeInv, TextShape
<1>3. TextShape'
  BY <1>2 DEF TypeInv, TextShape, Subscribed
<1> QED BY <1>1, <1>2, <1>3

LEMMA SubscribedTypes == ASSUME TypeInv, UNCHANGED up, Subscribed PROVE TypeInv'
<1>1. /\ TaskShape' /\ timer' = timer /\ ctrl.at = "subscribing"
      /\ \/ ctrl'.at = "subscribe" /\ ctrl'.job[1] \in 1..2
         \/ ctrl'.at = "timers" /\ ctrl'.job[1] \in 1..4
      /\ TextShape'
      /\ client'.login = client.login /\ client'.buffer = client.buffer
  <2>1. 1 \in 1..4
    BY SMT
  <2> QED BY <2>1, SubscribedDoes DEF Subscribed
<1>2. TasksOK'
  BY <1>1 DEF Subscribed, TypeInv, TasksOK, CtrlPoints, PublicationPoints
<1>3. TextOK'
  BY <1>1 DEF Subscribed, TypeInv, TextOK, ctrl, timer, Tasks
<1> QED BY <1>1, <1>2, <1>3 DEF Subscribed, TypeInv

LEMMA SetTimersTypes == ASSUME TypeInv, UNCHANGED up, SetTimers PROVE TypeInv'
<1> DEFINE n == ctrl.job[1]
<1>1. n \in 1..4 /\ scfg \in budget.services /\ scfg \in Services
  BY DEF SetTimers, TypeInv, TasksOK, Budget
<1>2. LoginCommands[n] \in Commands /\ Len(LoginCommands) = 4
  BY <1>1, LoginCommandsAre
<1>3. /\ Post(LoginCommands[n])
      /\ IF n = Len(LoginCommands) THEN Finish("ctrl") ELSE Goto("ctrl", "timers", <<n + 1>>)
  BY DEF SetTimers
<1> HIDE DEF n
<1>4. queue' \in Seq(Commands) /\ Len(queue') <= QueueLength
  BY <1>2, <1>3, PostQueue DEF TypeInv
<1>5. TaskShape' /\ timer' = timer /\ (ctrl'.at = "rest" \/ (ctrl'.at = "timers" /\ ctrl'.job[1] \in 1..4))
  <2>1. CASE n = 4
    BY <1>2, <1>3, <2>1, CtrlFinishes DEF TypeInv
  <2>2. CASE n # 4
    <3>1. n + 1 \in 1..4 /\ Goto("ctrl", "timers", <<n + 1>>)
      BY SMT, <1>1, <1>2, <1>3, <2>2
    <3>2. TaskShape' /\ timer' = timer /\ ctrl'.at = "timers" /\ ctrl'.job = <<n + 1>>
      BY <3>1, CtrlGoes DEF TypeInv
    <3>3. ctrl'.job[1] = n + 1
      BY <3>2
    <3> QED BY <3>1, <3>2, <3>3
  <2> QED BY <2>1, <2>2
<1>6. TasksOK'
  BY <1>1, <1>5 DEF SetTimers, TypeInv, TasksOK, CtrlPoints, PublicationPoints
<1>7. TextShape' /\ TextOK'
  BY <1>5 DEF SetTimers, TypeInv, TextShape, TextOK, ctrl, timer, Tasks
<1> QED BY <1>4, <1>5, <1>6, <1>7 DEF SetTimers, TypeInv

LEMMA ReceiveDoes ==
  ASSUME TypeInv, Receive
  PROVE  \E topic \in Listened, value \in OnOff \union {"other"} :
           /\ TextShape'
           /\ client'.connected = client.connected /\ client'.login = client.login
           /\ client'.buffer[1] = topic /\ client'.buffer[2] = value
           /\ IF topic = "relay1" /\ value # "other" THEN asked' = value /\ missed' = FALSE ELSE UNCHANGED <<asked, missed>>
<1>1. PICK topic \in client.topics, value \in OnOff \union {"other"} :
       LET asks == topic = "relay1" /\ value # "other" IN
       /\ client' = [client EXCEPT !.buffer = <<topic, value>>]
       /\ asked' = IF asks THEN value ELSE asked
       /\ missed' = (missed /\ ~asks)
  BY DEF Receive
<1> DEFINE message == <<topic, value>>
<1>2. client' = [client EXCEPT !.buffer = message] /\ message[1] = topic /\ message[2] = value
  BY <1>1
<1> HIDE DEF message
<1>3. /\ DOMAIN client' = ClientFields /\ client'.connected = client.connected /\ client'.login = client.login
      /\ client'.buffer = message /\ client'.topics = client.topics
  BY <1>2, ClientWith DEF TypeInv, TextShape
<1>4. missed \in BOOLEAN /\ topic \in Listened
  BY DEF TypeInv, TextShape
<1>5. IF topic = "relay1" /\ value # "other" THEN asked' = value /\ missed' = FALSE ELSE UNCHANGED <<asked, missed>>
  BY <1>1, <1>4
<1>6. TextShape'
  BY <1>3 DEF TypeInv, TextShape, Receive
<1> QED BY <1>2, <1>3, <1>4, <1>5, <1>6

LEMMA ReceiveTypes == ASSUME TypeInv, UNCHANGED up, Receive PROVE TypeInv'
<1>1. TaskShape' /\ timer' = timer /\ ctrl'.at = "handle"
  BY CtrlGoes DEF TypeInv, Receive
<1>2. budget' \in Budget /\ budget'.services = budget.services
  BY SpendBudget DEF TypeInv, Receive
<1>3. PICK topic \in Listened, value \in OnOff \union {"other"} :
           /\ TextShape'
           /\ client'.connected = client.connected /\ client'.login = client.login
           /\ client'.buffer[1] = topic /\ client'.buffer[2] = value
           /\ IF topic = "relay1" /\ value # "other" THEN asked' = value /\ missed' = FALSE ELSE UNCHANGED <<asked, missed>>
  BY ReceiveDoes
<1>4. TasksOK'
  BY <1>1, <1>2, <1>3 DEF Receive, TypeInv, TasksOK, CtrlPoints, PublicationPoints
<1>5. TextOK'
  <2>1. client'.buffer[1] # "ping"
    BY <1>3 DEF Listened
  <2> QED BY <1>1, <1>3, <2>1 DEF Receive, TypeInv, TextOK, ctrl, timer, Tasks
<1>6. asked' \in OnOff /\ missed' \in BOOLEAN
  BY <1>3 DEF TypeInv, OnOff
<1> QED BY <1>1, <1>2, <1>3, <1>4, <1>5, <1>6 DEF Receive, TypeInv

LEMMA UnknownTypes == ASSUME TypeInv, UNCHANGED up, Unknown PROVE TypeInv'
<1>1. TaskShape' /\ timer' = timer /\ ctrl'.at = "rest"
  BY CtrlFinishes DEF TypeInv, Unknown
<1>2. TasksOK'
  BY <1>1 DEF Unknown, TypeInv, TasksOK, CtrlPoints, PublicationPoints
<1>3. TextShape' /\ TextOK'
  BY <1>1 DEF Unknown, TypeInv, TextShape, TextOK, ctrl, timer, Tasks
<1>4. missed' \in BOOLEAN
  BY DEF Unknown
<1> QED BY <1>1, <1>2, <1>3, <1>4 DEF Unknown, TypeInv

LEMMA StatusWith ==
  ASSUME ctrlStatus \in ctrl_status, NEW v \in OnOff
  PROVE  /\ [ctrlStatus EXCEPT !.relay1 = v] \in ctrl_status /\ [ctrlStatus EXCEPT !.enableTemp = v] \in ctrl_status
         /\ [ctrlStatus EXCEPT !.relay1 = v].relay1 = v /\ [ctrlStatus EXCEPT !.enableTemp = v].enableTemp = v
         /\ [ctrlStatus EXCEPT !.relay1 = v].enableTemp = ctrlStatus.enableTemp
         /\ [ctrlStatus EXCEPT !.enableTemp = v].relay1 = ctrlStatus.relay1
         /\ ctrlStatus.relay1 \in OnOff /\ ctrlStatus.enableTemp \in OnOff
BY DEF ctrl_status

LEMMA RelayDoes ==
  ASSUME TypeInv, Relay
  PROVE  /\ ctrlStatus' \in ctrl_status /\ ctrlStatus'.enableTemp = ctrlStatus.enableTemp
         /\ ctrlStatus'.relay1 = IF client.buffer[2] = "other" THEN ctrlStatus.relay1 ELSE client.buffer[2]
<1> DEFINE v == IF client.buffer[2] = "other" THEN ctrlStatus.relay1 ELSE client.buffer[2]
<1>1. client.buffer[2] \in OnOff \union {"other"}
  BY DEF TypeInv, TextOK, Relay
<1>2. v \in OnOff /\ ctrlStatus \in ctrl_status
  BY <1>1, StatusWith DEF TypeInv
<1>3. ctrlStatus' = [ctrlStatus EXCEPT !.relay1 = v]
  BY DEF Relay
<1> HIDE DEF v
<1>4. ctrlStatus' \in ctrl_status /\ ctrlStatus'.enableTemp = ctrlStatus.enableTemp /\ ctrlStatus'.relay1 = v
  BY <1>2, <1>3, StatusWith
<1> QED BY <1>4 DEF v

LEMMA RelayTypes == ASSUME TypeInv, UNCHANGED up, Relay PROVE TypeInv'
<1>1. TaskShape' /\ timer' = timer /\ ctrl'.at = "slope" /\ ctrl'.job[1] = "ping"
  BY CtrlGoes DEF TypeInv, Relay
<1>2. ctrlStatus' \in ctrl_status
  BY RelayDoes
<1>3. TasksOK'
  BY <1>1 DEF Relay, TypeInv, TasksOK, CtrlPoints, PublicationPoints
<1>4. TextShape' /\ TextOK'
  BY <1>1 DEF Relay, TypeInv, TextShape, TextOK, ctrl, timer, Tasks
<1> QED BY <1>1, <1>2, <1>3, <1>4 DEF Relay, TypeInv

LEMMA TransmitTypes == ASSUME TypeInv, UNCHANGED up, Transmit PROVE TypeInv'
<1> DEFINE value == client.buffer[2]
<1>1. value \in OnOff \union {"other"}
  BY DEF TypeInv, TextOK, Transmit
<1>2. /\ TaskShape' /\ timer' = timer /\ queue' \in Seq(Commands) /\ Len(queue') <= QueueLength
      /\ \/ ctrl'.at = "slope" /\ ctrl'.job[1] = "ping"
         \/ ctrl'.at = "transmit" /\ ctrl'.job[1] \in OnOff
  <2>1. CASE value = "other"
    BY <2>1, CtrlGoes DEF TypeInv, Transmit
  <2>2. CASE value # "other"
    <3> DEFINE name == IF value = "ON" THEN "start" ELSE "stop"
    <3>1. Post(Command(name, "temp")) /\ Goto("ctrl", "transmit", <<value>>)
      BY <2>2 DEF Transmit
    <3>2. name \in {"start", "stop"}
      OBVIOUS
    <3> HIDE DEF name, value
    <3>3. queue' \in Seq(Commands) /\ Len(queue') <= QueueLength
      BY <3>1, <3>2, PlainCommand, PostQueue DEF TypeInv, Timers
    <3>4. TaskShape' /\ timer' = timer /\ ctrl'.at = "transmit" /\ ctrl'.job[1] = value
      BY <3>1, CtrlGoes DEF TypeInv
    <3> QED BY <1>1, <2>2, <3>3, <3>4
  <2> QED BY <2>1, <2>2
<1>3. TasksOK'
  BY <1>2 DEF Transmit, TypeInv, TasksOK, CtrlPoints, PublicationPoints
<1>4. TextShape' /\ TextOK'
  BY <1>2 DEF Transmit, TypeInv, TextShape, TextOK, ctrl, timer, Tasks
<1> QED BY <1>2, <1>3, <1>4 DEF Transmit, TypeInv

LEMMA EnableTempTypes == ASSUME TypeInv, UNCHANGED up, EnableTemp PROVE TypeInv'
<1>1. TaskShape' /\ timer' = timer /\ ctrl'.at = "slope" /\ ctrl'.job[1] = "ping"
  BY CtrlGoes DEF TypeInv, EnableTemp
<1>2. ctrlStatus' \in ctrl_status
  BY StatusWith DEF TypeInv, TasksOK, EnableTemp
<1>3. TasksOK'
  BY <1>1 DEF EnableTemp, TypeInv, TasksOK, CtrlPoints, PublicationPoints
<1>4. TextShape' /\ TextOK'
  BY <1>1 DEF EnableTemp, TypeInv, TextShape, TextOK, ctrl, timer, Tasks
<1> QED BY <1>1, <1>2, <1>3, <1>4 DEF EnableTemp, TypeInv

LEMMA DropDoes ==
  ASSUME TypeInv, Drop
  PROVE  /\ TextShape' /\ client'.connected = FALSE /\ client'.buffer = client.buffer /\ client'.login = client.login
         /\ budget' \in Budget /\ budget'.services = budget.services
<1>1. budget' \in Budget /\ budget'.services = budget.services
  BY SpendBudget DEF TypeInv, Drop
<1>2. /\ DOMAIN client' = ClientFields /\ client'.connected = FALSE /\ client'.buffer = client.buffer
      /\ client'.login = client.login /\ client'.topics = client.topics
  BY ClientWith DEF Drop
<1>3. TextShape'
  BY <1>2 DEF Drop, TypeInv, TextShape
<1> QED BY <1>1, <1>2, <1>3

LEMMA DropTypes == ASSUME TypeInv, UNCHANGED up, Drop PROVE TypeInv'
<1>1. TaskShape' /\ TasksOK'
  BY DropDoes DEF Drop, TypeInv, TaskShape, TasksOK, ctrl, timer
<1>2. TextOK'
  BY DropDoes DEF Drop, TypeInv, TextOK, ctrl, timer
<1> QED BY <1>1, <1>2, DropDoes DEF Drop, TypeInv

\* A publication, by either task.
LEMMA GoesOn ==
  ASSUME TypeInv, NEW t \in Tasks, NEW from \in PublicationPoints, NEW to \in PublicationPoints, NEW seen,
         Step(t, from, to, seen), UNCHANGED <<budget, scfg>>, client'.login = client.login
  PROVE  /\ TaskShape' /\ TasksOK' /\ task[t].at = from /\ task'[t].at = to /\ task'[t].seen = seen
         /\ task'[t].job = task[t].job
         /\ \A u \in Tasks \ {t} : task'[u] = task[u]
<1>1. /\ TaskShape' /\ task[t].at = from /\ task'[t].at = to /\ task'[t].job = task[t].job /\ task'[t].seen = seen
      /\ \A u \in Tasks \ {t} : task'[u] = task[u]
  BY StepTask DEF TypeInv
<1>2. from \notin TogglePoints /\ to \notin TogglePoints \union {"connect", "subscribe", "subscribing", "timers", "transmit"}
  BY DEF PublicationPoints, TogglePoints
<1>3. CASE t = "ctrl"
  BY <1>1, <1>2, <1>3 DEF TypeInv, TasksOK, CtrlPoints, ctrl, timer, Tasks
<1>4. CASE t = "timer"
  BY <1>1, <1>2, <1>4 DEF TypeInv, TasksOK, TimerPoints, ctrl, timer, Tasks
<1> QED BY <1>1, <1>3, <1>4 DEF Tasks

LEMMA IsOver ==
  ASSUME TypeInv, NEW t \in Tasks, Finish(t), UNCHANGED <<budget, scfg>>, client'.login = client.login
  PROVE  TaskShape' /\ TasksOK' /\ task'[t].at = "rest" /\ \A u \in Tasks \ {t} : task'[u] = task[u]
<1>1. TaskShape' /\ task'[t].at = "rest" /\ \A u \in Tasks \ {t} : task'[u] = task[u]
  BY FinishTask DEF TypeInv
<1>2. CASE t = "ctrl"
  BY <1>1, <1>2 DEF TypeInv, TasksOK, CtrlPoints, PublicationPoints, ctrl, timer, Tasks
<1>3. CASE t = "timer"
  BY <1>1, <1>3 DEF TypeInv, TasksOK, TimerPoints, TogglePoints, PublicationPoints, ctrl, timer, Tasks
<1> QED BY <1>1, <1>2, <1>3 DEF Tasks

LEMMA JobOfPublication ==
  ASSUME TypeInv, NEW t \in Tasks, task[t].at \in PublicationPoints
  PROVE  task[t].job[1] \in Publishing
BY DEF TypeInv, TasksOK, Tasks, ctrl, timer, Publishing

LEMMA ReadSlopeTypes == ASSUME TypeInv, UNCHANGED up, NEW t \in Tasks, ReadSlope(t) PROVE TypeInv'
<1>1. /\ TaskShape' /\ TasksOK' /\ task'[t].at = "intercept read"
      /\ \A u \in Tasks \ {t} : task'[u] = task[u]
  BY GoesOn DEF ReadSlope, PublicationPoints
<1>2. TextShape' /\ TextOK'
  BY <1>1 DEF ReadSlope, TypeInv, TextShape, TextOK, ctrl, Tasks
<1> QED BY <1>1, <1>2 DEF ReadSlope, TypeInv

LEMMA ReadStatusTypes == ASSUME TypeInv, UNCHANGED up, NEW t \in Tasks, ReadStatus(t) PROVE TypeInv'
<1>1. /\ TaskShape' /\ TasksOK' /\ task'[t].at = "line" /\ task'[t].seen[3] = ctrlStatus
      /\ \A u \in Tasks \ {t} : task'[u] = task[u]
  <2> DEFINE seen == <<task[t].seen[1], eq.b, ctrlStatus>>
  <2>1. Step(t, "intercept read", "line", seen) /\ UNCHANGED <<budget, scfg, client>>
    BY DEF ReadStatus
  <2>2. seen[3] = ctrlStatus
    OBVIOUS
  <2> HIDE DEF seen
  <2>3. /\ TaskShape' /\ TasksOK' /\ task'[t].at = "line" /\ task'[t].seen = seen
        /\ \A u \in Tasks \ {t} : task'[u] = task[u]
    BY <2>1, GoesOn DEF PublicationPoints
  <2> QED BY <2>2, <2>3
<1>2. TextShape' /\ TextOK'
  BY <1>1 DEF ReadStatus, TypeInv, TextShape, TextOK, ctrl, Tasks
<1> QED BY <1>1, <1>2 DEF ReadStatus, TypeInv

LEMMA FormatLineTypes == ASSUME TypeInv, UNCHANGED up, NEW t \in Tasks, FormatLine(t) PROVE TypeInv'
<1>1. /\ TaskShape' /\ TasksOK' /\ task[t].at = "line" /\ task'[t].at = "status" /\ task'[t].seen = task[t].seen
      /\ \A u \in Tasks \ {t} : task'[u] = task[u]
  <2> DEFINE seen == task[t].seen
  <2>1. Step(t, "line", "status", seen) /\ UNCHANGED <<budget, scfg, client>>
    BY DEF FormatLine
  <2> HIDE DEF seen
  <2>2. /\ TaskShape' /\ TasksOK' /\ task[t].at = "line" /\ task'[t].at = "status" /\ task'[t].seen = seen
        /\ \A u \in Tasks \ {t} : task'[u] = task[u]
    BY <2>1, GoesOn DEF PublicationPoints
  <2> QED BY <2>2 DEF seen
<1>2. DOMAIN jsonstatus' = {"m", "b", "status"} /\ jsonstatus'.status = jsonstatus.status
  BY DEF FormatLine, TypeInv, TextShape
<1>3. TextShape' /\ TextOK'
  BY <1>1, <1>2 DEF FormatLine, TypeInv, TextShape, TextOK, ctrl, Tasks
<1> QED BY <1>1, <1>3 DEF FormatLine, TypeInv

LEMMA FormatStatusTypes == ASSUME TypeInv, UNCHANGED up, NEW t \in Tasks, FormatStatus(t) PROVE TypeInv'
<1>1. /\ TaskShape' /\ TasksOK' /\ task[t].at = "status" /\ task'[t].at = "publish"
      /\ \A u \in Tasks \ {t} : task'[u] = task[u]
  BY GoesOn DEF FormatStatus, PublicationPoints
<1>2. DOMAIN jsonstatus' = {"m", "b", "status"} /\ jsonstatus'.status = task[t].seen[3]
  BY DEF FormatStatus, TypeInv, TextShape
<1>3. task[t].seen[3] \in ctrl_status
  BY <1>1 DEF TypeInv, TextOK
<1>4. TextShape' /\ TextOK'
  BY <1>1, <1>2, <1>3 DEF FormatStatus, TypeInv, TextShape, TextOK, ctrl, Tasks
<1> QED BY <1>1, <1>4 DEF FormatStatus, TypeInv

LEMMA DropsTypes == ASSUME TypeInv, UNCHANGED up, NEW t \in Tasks, Drops(t) PROVE TypeInv'
<1>1. TaskShape' /\ TasksOK' /\ task'[t].at = "rest" /\ \A u \in Tasks \ {t} : task'[u] = task[u]
  BY IsOver DEF Drops
<1>2. TextShape' /\ TextOK'
  BY <1>1 DEF Drops, TypeInv, TextShape, TextOK, ctrl, Tasks
<1> QED BY <1>1, <1>2 DEF Drops, TypeInv

\* What is composed belongs to no topic the device has subscribed to.
LEMMA ComposeDoes ==
  ASSUME TypeInv, NEW t \in Tasks, Compose(t)
  PROVE  /\ TextShape' /\ client'.connected = client.connected /\ client'.login = client.login
         /\ client'.buffer[1] \notin {"relay1", "enableTemp"} /\ client'.buffer[2] = jsonstatus
<1> DEFINE topic == IF scfg = Torn THEN Torn ELSE task[t].job[1]
<1>1. task[t].job[1] \in Publishing
  BY JobOfPublication DEF Compose, PublicationPoints
<1>2. topic \notin {"relay1", "enableTemp"}
  BY <1>1, TornAssumption DEF Publishing
<1> DEFINE message == <<topic, jsonstatus>>
<1>3. client' = [client EXCEPT !.buffer = message] /\ UNCHANGED jsonstatus
  BY DEF Compose
<1>4. message[1] = topic /\ message[2] = jsonstatus
  OBVIOUS
<1> HIDE DEF topic, message
<1>5. /\ DOMAIN client' = ClientFields /\ client'.connected = client.connected /\ client'.buffer = message
      /\ client'.topics = client.topics /\ client'.login = client.login
  BY <1>3, ClientWith DEF TypeInv, TextShape
<1>6. TextShape'
  BY <1>3, <1>5 DEF TypeInv, TextShape
<1> QED BY <1>2, <1>4, <1>5, <1>6

LEMMA ComposeTypes == ASSUME TypeInv, UNCHANGED up, NEW t \in Tasks, Compose(t) PROVE TypeInv'
<1>1. /\ TaskShape' /\ TasksOK' /\ task[t].at = "publish" /\ task'[t].at = "send"
      /\ \A u \in Tasks \ {t} : task'[u] = task[u]
  BY GoesOn, ComposeDoes DEF Compose, PublicationPoints
<1>2. /\ TextShape' /\ client'.connected = client.connected /\ client'.login = client.login
      /\ client'.buffer[1] \notin {"relay1", "enableTemp"} /\ client'.buffer[2] = jsonstatus
  BY ComposeDoes
<1>3. jsonstatus.status \in ctrl_status
  BY <1>1 DEF TypeInv, TextOK
<1>4. TextOK'
  BY <1>1, <1>2, <1>3, ZenonT(60) DEF Compose, TypeInv, TextOK, ctrl, Tasks
<1> QED BY <1>1, <1>2, <1>4 DEF Compose, TypeInv

LEMMA SendTypes == ASSUME TypeInv, UNCHANGED up, NEW t \in Tasks, Send(t) PROVE TypeInv'
<1>1. TaskShape' /\ TasksOK' /\ task'[t].at = "rest" /\ \A u \in Tasks \ {t} : task'[u] = task[u]
  BY IsOver DEF Send
<1>2. told' = Nothing \/ told'.status \in ctrl_status
  BY DEF Send, TypeInv, TextOK
<1>3. TextShape' /\ TextOK'
  BY <1>1, <1>2 DEF Send, TypeInv, TextShape, TextOK, ctrl, Tasks
<1> QED BY <1>1, <1>3 DEF Send, TypeInv

LEMMA TimersDomain == ASSUME TypeInv PROVE DOMAIN timers = Timers
BY DEF TypeInv

LEMMA ExpireDoes ==
  ASSUME TypeInv, NEW t \in Timers, Expire(t)
  PROVE  /\ TaskShape' /\ ctrl' = ctrl /\ timer.at = "rest"
         /\ t = "led" => timer'.at = "toggle" /\ timer'.job = <<"led">>
         /\ t # "led" => timer'.at = "slope" /\ timer'.job[1] = t
<1>1. Goto("timer", IF t = "led" THEN "toggle" ELSE "slope", <<t>>) /\ timer.at = "rest"
  BY DEF Expire
<1>2. CASE t = "led"
  BY <1>1, <1>2, GotoTask DEF TypeInv, ctrl, timer, Tasks
<1>3. CASE t # "led"
  BY <1>1, <1>3, GotoTask DEF TypeInv, ctrl, timer, Tasks
<1> QED BY <1>2, <1>3

LEMMA ExpireTypes == ASSUME TypeInv, UNCHANGED up, NEW t \in Timers, Expire(t) PROVE TypeInv'
<1>1. /\ TaskShape' /\ ctrl' = ctrl
      /\ \/ timer'.at = "toggle" /\ timer'.job = <<"led">>
         \/ timer'.at = "slope" /\ timer'.job[1] \in Publishing
  BY ExpireDoes DEF Timers, Publishing
<1>2. TasksOK'
  BY <1>1 DEF Expire, TypeInv, TasksOK, TimerPoints, TogglePoints, PublicationPoints
<1>3. TextShape' /\ TextOK'
  BY <1>1 DEF Expire, TypeInv, TextShape, TextOK, ctrl, timer, Tasks
<1>4. late' \in BOOLEAN
  BY DEF Expire, TypeInv
<1> QED BY <1>1, <1>2, <1>3, <1>4 DEF Expire, TypeInv

LEMMA ReadStateTypes == ASSUME TypeInv, UNCHANGED up, ReadState PROVE TypeInv'
<1>1. TaskShape' /\ ctrl' = ctrl /\ timer.at = "toggle" /\ timer'.at = "toggled" /\ timer'.job = timer.job
  BY StepTask DEF ReadState, TypeInv, ctrl, timer, Tasks
<1>2. TasksOK'
  BY <1>1 DEF ReadState, TypeInv, TasksOK, TimerPoints, TogglePoints, PublicationPoints
<1>3. TextShape' /\ TextOK'
  BY <1>1 DEF ReadState, TypeInv, TextShape, TextOK, ctrl, timer, Tasks
<1> QED BY <1>1, <1>2, <1>3 DEF ReadState, TypeInv

LEMMA WriteStateTypes == ASSUME TypeInv, UNCHANGED up, WriteState PROVE TypeInv'
<1>1. TaskShape' /\ ctrl' = ctrl /\ timer.at = "toggled" /\ timer'.at = "show" /\ timer'.job = timer.job
  BY StepTask DEF WriteState, TypeInv, ctrl, timer, Tasks
<1>2. led' \in ledctrl
  BY LedWithState DEF WriteState, TypeInv, Shades
<1>3. TasksOK'
  BY <1>1 DEF WriteState, TypeInv, TasksOK, TimerPoints, TogglePoints, PublicationPoints
<1>4. TextShape' /\ TextOK'
  BY <1>1 DEF WriteState, TypeInv, TextShape, TextOK, ctrl, timer, Tasks
<1> QED BY <1>1, <1>2, <1>3, <1>4 DEF WriteState, TypeInv

LEMMA ShowStateTypes == ASSUME TypeInv, UNCHANGED up, ShowState PROVE TypeInv'
<1>1. TaskShape' /\ TasksOK' /\ ctrl' = ctrl /\ timer'.at = "rest"
  BY IsOver DEF ShowState, ctrl, timer, Tasks
<1>2. led' \in ledctrl
  BY LedWithPin DEF ShowState, TypeInv
<1>3. TextShape' /\ TextOK'
  BY <1>1 DEF ShowState, TypeInv, TextShape, TextOK, ctrl, timer, Tasks
<1> QED BY <1>1, <1>2, <1>3 DEF ShowState, TypeInv

\* A command: what it makes of its timer, and of the scheduler.
LEMMA ServeDoes ==
  ASSUME TypeInv, Serve
  PROVE  /\ queue[1] \in Commands /\ Len(queue) \in Nat \ {0}
         /\ queue' \in Seq(Commands) /\ Len(queue') = Len(queue) - 1
         /\ \A i \in 1..Len(queue') : queue'[i] = queue[i + 1]
         /\ timers' \in [Timers -> Timer] /\ queue[1].timer \in Timers
         /\ timers'[queue[1].timer].active = (queue[1].name # "stop")
         /\ queue[1].name = "change" => /\ queue[1].timer \in Publishing
                                        /\ timers'[queue[1].timer].ticks = queue[1].ticks
                                        /\ timers'[queue[1].timer].tp = queue[1].tp
         /\ queue[1].name # "change" => /\ timers'[queue[1].timer].ticks = timers[queue[1].timer].ticks
                                        /\ timers'[queue[1].timer].tp = timers[queue[1].timer].tp
         /\ \A t \in Timers \ {queue[1].timer} : timers'[t] = timers[t]
         /\ up' = ~(queue[1].name = "change" /\ queue[1].ticks = 0)
<1> DEFINE cmd == queue[1]
<1>1. /\ Head(queue) = cmd /\ cmd \in Commands
      /\ queue' \in Seq(Commands) /\ Len(queue') = Len(queue) - 1 /\ Len(queue) \in Nat \ {0}
      /\ \A i \in 1..Len(queue') : queue'[i] = queue[i + 1]
  BY TailQueue DEF TypeInv, Serve
<1>2. /\ timers' = [timers EXCEPT ![cmd.timer] =
                      IF cmd.name = "change" THEN [active |-> TRUE, ticks |-> cmd.ticks, tp |-> cmd.tp]
                      ELSE [@ EXCEPT !.active = cmd.name = "start"]]
      /\ up' = ~(cmd.name = "change" /\ cmd.ticks = 0)
  BY <1>1 DEF Serve
<1> HIDE DEF cmd
<1>3. CASE cmd \in Change
  <2>1. cmd.timer \in Publishing /\ cmd.timer \in Timers /\ cmd.name = "change" /\ cmd.ticks \in Nat /\ cmd.tp \in Periods
    BY <1>3 DEF Change, Publishing, Timers
  <2> DEFINE new == [active |-> TRUE, ticks |-> cmd.ticks, tp |-> cmd.tp]
  <2>2. new \in Timer /\ new.active = TRUE /\ new.ticks = cmd.ticks /\ new.tp = cmd.tp
    BY <2>1 DEF Timer
  <2>3. timers' = [timers EXCEPT ![cmd.timer] = new]
    BY <1>2, <2>1
  <2> HIDE DEF new
  <2>4. /\ timers' \in [Timers -> Timer] /\ timers'[cmd.timer] = new
        /\ \A t \in Timers \ {cmd.timer} : timers'[t] = timers[t]
    BY <2>1, <2>2, <2>3 DEF TypeInv
  <2> QED BY <1>1, <1>2, <2>1, <2>2, <2>4 DEF cmd
<1>4. CASE cmd \in Plain
  <2>1. cmd.timer \in Timers /\ cmd.name \in {"start", "stop"}
    BY <1>4 DEF Plain
  <2>2. cmd.name # "change" /\ ((cmd.name = "start") = (cmd.name # "stop")) /\ (cmd.name = "start") \in BOOLEAN
    BY <2>1
  <2> DEFINE new == [timers[cmd.timer] EXCEPT !.active = cmd.name = "start"]
  <2>3. timers[cmd.timer] \in Timer
    BY <2>1 DEF TypeInv
  <2>4. /\ new \in Timer /\ new.active = (cmd.name = "start")
        /\ new.ticks = timers[cmd.timer].ticks /\ new.tp = timers[cmd.timer].tp
    BY <2>2, <2>3 DEF Timer
  <2>5. timers' = [timers EXCEPT ![cmd.timer] = new]
    BY <1>2, <2>2
  <2> HIDE DEF new
  <2>6. /\ timers' \in [Timers -> Timer] /\ timers'[cmd.timer] = new
        /\ \A t \in Timers \ {cmd.timer} : timers'[t] = timers[t]
    BY <2>1, <2>4, <2>5 DEF TypeInv
  <2> QED BY <1>1, <1>2, <2>1, <2>2, <2>4, <2>6 DEF cmd
<1> QED BY <1>1, <1>3, <1>4 DEF Commands

LEMMA ServeTypes == ASSUME TypeInv, Serve PROVE TypeInv'
<1>1. /\ queue' \in Seq(Commands) /\ Len(queue') = Len(queue) - 1 /\ Len(queue) \in Nat
      /\ timers' \in [Timers -> Timer]
  BY ServeDoes
<1>2. Len(queue') <= QueueLength
  BY <1>1, QueueAssumption DEF TypeInv
<1>3. up' \in BOOLEAN
  BY DEF Serve
<1>4. TaskShape' /\ TasksOK' /\ TextShape' /\ TextOK'
  BY DEF Serve, TypeInv, TaskShape, TasksOK, TextShape, TextOK, ctrl, timer
<1> QED BY <1>1, <1>2, <1>3, <1>4 DEF Serve, TypeInv

LEMMA TypeInit == Init => TypeInv
<1> SUFFICES ASSUME Init PROVE TypeInv
  OBVIOUS
<1>1. ctrl = Rest /\ timer = Rest /\ DOMAIN task = Tasks /\ TaskShape
  BY DEF Init, ctrl, timer, TaskShape, Tasks, Rest
<1>2. TasksOK
  BY <1>1 DEF TasksOK, Rest, CtrlPoints, TimerPoints, PublicationPoints, TogglePoints
<1>3. TextShape /\ client.login = Nothing
  BY SMT DEF Init, TextShape, ClientFields, Listened
<1>4. TextOK
  BY <1>1 DEF Init, TextOK, Tasks, Rest, ctrl, timer
<1>5. queue \in Seq(Commands) /\ Len(queue) <= QueueLength
  <2>1. queue = <<>>
    BY DEF Init
  <2>2. <<>> \in Seq(Commands) /\ Len(<<>>) = 0
    BY EmptySeq
  <2> QED BY SMT, <2>1, <2>2, QueueAssumption
<1>6. timers \in [Timers -> Timer]
  BY SMT DEF Init, Timers, Timer
<1>7. led \in ledctrl /\ ctrlStatus \in ctrl_status /\ asked \in OnOff
  BY DEF Init, ledctrl_init, ledctrl, Shades, OnOff, ctrl_status
<1>8. budget \in Budget
  BY BudgetAssumption DEF Init, Budget
<1>9. up = TRUE /\ late = FALSE /\ missed = FALSE /\ scfg = Nothing
  BY Zenon DEF Init
<1>10. up \in BOOLEAN /\ late \in BOOLEAN /\ missed \in BOOLEAN
  BY Zenon, <1>9
<1> QED BY <1>1, <1>2, <1>3, <1>4, <1>5, <1>6, <1>7, <1>8, <1>9, <1>10 DEF TypeInv

LEMMA PublicationTypes == ASSUME TypeInv, UNCHANGED up, NEW t \in Tasks, Publication(t) PROVE TypeInv'
BY ReadSlopeTypes, ReadStatusTypes, FormatLineTypes, FormatStatusTypes, DropsTypes, ComposeTypes, SendTypes
   DEF Publication

LEMMA StutterTypes == ASSUME TypeInv, UNCHANGED vars PROVE TypeInv'
BY DEF vars, TypeInv, TaskShape, TasksOK, TextShape, TextOK, ctrl, timer

LEMMA TypeStep == ASSUME TypeInv, [Next]_vars PROVE TypeInv'
<1>1. CASE Serve
  BY <1>1, ServeTypes
<1>2. CASE UNCHANGED up /\ Begin
  BY <1>2, SetModeTypes, WriteSlopeTypes, CopyServiceTypes, ReceiveTypes, DropTypes DEF Begin
<1>3. CASE UNCHANGED up /\ CtrlStep
  BY <1>3, StopLedTypes, WritePinTypes, StartLedTypes, WriteInterceptTypes, ConnectTypes, SubscribeTypes, SubscribedTypes,
     SetTimersTypes, UnknownTypes, RelayTypes, TransmitTypes, EnableTempTypes, PublicationTypes
     DEF CtrlStep, Tasks
<1>4. CASE UNCHANGED up /\ TimerStep
  BY <1>4, ReadStateTypes, WriteStateTypes, ShowStateTypes, PublicationTypes DEF TimerStep, Tasks
<1>5. CASE UNCHANGED up /\ \E t \in DOMAIN timers : Expire(t)
  BY <1>5, TimersDomain, ExpireTypes
<1>6. CASE UNCHANGED vars
  BY <1>6, StutterTypes
<1> QED BY <1>1, <1>2, <1>3, <1>4, <1>5, <1>6 DEF Next

LEMMA TypeInvariant == Spec => []TypeInv
<1>1. Init => TypeInv
  BY TypeInit
<1>2. TypeInv /\ [Next]_vars => TypeInv'
  BY TypeStep
<1> QED BY <1>1, <1>2, PTL DEF Spec

LEMMA TypesOK == TypeInv => TypeOK
<1> SUFFICES ASSUME TypeInv PROVE TypeOK
  OBVIOUS
<1>1. DOMAIN task = Tasks /\ task["ctrl"].at \in CtrlPoints /\ task["timer"].at \in TimerPoints
  BY DEF TypeInv, TaskShape, TasksOK, ctrl, timer
<1>2. \A t \in DOMAIN task : task[t].at \in
        {"rest", "stop", "pin", "start", "intercept", "connect", "subscribe", "subscribing", "timers",
         "handle", "transmit", "slope", "intercept read", "line", "status", "publish", "send", "toggle", "toggled", "show"}
  BY <1>1 DEF Tasks, CtrlPoints, TimerPoints, TogglePoints, PublicationPoints
<1>3. \A t \in {"led", "temp", "ping"} : timers[t].active \in BOOLEAN /\ timers[t].ticks \in Nat
  BY DEF TypeInv, Timers, Timer
<1> QED BY <1>2, <1>3 DEF TypeInv, TextOK, TypeOK

-----------------------------------------------------------------------------
(* What the timers will be.                                                *)

\* A command that found room decides for its timer, and for no other.
LEMMA AppendDecides ==
  ASSUME TypeInv, NEW cmd \in Commands, queue' = Append(queue, cmd), UNCHANGED timers
  PROVE  /\ WillRun(cmd.timer)' <=> cmd.name # "stop"
         /\ \A t \in Timers \ {cmd.timer} : WillRun(t)' <=> WillRun(t)
         /\ \A t, v : Changes(cmd, t) => (WillHave(t, v)' <=> cmd.ticks = v)
         /\ \A t, v : ~Changes(cmd, t) => (WillHave(t, v)' <=> WillHave(t, v))
<1> DEFINE n == Len(queue)
<1>1. n \in Nat /\ Len(queue') = n + 1 /\ queue'[n + 1] = cmd /\ \A i \in 1..n : queue'[i] = queue[i]
  BY AppendQueue, LenProperties DEF TypeInv
<1> HIDE DEF n
<1>2. WillRun(cmd.timer)' <=> cmd.name # "stop"
  BY SMT, <1>1 DEF WillRun
<1>3. ASSUME NEW t \in Timers \ {cmd.timer} PROVE WillRun(t)' <=> WillRun(t)
  BY SMT, <1>1, <1>3 DEF WillRun, n
<1>4. ASSUME NEW t, NEW v, Changes(cmd, t) PROVE WillHave(t, v)' <=> cmd.ticks = v
  BY SMT, <1>1, <1>4 DEF WillHave, Changes
<1>5. ASSUME NEW t, NEW v, ~Changes(cmd, t) PROVE WillHave(t, v)' <=> WillHave(t, v)
  BY SMT, <1>1, <1>5 DEF WillHave, Changes, n
<1> QED BY <1>2, <1>3, <1>4, <1>5

\* Neither is decided anew by the command that is served.
LEMMA ServeDecides ==
  ASSUME TypeInv, Serve
  PROVE  /\ \A t \in Timers : WillRun(t)' <=> WillRun(t)
         /\ \A t \in Publishing, v \in Nat : WillHave(t, v)' <=> WillHave(t, v)
<1> DEFINE n == Len(queue)
<1> DEFINE cmd == queue[1]
<1>1. /\ n \in Nat \ {0} /\ Len(queue') = n - 1 /\ \A i \in 1..(n - 1) : queue'[i] = queue[i + 1]
      /\ timers'[cmd.timer].active = (cmd.name # "stop")
      /\ \A t \in Timers \ {cmd.timer} : timers'[t] = timers[t]
      /\ cmd.name = "change" => timers'[cmd.timer].ticks = cmd.ticks
      /\ cmd.name # "change" => timers'[cmd.timer].ticks = timers[cmd.timer].ticks
  BY ServeDoes
<1>2. Publishing \subseteq Timers
  BY DEF Publishing, Timers
<1> HIDE DEF n, cmd
\* The commands behind the first one move up.
<1>3. /\ \A i \in 2..n : i - 1 \in 1..(n - 1) /\ queue'[i - 1] = queue[i]
      /\ \A i \in 1..(n - 1) : i + 1 \in 2..n /\ queue'[i] = queue[i + 1]
      /\ 1..n = {1} \union 2..n /\ 1 \notin 2..n
  BY SMT, <1>1
<1>4. ASSUME NEW t \in Timers PROVE WillRun(t)' <=> WillRun(t)
  <2> DEFINE Later(i) == \A j \in (i + 1)..n : queue[j].timer # t
  <2> DEFINE LaterNow(i) == \A j \in (i + 1)..(n - 1) : queue'[j].timer # t
  <2>1. \A i \in 1..(n - 1) : LaterNow(i) <=> Later(i + 1)
    <3>1. ASSUME NEW i \in 1..(n - 1), LaterNow(i), NEW j \in ((i + 1) + 1)..n PROVE queue[j].timer # t
      <4>1. j - 1 \in (i + 1)..(n - 1) /\ j \in 2..n
        BY SMT, <1>1
      <4> QED BY <1>3, <3>1, <4>1
    <3>2. ASSUME NEW i \in 1..(n - 1), Later(i + 1), NEW j \in (i + 1)..(n - 1) PROVE queue'[j].timer # t
      <4>1. j + 1 \in ((i + 1) + 1)..n /\ j \in 1..(n - 1)
        BY SMT, <1>1
      <4> QED BY <1>3, <3>2, <4>1
    <3> QED BY <3>1, <3>2
  <2>2. Later(1) <=> \A i \in 1..(n - 1) : queue'[i].timer # t
    <3>1. ASSUME Later(1), NEW i \in 1..(n - 1) PROVE queue'[i].timer # t
      <4>1. i + 1 \in (1 + 1)..n
        BY SMT, <1>1
      <4> QED BY <1>3, <3>1, <4>1
    <3>2. ASSUME \A i \in 1..(n - 1) : queue'[i].timer # t, NEW j \in (1 + 1)..n PROVE queue[j].timer # t
      <4>1. j - 1 \in 1..(n - 1) /\ j \in 2..n
        BY SMT, <1>1
      <4> QED BY <1>3, <3>2, <4>1
    <3> QED BY <3>1, <3>2
  <2>3. (\E i \in 1..(n - 1) : queue'[i].timer = t /\ queue'[i].name # "stop" /\ LaterNow(i))
        <=> (\E i \in 2..n : queue[i].timer = t /\ queue[i].name # "stop" /\ Later(i))
    <3> HIDE DEF Later, LaterNow
    <3>1. ASSUME NEW i \in 1..(n - 1), queue'[i].timer = t, queue'[i].name # "stop", LaterNow(i)
          PROVE  \E k \in 2..n : queue[k].timer = t /\ queue[k].name # "stop" /\ Later(k)
      BY <1>3, <2>1, <3>1
    <3>2. ASSUME NEW i \in 2..n, queue[i].timer = t, queue[i].name # "stop", Later(i)
          PROVE  \E k \in 1..(n - 1) : queue'[k].timer = t /\ queue'[k].name # "stop" /\ LaterNow(k)
      <4>1. i - 1 \in 1..(n - 1) /\ queue'[i - 1] = queue[i] /\ (i - 1) + 1 = i
        BY SMT, <1>1, <1>3
      <4>2. LaterNow(i - 1)
        BY <2>1, <3>2, <4>1
      <4> QED BY <3>2, <4>1, <4>2
    <3> QED BY <3>1, <3>2
  <2>4. WillRun(t)' <=> \/ timers'[t].active /\ Later(1)
                        \/ \E i \in 1..(n - 1) : queue'[i].timer = t /\ queue'[i].name # "stop" /\ LaterNow(i)
    BY <1>1, <2>2 DEF WillRun
  <2>5. WillRun(t) <=> \/ timers[t].active /\ cmd.timer # t /\ Later(1)
                       \/ cmd.timer = t /\ cmd.name # "stop" /\ Later(1)
                       \/ \E i \in 2..n : queue[i].timer = t /\ queue[i].name # "stop" /\ Later(i)
    BY <1>3 DEF WillRun, n, cmd
  <2> HIDE DEF Later, LaterNow
  <2>6. CASE cmd.timer = t
    BY <1>1, <2>3, <2>4, <2>5, <2>6
  <2>7. CASE cmd.timer # t
    BY <1>1, <2>3, <2>4, <2>5, <2>7
  <2> QED BY <2>6, <2>7
<1>5. ASSUME NEW t \in Publishing, NEW v \in Nat PROVE WillHave(t, v)' <=> WillHave(t, v)
  <2> DEFINE Later(i) == \A j \in (i + 1)..n : ~Changes(queue[j], t)
  <2> DEFINE LaterNow(i) == \A j \in (i + 1)..(n - 1) : ~Changes(queue'[j], t)
  <2>1. \A i \in 1..(n - 1) : LaterNow(i) <=> Later(i + 1)
    <3>1. ASSUME NEW i \in 1..(n - 1), LaterNow(i), NEW j \in ((i + 1) + 1)..n PROVE ~Changes(queue[j], t)
      <4>1. j - 1 \in (i + 1)..(n - 1) /\ j \in 2..n
        BY SMT, <1>1
      <4> QED BY <1>3, <3>1, <4>1
    <3>2. ASSUME NEW i \in 1..(n - 1), Later(i + 1), NEW j \in (i + 1)..(n - 1) PROVE ~Changes(queue'[j], t)
      <4>1. j + 1 \in ((i + 1) + 1)..n /\ j \in 1..(n - 1)
        BY SMT, <1>1
      <4> QED BY <1>3, <3>2, <4>1
    <3> QED BY <3>1, <3>2
  <2>2. Later(1) <=> \A i \in 1..(n - 1) : ~Changes(queue'[i], t)
    <3>1. ASSUME Later(1), NEW i \in 1..(n - 1) PROVE ~Changes(queue'[i], t)
      <4>1. i + 1 \in (1 + 1)..n
        BY SMT, <1>1
      <4> QED BY <1>3, <3>1, <4>1
    <3>2. ASSUME \A i \in 1..(n - 1) : ~Changes(queue'[i], t), NEW j \in (1 + 1)..n PROVE ~Changes(queue[j], t)
      <4>1. j - 1 \in 1..(n - 1) /\ j \in 2..n
        BY SMT, <1>1
      <4> QED BY <1>3, <3>2, <4>1
    <3> QED BY <3>1, <3>2
  <2>3. (\E i \in 1..(n - 1) : Changes(queue'[i], t) /\ queue'[i].ticks = v /\ LaterNow(i))
        <=> (\E i \in 2..n : Changes(queue[i], t) /\ queue[i].ticks = v /\ Later(i))
    <3> HIDE DEF Later, LaterNow
    <3>1. ASSUME NEW i \in 1..(n - 1), Changes(queue'[i], t), queue'[i].ticks = v, LaterNow(i)
          PROVE  \E k \in 2..n : Changes(queue[k], t) /\ queue[k].ticks = v /\ Later(k)
      BY <1>3, <2>1, <3>1
    <3>2. ASSUME NEW i \in 2..n, Changes(queue[i], t), queue[i].ticks = v, Later(i)
          PROVE  \E k \in 1..(n - 1) : Changes(queue'[k], t) /\ queue'[k].ticks = v /\ LaterNow(k)
      <4>1. i - 1 \in 1..(n - 1) /\ queue'[i - 1] = queue[i] /\ (i - 1) + 1 = i
        BY SMT, <1>1, <1>3
      <4>2. LaterNow(i - 1)
        BY <2>1, <3>2, <4>1
      <4> QED BY <3>2, <4>1, <4>2
    <3> QED BY <3>1, <3>2
  <2>4. WillHave(t, v)' <=> \/ timers'[t].ticks = v /\ Later(1)
                            \/ \E i \in 1..(n - 1) : Changes(queue'[i], t) /\ queue'[i].ticks = v /\ LaterNow(i)
    BY <1>1, <2>2 DEF WillHave
  <2>5. WillHave(t, v) <=> \/ timers[t].ticks = v /\ ~Changes(cmd, t) /\ Later(1)
                           \/ Changes(cmd, t) /\ cmd.ticks = v /\ Later(1)
                           \/ \E i \in 2..n : Changes(queue[i], t) /\ queue[i].ticks = v /\ Later(i)
    <3> DEFINE Decides(i) == Changes(queue[i], t) /\ queue[i].ticks = v /\ Later(i)
    <3>1. (\E i \in 1..n : Decides(i)) <=> (Decides(1) \/ \E i \in 2..n : Decides(i))
      <4> HIDE DEF Decides
      <4> QED BY <1>3
    <3>2. (\A i \in 1..n : ~Changes(queue[i], t)) <=> (~Changes(cmd, t) /\ Later(1))
      BY <1>3 DEF cmd
    <3>3. WillHave(t, v) <=> \/ timers[t].ticks = v /\ \A i \in 1..n : ~Changes(queue[i], t)
                             \/ \E i \in 1..n : Decides(i)
      BY DEF WillHave, n
    <3>4. Decides(1) <=> Changes(cmd, t) /\ cmd.ticks = v /\ Later(1)
      BY DEF cmd
    <3> QED BY <3>1, <3>2, <3>3, <3>4
  <2> HIDE DEF Later, LaterNow
  <2>6. CASE Changes(cmd, t)
    BY <1>1, <2>3, <2>4, <2>5, <2>6 DEF Changes
  <2>7. CASE ~Changes(cmd, t)
    <3>1. timers'[t].ticks = timers[t].ticks
      BY <1>1, <1>2, <2>7 DEF Changes
    <3> QED BY <3>1, <2>3, <2>4, <2>5, <2>7
  <2> QED BY <2>6, <2>7
<1> QED BY <1>4, <1>5

LEMMA SameQueue ==
  ASSUME UNCHANGED <<queue, timers>>
  PROVE  (\A t : WillRun(t)' <=> WillRun(t)) /\ (\A t, v : WillHave(t, v)' <=> WillHave(t, v))
BY DEF WillRun, WillHave

\* A command is decisive, or is remembered to have found no room.
LEMMA PostDecides ==
  ASSUME TypeInv, NEW cmd \in Commands, Post(cmd), UNCHANGED timers
  PROVE  /\ <<cmd.name, cmd.timer>> \notin lost' => (WillRun(cmd.timer)' <=> cmd.name # "stop")
         /\ \A t \in Timers \ {cmd.timer} :
              (WillRun(t)' <=> WillRun(t)) /\ \A name : <<name, t>> \in lost' <=> <<name, t>> \in lost
         /\ \A t, v : Changes(cmd, t) /\ <<"change", t>> \notin lost' => (WillHave(t, v)' <=> cmd.ticks = v)
         /\ \A t, v : ~Changes(cmd, t) => /\ WillHave(t, v)' <=> WillHave(t, v)
                                          /\ <<"change", t>> \in lost' <=> <<"change", t>> \in lost
         /\ cmd.name = "change" => (<<"stop", cmd.timer>> \in lost' <=> <<"stop", cmd.timer>> \in lost)
<1>1. CASE queue' = Append(queue, cmd) /\ lost' = lost \ Undone(cmd)
  <2>1. /\ WillRun(cmd.timer)' <=> cmd.name # "stop"
        /\ \A t \in Timers \ {cmd.timer} : WillRun(t)' <=> WillRun(t)
        /\ \A t, v : Changes(cmd, t) => (WillHave(t, v)' <=> cmd.ticks = v)
        /\ \A t, v : ~Changes(cmd, t) => (WillHave(t, v)' <=> WillHave(t, v))
    BY <1>1, AppendDecides
  <2>2. \A t \in Timers \ {cmd.timer} : \A name : <<name, t>> \notin Undone(cmd)
    BY DEF Undone
  <2>3. \A t : ~Changes(cmd, t) => <<"change", t>> \notin Undone(cmd)
    BY DEF Undone, Changes
  <2>4. cmd.name = "change" => <<"stop", cmd.timer>> \notin Undone(cmd)
    BY DEF Undone
  <2> QED BY <1>1, <2>1, <2>2, <2>3, <2>4
<1>2. CASE UNCHANGED queue /\ lost' = lost \union {<<cmd.name, cmd.timer>>}
  <2>1. (\A t : WillRun(t)' <=> WillRun(t)) /\ (\A t, v : WillHave(t, v)' <=> WillHave(t, v))
    BY <1>2, SameQueue
  <2>2. <<cmd.name, cmd.timer>> \in lost'
    BY <1>2
  <2>3. \A t \in Timers \ {cmd.timer} : \A name : <<name, t>> # <<cmd.name, cmd.timer>>
    OBVIOUS
  <2>4. \A t : ~Changes(cmd, t) => <<"change", t>> # <<cmd.name, cmd.timer>>
    BY DEF Changes
  <2>5. \A t : Changes(cmd, t) => <<"change", t>> \in lost'
    BY <2>2 DEF Changes
  <2>6. cmd.name = "change" => <<"stop", cmd.timer>> # <<cmd.name, cmd.timer>>
    OBVIOUS
  <2> QED BY <1>2, <2>1, <2>2, <2>3, <2>4, <2>5, <2>6
<1> QED BY <1>1, <1>2 DEF Post

LEMMA PlainDecides ==
  ASSUME TypeInv, NEW name \in {"start", "stop"}, NEW t \in Timers, Post(Command(name, t)), UNCHANGED timers
  PROVE  /\ <<name, t>> \notin lost' => (WillRun(t)' <=> name = "start")
         /\ \A u \in Timers \ {t} :
              (WillRun(u)' <=> WillRun(u)) /\ \A what : <<what, u>> \in lost' <=> <<what, u>> \in lost
         /\ \A u, v : /\ WillHave(u, v)' <=> WillHave(u, v)
                      /\ <<"change", u>> \in lost' <=> <<"change", u>> \in lost
<1> DEFINE cmd == Command(name, t)
<1>1. cmd \in Commands /\ cmd.name = name /\ cmd.timer = t /\ Post(cmd)
  BY PlainCommand DEF Command
<1> HIDE DEF cmd
<1>2. \A u : ~Changes(cmd, u)
  BY <1>1 DEF Changes
<1>3. /\ <<cmd.name, cmd.timer>> \notin lost' => (WillRun(cmd.timer)' <=> cmd.name # "stop")
      /\ \A u \in Timers \ {cmd.timer} :
           (WillRun(u)' <=> WillRun(u)) /\ \A what : <<what, u>> \in lost' <=> <<what, u>> \in lost
      /\ \A u, v : ~Changes(cmd, u) => /\ WillHave(u, v)' <=> WillHave(u, v)
                                       /\ <<"change", u>> \in lost' <=> <<"change", u>> \in lost
  BY <1>1, PostDecides
<1> QED BY <1>1, <1>2, <1>3

LEMMA ChangeDecides ==
  ASSUME TypeInv, NEW t \in Publishing, NEW tp \in Periods, Post(ChangePeriod(t, tp)), UNCHANGED timers
  PROVE  /\ <<"change", t>> \notin lost' => WillHave(t, Ticks(tp))'
         /\ \A u \in Timers \ {t} :
              (WillRun(u)' <=> WillRun(u)) /\ \A what : <<what, u>> \in lost' <=> <<what, u>> \in lost
         /\ \A u, v : u # t => /\ WillHave(u, v)' <=> WillHave(u, v)
                               /\ <<"change", u>> \in lost' <=> <<"change", u>> \in lost
         /\ <<"stop", t>> \in lost' <=> <<"stop", t>> \in lost
<1> DEFINE cmd == ChangePeriod(t, tp)
<1>1. cmd \in Commands /\ cmd.name = "change" /\ cmd.timer = t /\ cmd.ticks = Ticks(tp) /\ Post(cmd)
  BY ChangeCommand DEF ChangePeriod
<1> HIDE DEF cmd
<1>2. \A u : Changes(cmd, u) <=> u = t
  BY <1>1 DEF Changes
<1>3. /\ \A u \in Timers \ {cmd.timer} :
           (WillRun(u)' <=> WillRun(u)) /\ \A what : <<what, u>> \in lost' <=> <<what, u>> \in lost
      /\ \A u, v : Changes(cmd, u) /\ <<"change", u>> \notin lost' => (WillHave(u, v)' <=> cmd.ticks = v)
      /\ \A u, v : ~Changes(cmd, u) => /\ WillHave(u, v)' <=> WillHave(u, v)
                                       /\ <<"change", u>> \in lost' <=> <<"change", u>> \in lost
      /\ cmd.name = "change" => (<<"stop", cmd.timer>> \in lost' <=> <<"stop", cmd.timer>> \in lost)
  BY <1>1, PostDecides
<1> QED BY <1>1, <1>2, <1>3

-----------------------------------------------------------------------------
(* What the steps leave alone.                                             *)

LEMMA PublicationDoes ==
  ASSUME TypeInv, NEW t \in Tasks, Publication(t)
  PROVE  /\ task[t].at \in PublicationPoints /\ task'[t].at \in PublicationPoints \union {"rest"}
         /\ \A u \in Tasks \ {t} : task'[u] = task[u]
         /\ UNCHANGED <<queue, timers, led, scfg, ctrlStatus, budget, lost, late, asked, missed>>
         /\ client'.connected = client.connected /\ client'.login = client.login
         /\ \/ client'.buffer = client.buffer
            \/ client'.buffer[1] \notin {"relay1", "enableTemp"}
<1>1. CASE ReadSlope(t)
  <2>1. task[t].at = "slope" /\ task'[t].at = "intercept read" /\ \A u \in Tasks \ {t} : task'[u] = task[u]
    <3> DEFINE seen == <<eq.m>>
    <3>1. Step(t, "slope", "intercept read", seen)
      BY <1>1 DEF ReadSlope
    <3> HIDE DEF seen
    <3> QED BY <3>1, StepTask, ZenonT(60) DEF TypeInv
  <2> QED BY <1>1, <2>1 DEF ReadSlope, PublicationPoints
<1>2. CASE ReadStatus(t)
  <2>1. Step(t, "intercept read", "line", <<task[t].seen[1], eq.b, ctrlStatus>>)
    BY <1>2 DEF ReadStatus
  <2>2. /\ task[t].at = "intercept read" /\ task'[t].at = "line"
        /\ \A u \in Tasks \ {t} : task'[u] = task[u]
    <3> DEFINE seen == <<task[t].seen[1], eq.b, ctrlStatus>>
    <3>1. Step(t, "intercept read", "line", seen)
      BY <2>1
    <3> HIDE DEF seen
    <3> QED BY <3>1, StepTask, ZenonT(60) DEF TypeInv
  <2> QED BY <1>2, <2>2 DEF ReadStatus, PublicationPoints
<1>3. CASE FormatLine(t)
  <2>1. task[t].at = "line" /\ task'[t].at = "status" /\ \A u \in Tasks \ {t} : task'[u] = task[u]
    <3> DEFINE seen == task[t].seen
    <3>1. Step(t, "line", "status", seen)
      BY <1>3 DEF FormatLine
    <3> HIDE DEF seen
    <3> QED BY <3>1, StepTask DEF TypeInv
  <2> QED BY <1>3, <2>1 DEF FormatLine, PublicationPoints
<1>4. CASE FormatStatus(t)
  <2>1. task[t].at = "status" /\ task'[t].at = "publish" /\ \A u \in Tasks \ {t} : task'[u] = task[u]
    BY <1>4, StepTask DEF FormatStatus, TypeInv
  <2> QED BY <1>4, <2>1 DEF FormatStatus, PublicationPoints
<1>5. CASE Drops(t)
  BY <1>5, FinishTask DEF Drops, TypeInv, PublicationPoints
<1>6. CASE Compose(t)
  <2>1. task[t].at = "publish" /\ task'[t].at = "send" /\ \A u \in Tasks \ {t} : task'[u] = task[u]
    BY <1>6, StepTask DEF Compose, TypeInv
  <2>2. client'.connected = client.connected /\ client'.login = client.login /\ client'.buffer[1] \notin {"relay1", "enableTemp"}
    BY <1>6, ComposeDoes
  <2> QED BY <1>6, <2>1, <2>2 DEF Compose, PublicationPoints
<1>7. CASE Send(t)
  BY <1>7, FinishTask DEF Send, TypeInv, PublicationPoints
<1> QED BY <1>1, <1>2, <1>3, <1>4, <1>5, <1>6, <1>7 DEF Publication

\* A publication of the timer task.
LEMMA TimerPublishes ==
  ASSUME TypeInv, Publication("timer")
  PROVE  /\ timer.at \in PublicationPoints /\ timer'.at \in PublicationPoints \union {"rest"} /\ ctrl' = ctrl
         /\ UNCHANGED <<queue, timers, led, scfg, ctrlStatus, budget, lost, late, asked, missed>>
         /\ client'.connected = client.connected /\ client'.login = client.login
         /\ client'.buffer = client.buffer \/ client'.buffer[1] \notin {"relay1", "enableTemp"}
BY PublicationDoes DEF ctrl, timer, Tasks

LEMMA CtrlPublishes ==
  ASSUME TypeInv, Publication("ctrl")
  PROVE  /\ ctrl.at \in PublicationPoints /\ ctrl'.at \in PublicationPoints \union {"rest"} /\ timer' = timer
         /\ UNCHANGED <<queue, timers, led, scfg, ctrlStatus, budget, lost, late, asked, missed>>
         /\ client'.connected = client.connected /\ client'.login = client.login
         /\ client'.buffer = client.buffer \/ client'.buffer[1] \notin {"relay1", "enableTemp"}
BY PublicationDoes DEF ctrl, timer, Tasks

LEMMA SetTimersDoes ==
  ASSUME TypeInv, SetTimers
  PROVE  /\ timer' = timer /\ ctrl.job[1] \in 1..4 /\ scfg \in budget.services
         /\ scfg.temp \in Periods /\ scfg.ping \in Periods /\ client.login = scfg
         /\ \/ ctrl.job[1] = 4 /\ ctrl'.at = "rest"
            \/ ctrl.job[1] # 4 /\ ctrl'.at = "timers" /\ ctrl'.job[1] = ctrl.job[1] + 1
         /\ ctrl.job[1] = 1 => Post(ChangePeriod("temp", scfg.temp))
         /\ ctrl.job[1] = 2 => Post(Command("stop", "temp"))
         /\ ctrl.job[1] = 3 => Post(ChangePeriod("ping", scfg.ping))
         /\ ctrl.job[1] = 4 => Post(Command("start", "ping"))
<1> DEFINE n == ctrl.job[1]
<1>1. n \in 1..4 /\ scfg \in budget.services /\ scfg \in Services /\ client.login = scfg
  BY DEF SetTimers, TypeInv, TasksOK, Budget
<1>2. scfg.temp \in Periods /\ scfg.ping \in Periods
  BY <1>1 DEF Services
<1>3. /\ Post(LoginCommands[n])
      /\ IF n = Len(LoginCommands) THEN Finish("ctrl") ELSE Goto("ctrl", "timers", <<n + 1>>)
  BY DEF SetTimers
<1>4. /\ Len(LoginCommands) = 4
      /\ LoginCommands[1] = ChangePeriod("temp", scfg.temp) /\ LoginCommands[2] = Command("stop", "temp")
      /\ LoginCommands[3] = ChangePeriod("ping", scfg.ping) /\ LoginCommands[4] = Command("start", "ping")
  BY <1>1, LoginCommandsAre
<1> HIDE DEF n
<1>5. \/ timer' = timer /\ n = 4 /\ ctrl'.at = "rest"
      \/ timer' = timer /\ n # 4 /\ ctrl'.at = "timers" /\ ctrl'.job[1] = n + 1
  <2>1. CASE n = 4
    BY <1>3, <1>4, <2>1, CtrlFinishes DEF TypeInv
  <2>2. CASE n # 4
    <3>1. timer' = timer /\ ctrl'.at = "timers" /\ ctrl'.job = <<n + 1>>
      BY <1>3, <1>4, <2>2, CtrlGoes DEF TypeInv
    <3> QED BY <2>2, <3>1
  <2> QED BY <2>1, <2>2
<1> QED BY <1>1, <1>2, <1>3, <1>4, <1>5 DEF n

LEMMA TransmitDoes ==
  ASSUME TypeInv, Transmit
  PROVE  /\ timer' = timer
         /\ \/ UNCHANGED <<queue, lost>> /\ ctrl'.at = "slope"
            \/ Post(Command("start", "temp")) /\ ctrl'.at = "transmit" /\ ctrl'.job[1] = "ON"
            \/ Post(Command("stop", "temp")) /\ ctrl'.at = "transmit" /\ ctrl'.job[1] = "OFF"
<1> DEFINE value == client.buffer[2]
<1>1. value \in OnOff \union {"other"}
  BY DEF TypeInv, TextOK, Transmit
<1>2. IF value = "other" THEN Goto("ctrl", "slope", <<"ping">>) /\ UNCHANGED <<queue, lost>>
      ELSE /\ Post(Command(IF value = "ON" THEN "start" ELSE "stop", "temp"))
           /\ Goto("ctrl", "transmit", <<value>>)
  BY DEF Transmit
<1> HIDE DEF value
<1>3. CASE value = "other"
  BY <1>2, <1>3, CtrlGoes DEF TypeInv
<1>4. CASE value # "other"
  <2>1. timer' = timer /\ ctrl'.at = "transmit" /\ ctrl'.job = <<value>>
    BY <1>2, <1>4, CtrlGoes DEF TypeInv
  <2>2. ctrl'.job[1] = value
    BY <2>1
  <2> QED BY <1>1, <1>2, <1>4, <2>1, <2>2 DEF OnOff
<1> QED BY <1>3, <1>4

\* What ctrl_task does beside the LED and the timers.
Aside == WriteSlope \/ WriteIntercept \/ CopyService \/ Connect \/ Subscribe \/ Subscribed \/ Receive \/ Unknown
         \/ Relay \/ EnableTemp \/ Publication("ctrl")

LEMMA AsideDoes ==
  ASSUME TypeInv, Aside
  PROVE  /\ timer' = timer /\ UNCHANGED <<queue, timers, led, lost, late>>
         /\ ctrl.at \notin {"stop", "pin", "start"} /\ ctrl'.at \notin {"stop", "pin", "start"}
<1>1. CASE WriteSlope
  BY <1>1, CtrlGoes DEF WriteSlope, TypeInv
<1>2. CASE WriteIntercept
  BY <1>2, CtrlFinishes DEF WriteIntercept, TypeInv
<1>3. CASE CopyService
  BY <1>3, CtrlGoes DEF CopyService, TypeInv
<1>4. CASE Connect \/ Subscribe \/ Subscribed
  BY <1>4, ConnectDoes, SubscribeDoes, SubscribedDoes DEF Connect, Subscribe, Subscribed
<1>5. CASE Receive
  BY <1>5, CtrlGoes DEF Receive, TypeInv
<1>6. CASE Unknown
  BY <1>6, CtrlFinishes DEF Unknown, TypeInv
<1>7. CASE Relay
  BY <1>7, CtrlGoes DEF Relay, TypeInv
<1>8. CASE EnableTemp
  BY <1>8, CtrlGoes DEF EnableTemp, TypeInv
<1>9. CASE Publication("ctrl")
  BY <1>9, CtrlPublishes DEF PublicationPoints
<1> QED BY <1>1, <1>2, <1>3, <1>4, <1>5, <1>6, <1>7, <1>8, <1>9 DEF Aside

-----------------------------------------------------------------------------
(* The LED.                                                                *)

LEMMA LedInit == Init => LedFollows
<1> SUFFICES ASSUME Init PROVE LedFollows
  OBVIOUS
<1>1. ctrl.at = "rest" /\ timer.at = "rest" /\ led = ledctrl_init
  BY DEF Init, ctrl, timer, Rest
<1>2. led.mode = "OFF" /\ led.state = Shows[led.mode] /\ led.pin = led.state
  BY <1>1 DEF ledctrl_init, Shows
<1>3. ~WillRun("led")
  <2>1. Len(queue) = 0 /\ timers["led"].active = FALSE
    BY EmptySeq DEF Init
  <2>2. 1..0 = {}
    BY SMT
  <2> QED BY <2>1, <2>2 DEF WillRun
<1> QED BY <1>1, <1>2, <1>3 DEF LedFollows, TogglePoints

LEMMA LedAside ==
  ASSUME TypeInv, LedFollows, timer' = timer, UNCHANGED <<queue, timers, led, lost, late>>,
         ctrl.at \notin {"stop", "pin", "start"}, ctrl'.at \notin {"stop", "pin", "start"}
  PROVE  LedFollows'
<1>1. WillRun("led")' <=> WillRun("led")
  BY SameQueue
<1> QED BY <1>1 DEF LedFollows

LEMMA LedSetMode == ASSUME TypeInv, LedFollows, SetMode PROVE LedFollows'
<1>1. /\ timer' = timer /\ ctrl'.at = IF led'.mode = "BLINK" THEN "pin" ELSE "stop"
      /\ led'.state = Shows[led'.mode]
  BY SetModeDoes
<1>2. late' = (timer.job = <<"led">>)
  BY DEF SetMode
<1>3. ~late' => timer'.at \notin TogglePoints
  BY <1>1, <1>2 DEF TypeInv, TasksOK
<1> QED BY <1>1, <1>3 DEF LedFollows

LEMMA LedStopLed == ASSUME TypeInv, LedFollows, StopLed PROVE LedFollows'
<1>1. timer' = timer /\ ctrl.at = "stop" /\ ctrl'.at = "pin" /\ UNCHANGED <<led, late, timers>>
  BY CtrlGoes DEF TypeInv, StopLed
<1>2. <<"stop", "led">> \notin lost' => ~WillRun("led")'
  BY PlainDecides DEF StopLed, Timers
<1> QED BY <1>1, <1>2 DEF LedFollows

LEMMA LedWritePin == ASSUME TypeInv, LedFollows, WritePin PROVE LedFollows'
<1>1. /\ timer' = timer /\ ctrl.at = "pin" /\ ctrl'.at = (IF led.mode = "BLINK" THEN "start" ELSE "rest")
      /\ UNCHANGED <<queue, late, timers, lost>>
  BY CtrlGoes DEF TypeInv, WritePin
<1>2. led'.mode = led.mode /\ led'.state = led.state /\ led'.pin = led.state
  BY LedWithPin DEF TypeInv, WritePin
<1>3. WillRun("led")' <=> WillRun("led")
  BY <1>1, SameQueue
<1> QED BY <1>1, <1>2, <1>3 DEF LedFollows

LEMMA LedStartLed == ASSUME TypeInv, LedFollows, StartLed PROVE LedFollows'
<1>1. timer' = timer /\ ctrl.at = "start" /\ ctrl'.at = "rest" /\ UNCHANGED <<led, late, timers>>
  BY CtrlFinishes DEF TypeInv, StartLed
<1>2. <<"start", "led">> \notin lost' => WillRun("led")'
  BY PlainDecides DEF StartLed, Timers
<1> QED BY <1>1, <1>2 DEF LedFollows

\* The commands for the other timers.
LEMMA LedOthers ==
  ASSUME TypeInv, LedFollows, timer' = timer, UNCHANGED <<led, late>>,
         ctrl.at \notin {"stop", "pin", "start"}, ctrl'.at \notin {"stop", "pin", "start"},
         WillRun("led")' <=> WillRun("led"), \A name : <<name, "led">> \in lost' <=> <<name, "led">> \in lost
  PROVE  LedFollows'
BY DEF LedFollows

LEMMA LedSetTimers == ASSUME TypeInv, LedFollows, SetTimers PROVE LedFollows'
<1>1. ctrl.at = "timers" /\ UNCHANGED <<timers, led, late>>
  BY DEF SetTimers
<1>2. timer' = timer /\ ctrl'.at \in {"rest", "timers"}
  BY SetTimersDoes
<1>3. (WillRun("led")' <=> WillRun("led")) /\ \A name : <<name, "led">> \in lost' <=> <<name, "led">> \in lost
  <2>1. ctrl.job[1] = 1 \/ ctrl.job[1] = 2 \/ ctrl.job[1] = 3 \/ ctrl.job[1] = 4
    BY SMT, SetTimersDoes
  <2>2. "led" \in Timers \ {"temp"} /\ "led" \in Timers \ {"ping"} /\ "temp" \in Timers /\ "ping" \in Timers
        /\ "temp" \in Publishing /\ "ping" \in Publishing
    BY DEF Timers, Publishing
  <2>3. CASE ctrl.job[1] = 1
    BY <1>1, <2>2, <2>3, SetTimersDoes, ChangeDecides
  <2>4. CASE ctrl.job[1] = 2
    BY <1>1, <2>2, <2>4, SetTimersDoes, PlainDecides
  <2>5. CASE ctrl.job[1] = 3
    BY <1>1, <2>2, <2>5, SetTimersDoes, ChangeDecides
  <2>6. CASE ctrl.job[1] = 4
    BY <1>1, <2>2, <2>6, SetTimersDoes, PlainDecides
  <2> QED BY <2>1, <2>3, <2>4, <2>5, <2>6
<1> QED BY <1>1, <1>2, <1>3, LedOthers

LEMMA LedTransmit == ASSUME TypeInv, LedFollows, Transmit PROVE LedFollows'
<1>1. ctrl.at = "handle" /\ UNCHANGED <<timers, led, late>>
  BY DEF Transmit
<1>2. timer' = timer /\ ctrl'.at \in {"slope", "transmit"}
  BY TransmitDoes
<1>3. (WillRun("led")' <=> WillRun("led")) /\ \A name : <<name, "led">> \in lost' <=> <<name, "led">> \in lost
  <2>1. "led" \in Timers \ {"temp"} /\ "temp" \in Timers
    BY DEF Timers
  <2>2. CASE UNCHANGED <<queue, lost>>
    BY <1>1, <2>2, SameQueue
  <2>3. CASE Post(Command("start", "temp"))
    BY <1>1, <2>1, <2>3, PlainDecides
  <2>4. CASE Post(Command("stop", "temp"))
    BY <1>1, <2>1, <2>4, PlainDecides
  <2> QED BY <2>2, <2>3, <2>4, TransmitDoes
<1> QED BY <1>1, <1>2, <1>3, LedOthers

LEMMA LedTimerPublishes == ASSUME TypeInv, LedFollows, Publication("timer") PROVE LedFollows'
<1>1. /\ timer.at \in PublicationPoints /\ timer'.at \in PublicationPoints \union {"rest"} /\ ctrl' = ctrl
      /\ UNCHANGED <<queue, timers, led, lost, late>>
  BY TimerPublishes
<1>2. timer.at \notin TogglePoints /\ timer'.at \notin TogglePoints
  BY <1>1 DEF PublicationPoints, TogglePoints
<1>3. WillRun("led")' <=> WillRun("led")
  BY <1>1, SameQueue
<1> QED BY <1>1, <1>2, <1>3 DEF LedFollows, TogglePoints

LEMMA LedExpire == ASSUME TypeInv, LedFollows, NEW t \in Timers, Expire(t) PROVE LedFollows'
<1>1. /\ ctrl' = ctrl /\ timer.at = "rest" /\ (t = "led" => timer'.at = "toggle") /\ (t # "led" => timer'.at = "slope")
      /\ UNCHANGED <<queue, timers, led, lost>> /\ late' = (late \/ (t = "led" /\ led.mode # "BLINK"))
  BY ExpireDoes DEF Expire
<1>2. WillRun("led")' <=> WillRun("led")
  BY <1>1, SameQueue
<1>3. CASE t = "led"
  BY <1>1, <1>2, <1>3 DEF LedFollows, TogglePoints
<1>4. CASE t # "led"
  BY <1>1, <1>2, <1>4 DEF LedFollows, TogglePoints
<1> QED BY <1>3, <1>4

LEMMA LedReadState == ASSUME TypeInv, LedFollows, ReadState PROVE LedFollows'
<1>1. /\ ctrl' = ctrl /\ timer.at = "toggle" /\ timer'.at = "toggled" /\ UNCHANGED <<queue, timers, led, lost, late>>
  BY StepTask DEF ReadState, TypeInv, ctrl, timer, Tasks
<1>2. WillRun("led")' <=> WillRun("led")
  BY <1>1, SameQueue
<1> QED BY <1>1, <1>2 DEF LedFollows, TogglePoints

LEMMA LedWriteState == ASSUME TypeInv, LedFollows, WriteState PROVE LedFollows'
<1>1. /\ ctrl' = ctrl /\ timer.at = "toggled" /\ timer'.at = "show" /\ UNCHANGED <<queue, timers, lost, late>>
  BY StepTask DEF WriteState, TypeInv, ctrl, timer, Tasks
<1>2. led'.mode = led.mode
  BY LedWithState DEF WriteState, TypeInv, Shades
<1>3. WillRun("led")' <=> WillRun("led")
  BY <1>1, SameQueue
<1> QED BY <1>1, <1>2, <1>3 DEF LedFollows, TogglePoints

LEMMA LedShowState == ASSUME TypeInv, LedFollows, ShowState PROVE LedFollows'
<1>1. /\ ctrl' = ctrl /\ timer.at = "show" /\ timer'.at = "rest" /\ UNCHANGED <<queue, timers, lost, late>>
  BY FinishTask DEF ShowState, TypeInv, ctrl, timer, Tasks
<1>2. led'.mode = led.mode /\ led'.state = led.state /\ led'.pin = led.state
  BY LedWithPin DEF ShowState, TypeInv
<1>3. WillRun("led")' <=> WillRun("led")
  BY <1>1, SameQueue
<1> QED BY <1>1, <1>2, <1>3 DEF LedFollows, TogglePoints

LEMMA LedServe == ASSUME TypeInv, LedFollows, Serve PROVE LedFollows'
<1>1. ctrl' = ctrl /\ timer' = timer /\ UNCHANGED <<led, lost, late>>
  BY DEF Serve, ctrl, timer
<1>2. WillRun("led")' <=> WillRun("led")
  BY ServeDecides DEF Timers
<1> QED BY <1>1, <1>2 DEF LedFollows

LEMMA LedUnchanged ==
  ASSUME LedFollows, UNCHANGED <<task, queue, timers, led, lost, late>>
  PROVE  LedFollows'
<1>1. WillRun("led")' <=> WillRun("led")
  BY SameQueue
<1> QED BY <1>1 DEF LedFollows, ctrl, timer

LEMMA LedStep == ASSUME TypeInv, LedFollows, [Next]_vars PROVE LedFollows'
<1>1. CASE Serve
  BY <1>1, LedServe
<1>2. CASE SetMode \/ StopLed \/ WritePin \/ StartLed
  BY <1>2, LedSetMode, LedStopLed, LedWritePin, LedStartLed
<1>3. CASE Aside
  BY <1>3, AsideDoes, LedAside
<1>4. CASE SetTimers \/ Transmit
  BY <1>4, LedSetTimers, LedTransmit
<1>5. CASE TimerStep
  BY <1>5, LedReadState, LedWriteState, LedShowState, LedTimerPublishes DEF TimerStep
<1>6. CASE \E t \in DOMAIN timers : Expire(t)
  BY <1>6, TimersDomain, LedExpire
<1>7. CASE Drop \/ UNCHANGED vars
  <2>1. UNCHANGED <<task, queue, timers, led, lost, late>>
    BY <1>7 DEF Drop, vars
  <2> QED BY <2>1, LedUnchanged
<1> QED BY <1>1, <1>2, <1>3, <1>4, <1>5, <1>6, <1>7 DEF Next, Begin, CtrlStep, Aside

LEMMA LedShows == TypeInv /\ LedFollows => LedShowsMode
<1> SUFFICES ASSUME TypeInv, LedFollows, AtRest, ~late,
                    lost \intersect {<<"start", "led">>, <<"stop", "led">>} = {}
             PROVE  /\ timers["led"].active <=> led.mode = "BLINK"
                    /\ led.pin = IF led.mode = "BLINK" THEN led.state ELSE Shows[led.mode]
  BY DEF LedShowsMode
<1>1. ctrl.at = "rest" /\ timer.at = "rest" /\ queue = <<>>
  BY DEF AtRest, Rest
<1>2. <<"start", "led">> \notin lost /\ <<"stop", "led">> \notin lost
  OBVIOUS
<1>3. WillRun("led") <=> timers["led"].active
  <2>1. Len(queue) = 0
    BY <1>1, EmptySeq
  <2>2. 1..0 = {}
    BY SMT
  <2> QED BY <2>1, <2>2 DEF WillRun
<1> QED BY <1>1, <1>2, <1>3 DEF LedFollows

-----------------------------------------------------------------------------
(* The publishing periods.                                                 *)

\* Logged in, and past the command that sets the period of t.
Set(t) == client.login # Nothing /\ ctrl.at \notin {"subscribe", "subscribing"} /\ ~(ctrl.at = "timers" /\ ctrl.job[1] <= Place(t))

LEMMA TicksOfService ==
  ASSUME TypeInv, NEW t \in Publishing, client.login \in budget.services
  PROVE  client.login[t] \in Periods /\ Ticks(client.login[t]) \in Nat
<1>1. client.login \in Services
  BY DEF TypeInv, Budget
<1>2. client.login[t] \in Periods
  BY <1>1 DEF Services, Publishing
<1> QED BY <1>2, TicksType

LEMMA PeriodInit == Init => PeriodFollows
BY DEF Init, PeriodFollows

\* Nothing that matters to the periods happens.
LEMMA PeriodUnchanged ==
  ASSUME TypeInv, PeriodFollows, client'.login = client.login, budget'.services = budget.services,
         \A t \in Publishing : Set(t)' => Set(t),
         \A t \in Publishing : \A v : WillHave(t, v)' <=> WillHave(t, v),
         \A t \in Publishing : <<"change", t>> \in lost' <=> <<"change", t>> \in lost
  PROVE  PeriodFollows'
<1> SUFFICES ASSUME NEW t \in Publishing, Set(t)'
             PROVE  client'.login \in budget'.services /\ (<<"change", t>> \notin lost' => WillHave(t, Ticks(client.login[t]))')
  BY DEF PeriodFollows, Set
<1>1. Set(t)
  OBVIOUS
<1> QED BY <1>1 DEF PeriodFollows, Set

\* The steps of ctrl_task that leave the session and the commands alone.
LEMMA PeriodOthers ==
  ASSUME TypeInv, PeriodFollows, UNCHANGED <<queue, timers, lost>>, budget'.services = budget.services,
         client'.login = client.login,
         ctrl.at \notin {"subscribe", "subscribing", "timers"}
  PROVE  PeriodFollows'
<1>1. \A t, v : WillHave(t, v)' <=> WillHave(t, v)
  BY SameQueue
<1>2. \A t \in Publishing : Set(t)' => Set(t)
  BY DEF Set
<1> QED BY <1>1, <1>2, PeriodUnchanged

\* The steps of the others.
LEMMA PeriodElsewhere ==
  ASSUME TypeInv, PeriodFollows, UNCHANGED <<queue, timers, lost, ctrl>>, budget'.services = budget.services,
         client'.login = client.login
  PROVE  PeriodFollows'
<1>1. \A t, v : WillHave(t, v)' <=> WillHave(t, v)
  BY SameQueue
<1>2. \A t \in Publishing : Set(t)' => Set(t)
  BY DEF Set
<1> QED BY <1>1, <1>2, PeriodUnchanged

LEMMA PeriodPlain ==
  ASSUME TypeInv, PeriodFollows, NEW name \in {"start", "stop"}, NEW u \in Timers, Post(Command(name, u)),
         UNCHANGED <<timers, budget, client>>, ctrl.at \notin {"subscribe", "subscribing", "timers"}
  PROVE  PeriodFollows'
<1>1. \A t, v : /\ WillHave(t, v)' <=> WillHave(t, v)
                /\ <<"change", t>> \in lost' <=> <<"change", t>> \in lost
  BY PlainDecides
<1>2. \A t \in Publishing : Set(t)' => Set(t)
  BY DEF Set
<1> QED BY <1>1, <1>2, PeriodUnchanged

LEMMA PeriodSetTimers == ASSUME TypeInv, PeriodFollows, SetTimers PROVE PeriodFollows'
<1> DEFINE n == ctrl.job[1]
<1>1. /\ ctrl.at = "timers" /\ n \in 1..4 /\ scfg \in budget.services
      /\ (ctrl'.at = "timers" => ctrl'.job[1] = n + 1) /\ scfg.temp \in Periods /\ scfg.ping \in Periods
      /\ UNCHANGED <<timers, scfg, budget, client>> /\ client.login = scfg
  BY SetTimersDoes DEF SetTimers
<1>2. "temp" \in Publishing /\ "ping" \in Publishing /\ "temp" \in Timers /\ "ping" \in Timers
  BY DEF Publishing, Timers
<1>3. SUFFICES ASSUME NEW t \in Publishing, Set(t)', <<"change", t>> \notin lost'
               PROVE  WillHave(t, Ticks(scfg[t]))'
  BY <1>1 DEF PeriodFollows, Set
<1> DEFINE v == Ticks(scfg[t])
\* The command for t was this one, or an earlier one.
<1>4. n = Place(t) \/ (n # Place(t) /\ Set(t))
  <2>1. ctrl'.at = "timers" => ~(n + 1 <= Place(t))
    BY <1>1, <1>3 DEF Set
  <2>2. Place(t) \in {1, 3} /\ (ctrl'.at # "timers" => n = 4)
    BY SetTimersDoes DEF Place
  <2> HIDE DEF n
  <2>3. n = Place(t) \/ (n # Place(t) /\ ~(n <= Place(t)))
    BY SMT, <1>1, <2>1, <2>2
  <2> QED BY <1>1, <1>3, <2>3 DEF Set, n
<1>5. n = 1 => Post(ChangePeriod("temp", scfg.temp))
  BY SetTimersDoes
<1>6. n = 3 => Post(ChangePeriod("ping", scfg.ping))
  BY SetTimersDoes
<1>7. (n = 2 => Post(Command("stop", "temp"))) /\ (n = 4 => Post(Command("start", "ping")))
  BY SetTimersDoes
<1>8. Set(t) /\ <<"change", t>> \notin lost => WillHave(t, v)
  BY <1>1 DEF PeriodFollows, Set
<1>9. n = 1 \/ n = 2 \/ n = 3 \/ n = 4
  <2> HIDE DEF n
  <2> QED BY SMT, <1>1
<1> HIDE DEF n
<1>10. CASE n = 1
  <2>1. CASE t = "temp"
    BY <1>1, <1>2, <1>3, <1>5, <1>10, <2>1, ChangeDecides
  <2>2. CASE t # "temp"
    <3>1. n # Place(t) /\ "temp" # t
      BY <1>10, <2>2 DEF Place
    <3>2. (WillHave(t, v)' <=> WillHave(t, v)) /\ (<<"change", t>> \in lost' <=> <<"change", t>> \in lost)
      BY <1>1, <1>2, <1>5, <1>10, <3>1, ChangeDecides
    <3> QED BY <1>1, <1>3, <1>4, <1>8, <3>1, <3>2
  <2> QED BY <2>1, <2>2
<1>11. CASE n = 3
  <2>1. CASE t = "ping"
    BY <1>1, <1>2, <1>3, <1>6, <1>11, <2>1, ChangeDecides
  <2>2. CASE t # "ping"
    <3>1. n # Place(t) /\ "ping" # t
      BY <1>2, <1>11, <2>2 DEF Place, Publishing
    <3>2. (WillHave(t, v)' <=> WillHave(t, v)) /\ (<<"change", t>> \in lost' <=> <<"change", t>> \in lost)
      BY <1>1, <1>2, <1>6, <1>11, <3>1, ChangeDecides
    <3> QED BY <1>1, <1>3, <1>4, <1>8, <3>1, <3>2
  <2> QED BY <2>1, <2>2
<1>12. CASE n = 2 \/ n = 4
  <2>1. n # Place(t)
    BY <1>12 DEF Place
  <2>2. (WillHave(t, v)' <=> WillHave(t, v)) /\ (<<"change", t>> \in lost' <=> <<"change", t>> \in lost)
    BY <1>1, <1>2, <1>7, <1>12, PlainDecides
  <2> QED BY <1>1, <1>3, <1>4, <1>8, <2>1, <2>2
<1> QED BY <1>9, <1>10, <1>11, <1>12

LEMMA PeriodServe == ASSUME TypeInv, PeriodFollows, Serve PROVE PeriodFollows'
<1>1. UNCHANGED <<client, task, budget, lost>>
  BY DEF Serve
<1> SUFFICES ASSUME NEW t \in Publishing, Set(t)'
             PROVE  client'.login \in budget'.services /\ (<<"change", t>> \notin lost' => WillHave(t, Ticks(client.login[t]))')
  BY <1>1 DEF PeriodFollows, Set
<1>2. Set(t)
  BY <1>1 DEF Set, ctrl
<1>3. client.login \in budget.services /\ (<<"change", t>> \notin lost => WillHave(t, Ticks(client.login[t])))
  BY <1>2 DEF PeriodFollows, Set
<1>4. WillHave(t, Ticks(client.login[t]))' <=> WillHave(t, Ticks(client.login[t]))
  <2>1. PICK v \in Nat : v = Ticks(client.login[t])
    BY <1>3, TicksOfService
  <2>2. WillHave(t, v)' <=> WillHave(t, v)
    BY ServeDecides
  <2> QED BY <1>1, <2>1, <2>2
<1> QED BY <1>1, <1>3, <1>4

LEMMA PeriodStep == ASSUME TypeInv, PeriodFollows, [Next]_vars PROVE PeriodFollows'
<1>1. CASE Serve
  BY <1>1, PeriodServe
<1>2. CASE SetMode \/ WriteSlope \/ Receive
  <2>1. budget'.services = budget.services
    BY <1>2, SpendBudget DEF SetMode, WriteSlope, Receive, TypeInv
  <2>2. client'.login = client.login
    BY <1>2, ReceiveDoes DEF SetMode, WriteSlope
  <2> QED BY <1>2, <2>1, <2>2, PeriodOthers DEF SetMode, WriteSlope, Receive
<1>3. CASE WritePin \/ WriteIntercept \/ Unknown \/ Relay \/ EnableTemp
  BY <1>3, PeriodOthers DEF WritePin, WriteIntercept, Unknown, Relay, EnableTemp
<1>4. CASE Publication("ctrl")
  <2>1. ctrl.at \notin {"subscribe", "subscribing", "timers"}
    BY <1>4, CtrlPublishes DEF PublicationPoints
  <2> QED BY <1>4, <2>1, CtrlPublishes, PeriodOthers
<1>5. CASE CopyService
  <2>1. budget'.services = budget.services
    BY <1>5, SpendBudget DEF CopyService, TypeInv
  <2> QED BY <1>5, <2>1, PeriodOthers DEF CopyService
<1>6. CASE Connect
  <2>1. CASE ctrl'.at = "subscribe"
    BY <2>1 DEF PeriodFollows
  <2>2. CASE client'.login = client.login
    BY <1>6, <2>2, PeriodOthers DEF Connect
  <2> QED BY <1>6, <2>1, <2>2, ConnectDoes
<1>7. CASE Drop
  BY <1>7, DropDoes, PeriodElsewhere DEF Drop, ctrl
<1>15. CASE Subscribe \/ Subscribed
  <2>1. ctrl'.at \in {"subscribe", "subscribing"} \/ (ctrl'.at = "timers" /\ ctrl'.job[1] = 1)
    BY <1>15, SubscribeDoes, SubscribedDoes
  <2>2. \A t \in Publishing : 1 <= Place(t)
    BY SMT DEF Place
  <2> QED BY <2>1, <2>2 DEF PeriodFollows
<1>8. CASE StopLed \/ StartLed
  BY <1>8, PeriodPlain DEF StopLed, StartLed, Timers
<1>9. CASE Transmit
  <2>1. CASE UNCHANGED <<queue, lost>>
    BY <1>9, <2>1, PeriodOthers DEF Transmit
  <2>2. CASE Post(Command("start", "temp")) \/ Post(Command("stop", "temp"))
    BY <1>9, <2>2, PeriodPlain DEF Transmit, Timers
  <2> QED BY <1>9, <2>1, <2>2, TransmitDoes
<1>10. CASE SetTimers
  BY <1>10, PeriodSetTimers
<1>11. CASE Publication("timer")
  BY <1>11, TimerPublishes, PeriodElsewhere
<1>12. CASE ReadState \/ WriteState \/ ShowState
  <2>1. ctrl' = ctrl
    BY <1>12, StepTask, FinishTask DEF ReadState, WriteState, ShowState, TypeInv, ctrl, Tasks
  <2> QED BY <1>12, <2>1, PeriodElsewhere DEF ReadState, WriteState, ShowState
<1>13. CASE \E t \in DOMAIN timers : Expire(t)
  <2>1. PICK t \in Timers : Expire(t)
    BY <1>13, TimersDomain
  <2> QED BY <2>1, ExpireDoes, PeriodElsewhere DEF Expire
<1>14. CASE UNCHANGED vars
  BY <1>14, PeriodElsewhere DEF vars, ctrl
<1> QED BY <1>1, <1>2, <1>3, <1>4, <1>5, <1>6, <1>7, <1>8, <1>9, <1>10, <1>11, <1>12, <1>13, <1>14, <1>15
     DEF Next, Begin, CtrlStep, TimerStep

LEMMA FailsInit == Init => FailsForPeriod
BY DEF Init, FailsForPeriod

LEMMA FailsStep == ASSUME TypeInv, FailsForPeriod, [Next]_vars PROVE FailsForPeriod'
<1>1. CASE up /\ Serve
  <2>1. SUFFICES ASSUME ~up' PROVE \E t \in Publishing : timers'[t].ticks = 0 /\ ~IsMeant(timers'[t].tp)
    BY DEF FailsForPeriod
  <2> DEFINE cmd == queue[1]
  <2>2. /\ cmd \in Commands /\ cmd.name = "change" /\ cmd.ticks = 0
        /\ cmd.timer \in Publishing /\ timers'[cmd.timer].ticks = cmd.ticks /\ timers'[cmd.timer].tp = cmd.tp
    BY <1>1, <2>1, ServeDoes
  <2> HIDE DEF cmd
  <2>3. cmd.tp \in Periods /\ cmd.ticks = Ticks(cmd.tp)
    BY <2>2 DEF Commands, Plain, Change
  <2>4. ~IsMeant(cmd.tp)
    <3>1. ASSUME IsMeant(cmd.tp) PROVE FALSE
      <4>1. Ticks(cmd.tp) > 0
        BY <2>3, <3>1, TicksExact
      <4> QED BY SMT, <2>2, <2>3, <4>1
    <3> QED BY <3>1
  <2> QED BY <2>2, <2>4
<1>2. CASE up /\ UNCHANGED up
  BY <1>2 DEF FailsForPeriod
<1>3. CASE UNCHANGED vars
  BY <1>3 DEF FailsForPeriod, vars
<1> QED BY <1>1, <1>2, <1>3 DEF Next

LEMMA PeriodMeant == TypeInv /\ PeriodFollows /\ FailsForPeriod => PeriodIsMeant
<1> SUFFICES ASSUME TypeInv, PeriodFollows, FailsForPeriod PROVE PeriodIsMeant
  OBVIOUS
<1>1. ASSUME AtRest, client.login # Nothing, NEW t \in Publishing, IsMeant(client.login[t]), <<"change", t>> \notin lost
      PROVE  timers[t].ticks = Meant(client.login[t])
  <2>1. ctrl.at = "rest" /\ queue = <<>>
    BY <1>1 DEF AtRest, Rest
  <2>2. client.login \in budget.services /\ WillHave(t, Ticks(client.login[t]))
    BY <1>1, <2>1 DEF PeriodFollows
  <2>3. timers[t].ticks = Ticks(client.login[t])
    <3>1. Len(queue) = 0
      BY <2>1, EmptySeq
    <3>2. 1..0 = {}
      BY SMT
    <3> QED BY <2>2, <3>1, <3>2 DEF WillHave
  <2>4. Ticks(client.login[t]) = Meant(client.login[t])
    BY <1>1, <2>2, TicksOfService, TicksExact
  <2> QED BY <2>3, <2>4
<1> QED BY <1>1 DEF FailsForPeriod, PeriodIsMeant, Publishing

-----------------------------------------------------------------------------
(* The transmission.                                                       *)

LEMMA SilenceInit == Init => SilenceFollows
<1> SUFFICES ASSUME Init PROVE SilenceFollows
  OBVIOUS
<1>1. Len(queue) = 0 /\ timers["temp"].active = FALSE
  BY EmptySeq DEF Init
<1>2. 1..0 = {}
  BY SMT
<1> QED BY <1>1, <1>2 DEF WillRun, SilenceFollows

\* Nothing that matters to the transmission happens.
LEMMA SilenceOthers ==
  ASSUME SilenceFollows, UNCHANGED ctrlStatus, WillRun("temp")' <=> WillRun("temp"),
         <<"stop", "temp">> \in lost' <=> <<"stop", "temp">> \in lost,
         \/ ctrl.at \notin {"timers", "transmit"} /\ ctrl'.at # "transmit"
         \/ UNCHANGED ctrl
         \/ ctrl.at = "timers" /\ ctrl.job[1] # 2 /\ ctrl'.at # "transmit"
  PROVE  SilenceFollows'
BY DEF SilenceFollows

LEMMA SilenceSetTimers == ASSUME TypeInv, SilenceFollows, SetTimers PROVE SilenceFollows'
<1>1. /\ ctrl.at = "timers" /\ UNCHANGED <<timers, ctrlStatus>> /\ scfg.temp \in Periods /\ scfg.ping \in Periods
      /\ ctrl'.at # "transmit"
  BY SetTimersDoes DEF SetTimers
<1>2. "temp" \in Timers \ {"ping"} /\ "temp" \in Timers /\ "ping" \in Timers /\ "temp" \in Publishing /\ "ping" \in Publishing
  BY DEF Timers, Publishing
<1>3. ctrl.job[1] = 1 \/ ctrl.job[1] = 2 \/ ctrl.job[1] = 3 \/ ctrl.job[1] = 4
  BY SMT, SetTimersDoes
\* A change starts the timer, but the stop is the next command.
<1>4. CASE ctrl.job[1] = 1
  <2>1. ctrl'.at = "timers" /\ ctrl'.job[1] = 2
    BY SMT, <1>4, SetTimersDoes
  <2> QED BY <2>1 DEF SilenceFollows
<1>5. CASE ctrl.job[1] = 2
  <2>1. <<"stop", "temp">> \notin lost' => ~WillRun("temp")'
    BY <1>1, <1>2, <1>5, SetTimersDoes, PlainDecides
  <2> QED BY <2>1 DEF SilenceFollows
<1>6. CASE ctrl.job[1] = 3
  <2>1. /\ WillRun("temp")' <=> WillRun("temp")
        /\ <<"stop", "temp">> \in lost' <=> <<"stop", "temp">> \in lost
    BY <1>1, <1>2, <1>6, SetTimersDoes, ChangeDecides
  <2> QED BY <1>1, <1>6, <2>1, SilenceOthers
<1>7. CASE ctrl.job[1] = 4
  <2>1. /\ WillRun("temp")' <=> WillRun("temp")
        /\ <<"stop", "temp">> \in lost' <=> <<"stop", "temp">> \in lost
    BY <1>1, <1>2, <1>7, SetTimersDoes, PlainDecides
  <2> QED BY <1>1, <1>7, <2>1, SilenceOthers
<1> QED BY <1>3, <1>4, <1>5, <1>6, <1>7

LEMMA SilenceTransmit == ASSUME TypeInv, SilenceFollows, Transmit PROVE SilenceFollows'
<1>1. ctrl.at = "handle" /\ UNCHANGED <<timers, ctrlStatus>>
  BY DEF Transmit
<1>2. CASE UNCHANGED <<queue, lost>> /\ ctrl'.at = "slope"
  BY <1>1, <1>2, SameQueue, SilenceOthers
<1>3. CASE ctrl'.at = "transmit" /\ ctrl'.job[1] = "ON"
  BY <1>3 DEF SilenceFollows
<1>4. CASE Post(Command("stop", "temp"))
  <2>1. <<"stop", "temp">> \notin lost' => ~WillRun("temp")'
    BY <1>1, <1>4, PlainDecides DEF Timers
  <2> QED BY <2>1 DEF SilenceFollows
<1> QED BY <1>2, <1>3, <1>4, TransmitDoes

LEMMA SilenceEnableTemp == ASSUME TypeInv, SilenceFollows, EnableTemp PROVE SilenceFollows'
<1>1. /\ ctrl.at = "transmit" /\ ctrl.job[1] \in OnOff /\ UNCHANGED <<queue, timers, lost>>
      /\ ctrlStatus' = [ctrlStatus EXCEPT !.enableTemp = ctrl.job[1]]
  BY DEF EnableTemp, TypeInv, TasksOK
<1>2. ctrlStatus'.enableTemp = ctrl.job[1]
  BY <1>1, StatusWith DEF TypeInv
<1>3. ctrl'.at = "slope"
  BY CtrlGoes DEF EnableTemp, TypeInv
<1>4. WillRun("temp")' <=> WillRun("temp")
  BY <1>1, SameQueue
<1> QED BY <1>1, <1>2, <1>3, <1>4 DEF SilenceFollows, OnOff

\* The commands of the LED.
LEMMA SilenceLed ==
  ASSUME TypeInv, SilenceFollows, NEW name \in {"start", "stop"}, Post(Command(name, "led")),
         UNCHANGED <<timers, ctrlStatus>>, ctrl.at \notin {"timers", "transmit"}, ctrl'.at # "transmit"
  PROVE  SilenceFollows'
<1>1. "led" \in Timers /\ "temp" \in Timers \ {"led"}
  BY DEF Timers
<1>2. /\ WillRun("temp")' <=> WillRun("temp")
      /\ <<"stop", "temp">> \in lost' <=> <<"stop", "temp">> \in lost
  BY <1>1, PlainDecides
<1> QED BY <1>2, SilenceOthers

LEMMA SilenceStep == ASSUME TypeInv, SilenceFollows, [Next]_vars PROVE SilenceFollows'
<1>1. CASE Serve
  <2>1. WillRun("temp")' <=> WillRun("temp")
    BY <1>1, ServeDecides DEF Timers
  <2> QED BY <1>1, <2>1, SilenceOthers DEF Serve, ctrl
<1>2. CASE SetMode \/ WritePin
  <2>1. ctrl.at \notin {"timers", "transmit"} /\ ctrl'.at # "transmit"
    <3>1. CASE SetMode
      BY <3>1, SetModeDoes
    <3>2. CASE WritePin
      BY <3>2, CtrlGoes DEF WritePin, TypeInv
    <3> QED BY <1>2, <3>1, <3>2
  <2> QED BY <1>2, <2>1, SameQueue, SilenceOthers DEF SetMode, WritePin
<1>3. CASE StopLed
  BY <1>3, CtrlGoes, SilenceLed DEF StopLed, TypeInv
<1>4. CASE StartLed
  BY <1>4, CtrlFinishes, SilenceLed DEF StartLed, TypeInv
<1>5. CASE WriteSlope \/ CopyService \/ Receive
  <2>1. ctrl.at \notin {"timers", "transmit"} /\ ctrl'.at # "transmit"
    <3>1. CASE WriteSlope
      BY <3>1, CtrlGoes DEF WriteSlope, TypeInv
    <3>2. CASE CopyService
      BY <3>2, CtrlGoes DEF CopyService, TypeInv
    <3>3. CASE Receive
      BY <3>3, CtrlGoes DEF Receive, TypeInv
    <3> QED BY <1>5, <3>1, <3>2, <3>3
  <2> QED BY <1>5, <2>1, SameQueue, SilenceOthers DEF WriteSlope, CopyService, Receive
<1>6. CASE WriteIntercept \/ Unknown
  <2>1. ctrl.at \notin {"timers", "transmit"} /\ ctrl'.at # "transmit"
    BY <1>6, CtrlFinishes DEF WriteIntercept, Unknown, TypeInv
  <2> QED BY <1>6, <2>1, SameQueue, SilenceOthers DEF WriteIntercept, Unknown
<1>7. CASE Connect \/ Subscribe \/ Subscribed
  <2>1. ctrl.at \notin {"timers", "transmit"} /\ ctrl'.at # "transmit"
    BY <1>7, ConnectDoes, SubscribeDoes, SubscribedDoes DEF Connect, Subscribe, Subscribed
  <2> QED BY <1>7, <2>1, SameQueue, SilenceOthers DEF Connect, Subscribe, Subscribed
<1>8. CASE Relay
  <2>1. ctrl.at = "handle" /\ ctrl'.at = "slope" /\ ctrlStatus'.enableTemp = ctrlStatus.enableTemp
    BY <1>8, CtrlGoes, RelayDoes DEF Relay, TypeInv
  <2>2. WillRun("temp")' <=> WillRun("temp")
    BY <1>8, SameQueue DEF Relay
  <2> QED BY <1>8, <2>1, <2>2 DEF Relay, SilenceFollows
<1>9. CASE Publication("ctrl")
  <2>1. ctrl.at \notin {"timers", "transmit"} /\ ctrl'.at # "transmit"
    BY <1>9, CtrlPublishes DEF PublicationPoints
  <2> QED BY <1>9, <2>1, CtrlPublishes, SameQueue, SilenceOthers
<1>10. CASE SetTimers \/ Transmit \/ EnableTemp
  BY <1>10, SilenceSetTimers, SilenceTransmit, SilenceEnableTemp
<1>11. CASE Publication("timer")
  BY <1>11, TimerPublishes, SameQueue, SilenceOthers
<1>12. CASE ReadState \/ WriteState \/ ShowState
  <2>1. ctrl' = ctrl
    BY <1>12, StepTask, FinishTask DEF ReadState, WriteState, ShowState, TypeInv, ctrl, Tasks
  <2> QED BY <1>12, <2>1, SameQueue, SilenceOthers DEF ReadState, WriteState, ShowState
<1>13. CASE \E t \in DOMAIN timers : Expire(t)
  <2>1. PICK t \in Timers : Expire(t)
    BY <1>13, TimersDomain
  <2> QED BY <2>1, ExpireDoes, SameQueue, SilenceOthers DEF Expire
<1>14. CASE Drop \/ UNCHANGED vars
  BY <1>14, SameQueue, SilenceOthers DEF Drop, vars, ctrl
<1> QED BY <1>1, <1>2, <1>3, <1>4, <1>5, <1>6, <1>7, <1>8, <1>9, <1>10, <1>11, <1>12, <1>13, <1>14
     DEF Next, Begin, CtrlStep, TimerStep

LEMMA SilenceKept == SilenceFollows => SilenceIsKept
<1> SUFFICES ASSUME SilenceFollows, AtRest, <<"stop", "temp">> \notin lost, timers["temp"].active
             PROVE  ctrlStatus.enableTemp = "ON"
  BY DEF SilenceIsKept
<1>1. ctrl.at = "rest" /\ queue = <<>>
  BY DEF AtRest, Rest
<1>2. WillRun("temp")
  <2>1. Len(queue) = 0
    BY <1>1, EmptySeq
  <2>2. 1..0 = {}
    BY SMT
  <2> QED BY <2>1, <2>2 DEF WillRun
<1> QED BY <1>1, <1>2 DEF SilenceFollows

-----------------------------------------------------------------------------
(* The relay.                                                              *)

LEMMA RelayInit == Init => RelayFollows
BY DEF Init, RelayFollows, ctrl, Rest

\* Nothing that matters to the relay happens.
LEMMA RelayOthers ==
  ASSUME RelayFollows, UNCHANGED <<ctrlStatus, asked, missed>>, client'.buffer = client.buffer,
         \/ ctrl.at # "handle" /\ ctrl'.at # "handle"
         \/ UNCHANGED ctrl
  PROVE  RelayFollows'
BY DEF RelayFollows

\* A publication may overwrite the message that is handled.
LEMMA RelayPublishes ==
  ASSUME RelayFollows, UNCHANGED <<ctrlStatus, asked, missed>>,
         client'.buffer = client.buffer \/ client'.buffer[1] \notin {"relay1", "enableTemp"},
         \/ ctrl.at # "handle" /\ ctrl'.at # "handle"
         \/ UNCHANGED ctrl
  PROVE  RelayFollows'
BY DEF RelayFollows

LEMMA RelayReceive == ASSUME TypeInv, RelayFollows, Receive PROVE RelayFollows'
<1>1. ctrl.at = "rest" /\ ctrl'.at = "handle" /\ UNCHANGED ctrlStatus
  BY CtrlGoes DEF Receive, TypeInv
<1>2. PICK topic \in Listened, value \in OnOff \union {"other"} :
           /\ client'.buffer[1] = topic /\ client'.buffer[2] = value
           /\ IF topic = "relay1" /\ value # "other" THEN asked' = value /\ missed' = FALSE ELSE UNCHANGED <<asked, missed>>
  BY ReceiveDoes
<1> QED BY <1>1, <1>2 DEF RelayFollows

LEMMA RelayRelay == ASSUME TypeInv, RelayFollows, Relay PROVE RelayFollows'
<1>1. /\ ctrl.at = "handle" /\ client.buffer[1] = "relay1" /\ ctrl'.at = "slope" /\ UNCHANGED <<asked, missed>>
      /\ asked \in OnOff
  BY CtrlGoes DEF Relay, TypeInv
<1>2. ctrlStatus'.relay1 = IF client.buffer[2] = "other" THEN ctrlStatus.relay1 ELSE client.buffer[2]
  BY RelayDoes
<1>3. asked # "other"
  BY <1>1 DEF OnOff
<1> QED BY <1>1, <1>2, <1>3 DEF RelayFollows

LEMMA RelayTransmit == ASSUME TypeInv, RelayFollows, Transmit PROVE RelayFollows'
<1>1. ctrl'.at \in {"slope", "transmit"}
  BY TransmitDoes
<1> QED BY <1>1 DEF RelayFollows, Transmit

LEMMA RelayStep == ASSUME TypeInv, RelayFollows, [Next]_vars PROVE RelayFollows'
<1>1. CASE SetMode \/ WritePin \/ StopLed \/ StartLed
  <2>1. ctrl.at # "handle" /\ ctrl'.at # "handle"
    <3>1. CASE SetMode
      BY <3>1, SetModeDoes
    <3>2. CASE WritePin
      BY <3>2, CtrlGoes DEF WritePin, TypeInv
    <3>3. CASE StopLed
      BY <3>3, CtrlGoes DEF StopLed, TypeInv
    <3>4. CASE StartLed
      BY <3>4, CtrlFinishes DEF StartLed, TypeInv
    <3> QED BY <1>1, <3>1, <3>2, <3>3, <3>4
  <2> QED BY <1>1, <2>1, RelayOthers DEF SetMode, WritePin, StopLed, StartLed
<1>2. CASE WriteSlope \/ CopyService
  <2>1. ctrl.at # "handle" /\ ctrl'.at # "handle"
    <3>1. CASE WriteSlope
      BY <3>1, CtrlGoes DEF WriteSlope, TypeInv
    <3>2. CASE CopyService
      BY <3>2, CtrlGoes DEF CopyService, TypeInv
    <3> QED BY <1>2, <3>1, <3>2
  <2> QED BY <1>2, <2>1, RelayOthers DEF WriteSlope, CopyService
<1>3. CASE WriteIntercept
  <2>1. ctrl.at # "handle" /\ ctrl'.at # "handle"
    BY <1>3, CtrlFinishes DEF WriteIntercept, TypeInv
  <2> QED BY <1>3, <2>1, RelayOthers DEF WriteIntercept
<1>4. CASE Connect \/ Subscribe \/ Subscribed
  <2>1. /\ ctrl.at # "handle" /\ ctrl'.at # "handle"
        /\ client'.buffer = client.buffer \/ client'.buffer[1] \notin {"relay1", "enableTemp"}
    BY <1>4, ConnectDoes, SubscribeDoes, SubscribedDoes DEF Connect, Subscribe, Subscribed
  <2> QED BY <1>4, <2>1, RelayPublishes DEF Connect, Subscribe, Subscribed
<1>5. CASE SetTimers
  <2>1. ctrl.at # "handle" /\ ctrl'.at # "handle"
    BY <1>5, SetTimersDoes DEF SetTimers
  <2> QED BY <1>5, <2>1, RelayOthers DEF SetTimers
<1>6. CASE EnableTemp
  <2>1. ctrl.at = "transmit" /\ ctrl'.at = "slope" /\ UNCHANGED <<asked, missed>>
    BY <1>6, CtrlGoes DEF EnableTemp, TypeInv
  <2>2. ctrlStatus'.relay1 = ctrlStatus.relay1
    BY <1>6, StatusWith DEF EnableTemp, TypeInv, TasksOK
  <2> QED BY <2>1, <2>2 DEF RelayFollows
<1>7. CASE Receive \/ Relay \/ Transmit
  BY <1>7, RelayReceive, RelayRelay, RelayTransmit
<1>8. CASE Unknown
  BY <1>8 DEF Unknown, RelayFollows
<1>9. CASE Publication("ctrl")
  <2>1. ctrl.at # "handle" /\ ctrl'.at # "handle"
    BY <1>9, CtrlPublishes DEF PublicationPoints
  <2> QED BY <1>9, <2>1, CtrlPublishes, RelayPublishes
<1>10. CASE Publication("timer")
  BY <1>10, TimerPublishes, RelayPublishes
<1>11. CASE ReadState \/ WriteState \/ ShowState
  <2>1. ctrl' = ctrl
    BY <1>11, StepTask, FinishTask DEF ReadState, WriteState, ShowState, TypeInv, ctrl, Tasks
  <2> QED BY <1>11, <2>1, RelayOthers DEF ReadState, WriteState, ShowState
<1>12. CASE \E t \in DOMAIN timers : Expire(t)
  <2>1. PICK t \in Timers : Expire(t)
    BY <1>12, TimersDomain
  <2> QED BY <2>1, ExpireDoes, RelayOthers DEF Expire
<1>13. CASE Drop
  BY <1>13, DropDoes, RelayOthers DEF Drop, ctrl
<1>14. CASE Serve \/ UNCHANGED vars
  BY <1>14, RelayOthers DEF Serve, vars, ctrl
<1> QED BY <1>1, <1>2, <1>3, <1>4, <1>5, <1>6, <1>7, <1>8, <1>9, <1>10, <1>11, <1>12, <1>13, <1>14
     DEF Next, Begin, CtrlStep, TimerStep

LEMMA RelayAsked == RelayFollows => RelayIsAsAsked
BY DEF RelayFollows, RelayIsAsAsked

-----------------------------------------------------------------------------
(* The theorems.                                                           *)

\* The values stay what they are declared as, whatever the two tasks mix:
\* timers are only sent ticks that are natural numbers, the queue keeps to
\* its length, and no task is at a point it cannot go on from.
THEOREM TypeCorrect == Spec => []TypeOK
BY TypeInvariant, TypesOK, PTL

\* The mode LED of ledctrl_update: at rest it shows its mode and its timer
\* runs just when it blinks, unless the timer expired behind the update that
\* stops it, or a command to the timer found no room to the end.
THEOREM LedShowsItsMode == Spec => []LedInv
<1>1. TypeInv /\ LedFollows => LedInv
  BY TypesOK, LedShows DEF LedInv
<1>2. TypeInv /\ LedFollows /\ [Next]_vars => LedFollows'
  BY LedStep
<1> QED BY <1>1, <1>2, LedInit, TypeInvariant, PTL DEF Spec

\* The publishing timers of ctrl_task: at rest either has the period of the
\* settings that were last logged in with, for every period and unit whose
\* milliseconds fit, unless the command that sets it found no room; and only a
\* period that does not fit can stop the scheduler.
THEOREM PeriodMeantAlways == Spec => []PeriodIsMeant
<1>1. Init => PeriodFollows /\ FailsForPeriod
  BY PeriodInit, FailsInit
<1>2. TypeInv /\ PeriodFollows /\ FailsForPeriod /\ [Next]_vars => (PeriodFollows /\ FailsForPeriod)'
  BY PeriodStep, FailsStep
<1> QED BY <1>1, <1>2, PeriodMeant, TypeInvariant, PTL DEF Spec

\* The transmission of the temperature: at rest the timer that transmits runs
\* only when the device reports that it does, although a change of its period
\* starts it, unless the command that stops it found no room.
THEOREM SilenceAlways == Spec => []SilenceIsKept
<1>1. TypeInv /\ SilenceFollows /\ [Next]_vars => SilenceFollows'
  BY SilenceStep
<1> QED BY <1>1, SilenceInit, SilenceKept, TypeInvariant, PTL DEF Spec

\* subs_callback: outside of it the relay is as last asked for, unless a
\* message has been written over in the client's buffer since.
THEOREM RelayAlways == Spec => []RelayIsAsAsked
<1>1. TypeInv /\ RelayFollows /\ [Next]_vars => RelayFollows'
  BY RelayStep
<1> QED BY <1>1, RelayInit, RelayAsked, TypeInvariant, PTL DEF Spec

=============================================================================
