----------------------------- MODULE WebServer -----------------------------
(***************************************************************************)
(* The web server side of the bridge, firmware/src/webserver.cpp, over the *)
(* configuration store: who changes the settings, who saves them, and what *)
(* is left after a restart.                                                *)
(*                                                                         *)
(* Three tasks run here.  async_tcp runs the handlers of the web pages,    *)
(* one request at a time; a form writes its section of cfg and then raises *)
(* flags in an event group.  webserver_task sleeps on that event group,    *)
(* takes a snapshot of it and serves the flags of the snapshot in a fixed  *)
(* order.  The FreeRTOS timer task runs factoryreset() for the switch.     *)
(* They share cfg, the EEPROM image and the event group without a lock, so *)
(* every action is one step between two points where another task can run. *)
(***************************************************************************)
EXTENDS ConfigStore

CONSTANTS
  Forms,      \* bound: how many forms are submitted in a behaviour
  Edited,     \* the sections whose forms are submitted
  Resetters   \* who may call factoryreset: subset of {"http", "switch"}

ASSUME FormsAssumption == Forms \in Nat
ASSUME EditedAssumption == Edited \subseteq Sections
ASSUME ResettersAssumption == Resetters \subseteq {"http", "switch"}

VARIABLES
  eventGroup,  \* eventGroup, as the set of raised flags
  web,         \* the point of its loop webserver_task is at
  ctrlflags,   \* its snapshot of the event group
  listening,   \* isServerActive: the HTTP server accepts connections
  open,        \* a connection is open or may be opened, and bring a request
  stateLed,    \* the mode last given to interface_setState
  http,        \* the request async_tcp is in the middle of
  reset,       \* how far each caller of factoryreset is
  forms,       \* history: forms submitted so far
  asked,       \* history: the last form confirmed that asked to overwrite the
               \* factory calibration
  confirmed,   \* history: the last form of each section answered "ok"
  overtaken,   \* history: a form was confirmed after the last copy of cfg to
               \* the EEPROM image, but before SAVE_CFG was cleared
  disturbed    \* history: a form or another reset met a factory reset

taskVars == <<eventGroup, web, ctrlflags, listening, open, stateLed>>
historyVars == <<forms, asked, confirmed, overtaken, disturbed>>
vars == <<storeVars, taskVars, http, reset, historyVars>>

UpdateFlags == {"UPDATE_SERVICE", "UPDATE_CALIBRATION", "UPDATE_NETWORK"}
\* Mutant of WaitBits: nobody waits for SAVE_CFG.
WaitBitsDeaf == {"START_SERVER", "STOP_SERVER", "SCAN_WIFI"}
WaitBits == {"START_SERVER", "STOP_SERVER", "SCAN_WIFI", "SAVE_CFG"}
Flags == WaitBits \cup UpdateFlags \cup {"OVERWRITE_CALIBRATION"}

WebPoints == {"wait", "start", "stop", "scan", "scanning", "save", "commit",
              "saved", "overwrite", "commitcal", "overwritten"}
ResetPoints == {"idle", "fill", "put", "commit", "delay"}
HttpPoints == {"idle", "fields", "signal", "reboot", "reset"}

NoRequest == [at |-> "idle", sec |-> "ap", owrite |-> FALSE]

TypeOK ==
  /\ StoreTypeOK
  /\ eventGroup \subseteq Flags
  /\ web \in WebPoints
  /\ ctrlflags \subseteq Flags
  /\ listening \in BOOLEAN /\ open \in BOOLEAN
  /\ stateLed \in {"BLINK", "ON"}
  /\ http \in [at : HttpPoints, sec : Sections, owrite : BOOLEAN]
  /\ reset \in [Resetters -> ResetPoints]
  /\ forms \in Nat
  /\ asked \in Nat
  /\ confirmed \in [Sections -> Nat]
  /\ overtaken \in BOOLEAN
  /\ disturbed \in BOOLEAN

\* The state setup() leaves, with webserver_task waiting: nothing requested.
Volatile ==
  /\ eventGroup' = {}
  /\ web' = "wait"
  /\ ctrlflags' = {}
  /\ listening' = FALSE /\ open' = FALSE
  /\ stateLed' = "ON"
  /\ http' = NoRequest
  /\ reset' = [r \in Resetters |-> "idle"]

\* The first boot of a chip that was never written (its calibration area holds
\* no calibration), or of one with the shipped settings.
Init ==
  /\ flash \in {config_load([ver |-> 0, cfg |-> setdefault(Part(0)), cal |-> Part(0)]),
                config_load([ver |-> CFG_VER, cfg |-> setdefault(Whole(0)), cal |-> Whole(0)])}
  /\ rom = flash
  /\ cfg = flash.cfg
  /\ cal = flash.cal
  /\ eventGroup = {} /\ web = "wait" /\ ctrlflags = {}
  /\ listening = FALSE /\ open = FALSE /\ stateLed = "ON"
  /\ http = NoRequest
  /\ reset = [r \in Resetters |-> "idle"]
  /\ forms = 0 /\ asked = 0
  /\ confirmed = [s \in Sections |-> 0]
  /\ overtaken = FALSE /\ disturbed = FALSE

Resetting == \E r \in Resetters : reset[r] # "idle"

-----------------------------------------------------------------------------
(* The web pages: handlers run by the async_tcp task.                      *)

\* The connections left after the server stopped end: their pages close them,
\* or the receive timeout does.
ConnectionsEnd ==
  /\ open /\ ~listening /\ http.at = "idle"
  /\ open' = FALSE
  /\ UNCHANGED <<storeVars, eventGroup, web, ctrlflags, listening, stateLed, http, reset,
                 historyVars>>

\* Mutants of FormFlags: one form forgets to ask for a save; one raises a flag
\* of the other event group, that of ctrl_task.
FormFlagsUnsaved(s, owrite) == IF s = "ap" THEN {} ELSE {"SAVE_CFG"}
FormFlagsOtherGroup(s, owrite) == {"SAVE_CFG", "CONNECT_WIFI"}

\* The flags a form of section s raises once its fields are written.
FormFlags(s, owrite) ==
  {"SAVE_CFG"}
    \cup (IF s = "wifi" THEN {"UPDATE_NETWORK"} ELSE {})
    \cup (IF s = "service" THEN {"UPDATE_SERVICE"} ELSE {})
    \cup (IF s = "cal" THEN {"UPDATE_CALIBRATION"} ELSE {})
    \cup (IF owrite THEN {"OVERWRITE_CALIBRATION"} ELSE {})

\* The first fields of a well-formed request are in cfg, the rest is not.
ApplyBegin(s, owrite) ==
  /\ open /\ http.at = "idle"
  /\ forms < Forms
  /\ owrite => s = "cal"
  /\ forms' = forms + 1
  /\ cfg' = [cfg EXCEPT ![s] = Part(forms + 1)]
  /\ http' = [at |-> "fields", sec |-> s, owrite |-> owrite]
  /\ disturbed' = (disturbed \/ Resetting)
  /\ UNCHANGED <<cal, rom, flash, taskVars, reset, asked, confirmed, overtaken>>

\* stringToIp refuses an address: answered "error", the fields written so far
\* stay in cfg and no flag is raised.
ApplyError ==
  /\ http.at = "fields" /\ http.sec \in {"ap", "wifi"}
  /\ http' = NoRequest
  /\ disturbed' = (disturbed \/ Resetting)
  /\ UNCHANGED <<storeVars, taskVars, reset, forms, asked, confirmed, overtaken>>

\* The last field is written.  If a reset rewrote cfg meanwhile, the section
\* is a mixture.
ApplyFill ==
  /\ http.at = "fields"
  /\ cfg' = [cfg EXCEPT ![http.sec] =
               IF @ = Part(forms) THEN Whole(forms) ELSE Part(forms)]
  /\ http' = [http EXCEPT !.at = "signal"]
  /\ disturbed' = (disturbed \/ Resetting)
  /\ UNCHANGED <<cal, rom, flash, taskVars, reset, forms, asked, confirmed, overtaken>>

\* The flags are raised and the page is told "ok".
ApplySignal ==
  /\ http.at = "signal"
  /\ eventGroup' = eventGroup \cup FormFlags(http.sec, http.owrite)
  /\ confirmed' = [confirmed EXCEPT ![http.sec] = forms]
  /\ asked' = IF http.owrite THEN forms ELSE asked
  /\ overtaken' = (overtaken \/ web \in {"commit", "saved"})
  /\ disturbed' = (disturbed \/ Resetting)
  /\ http' = NoRequest
  /\ UNCHANGED <<storeVars, web, ctrlflags, listening, open, stateLed, reset, forms>>

\* /scanWifi answers with the previous list and asks for a new one.
ScanRequest ==
  /\ open /\ http.at = "idle"
  /\ eventGroup' = eventGroup \cup {"SCAN_WIFI"}
  /\ UNCHANGED <<storeVars, web, ctrlflags, listening, open, stateLed, http, reset, historyVars>>

\* /rebootbtnfunction: the handler sleeps five seconds before ESP.restart().
RebootRequest ==
  /\ open /\ http.at = "idle"
  /\ http' = [NoRequest EXCEPT !.at = "reboot"]
  /\ UNCHANGED <<storeVars, taskVars, reset, historyVars>>

-----------------------------------------------------------------------------
(* factoryreset(), called by a web page ("http") or by the switch timer.   *)

ResetClear(r) ==
  /\ reset[r] = "idle"
  /\ \/ r = "http" /\ open /\ http.at = "idle"
        /\ http' = [NoRequest EXCEPT !.at = "reset"]
     \/ r = "switch" /\ UNCHANGED http
  /\ ClearCfg
  /\ reset' = [reset EXCEPT ![r] = "fill"]
  /\ confirmed' = [s \in Sections |-> 0]
  /\ disturbed' = (disturbed \/ Resetting \/ http.at \in {"fields", "signal"})
  /\ UNCHANGED <<taskVars, forms, asked, overtaken>>

ResetStep(r, from, to) ==
  /\ reset[r] = from
  /\ reset' = [reset EXCEPT ![r] = to]
  /\ UNCHANGED <<taskVars, http, historyVars>>

\* Mutant of ResetCommit: config_setdefault without its EEPROM.commit().
ResetUncommitted(r) == ResetStep(r, "commit", "delay") /\ UNCHANGED storeVars

ResetFill(r)   == ResetStep(r, "fill", "put") /\ FillDefault
ResetPut(r)    == ResetStep(r, "put", "commit") /\ PutCfg
ResetCommit(r) == ResetStep(r, "commit", "delay") /\ Commit

-----------------------------------------------------------------------------
(* Restarts.                                                               *)

\* Whatever restarts the chip, RAM is lost and setup() loads the blob.
Boot ==
  /\ Load
  /\ Volatile
  /\ confirmed' = [s \in Sections |-> flash'.cfg[s].form]
  /\ overtaken' = FALSE
  /\ disturbed' = FALSE
  /\ UNCHANGED <<forms, asked>>

ResetRestart(r) == reset[r] = "delay" /\ Boot

RebootRestart == http.at = "reboot" /\ Boot

PowerCycle == Boot

-----------------------------------------------------------------------------
(* webserver_task.                                                         *)

\* The next flag of the snapshot to serve, in the order of the if statements.
FromOverwrite(f) == IF "OVERWRITE_CALIBRATION" \in f THEN "overwrite" ELSE "wait"
FromSave(f)  == IF "SAVE_CFG" \in f THEN "save" ELSE FromOverwrite(f)
FromScan(f)  == IF "SCAN_WIFI" \in f THEN "scan" ELSE FromSave(f)
FromStop(f)  == IF "STOP_SERVER" \in f THEN "stop" ELSE FromScan(f)
FromStart(f) == IF "START_SERVER" \in f THEN "start" ELSE FromStop(f)

webUnchanged == UNCHANGED <<http, reset, forms, asked, confirmed, disturbed>>

\* xEventGroupWaitBits: any of the four wait bits wakes the task; it returns
\* the whole group and clears nothing.
WaitForFlags ==
  /\ web = "wait" /\ eventGroup \cap WaitBits # {}
  /\ ctrlflags' = eventGroup
  /\ web' = FromStart(ctrlflags')
  /\ webUnchanged /\ UNCHANGED <<storeVars, eventGroup, listening, open, stateLed, overtaken>>

HandleStart ==
  /\ web = "start"
  /\ eventGroup' = eventGroup \ {"START_SERVER"}
  /\ listening' = TRUE /\ open' = TRUE /\ stateLed' = "BLINK"
  /\ web' = FromStop(ctrlflags)
  /\ webUnchanged /\ UNCHANGED <<storeVars, ctrlflags, overtaken>>

\* server.end() closes the port, not the connections.
HandleStop ==
  /\ web = "stop"
  /\ eventGroup' = eventGroup \ {"STOP_SERVER"}
  /\ listening' = FALSE /\ stateLed' = "ON"
  /\ web' = FromScan(ctrlflags)
  /\ webUnchanged /\ UNCHANGED <<storeVars, ctrlflags, open, overtaken>>

HandleScan ==
  /\ web = "scan"
  /\ eventGroup' = eventGroup \ {"SCAN_WIFI"}
  /\ web' = "scanning"
  /\ webUnchanged /\ UNCHANGED <<storeVars, ctrlflags, listening, open, stateLed, overtaken>>

\* WiFi.scanNetworks() returns after some seconds.
HandleScanDone ==
  /\ web = "scanning"
  /\ web' = FromSave(ctrlflags)
  /\ webUnchanged /\ UNCHANGED <<storeVars, eventGroup, ctrlflags, listening, open, stateLed, overtaken>>

\* config_savecfg: the copy of cfg, then the commit.
HandleSavePut ==
  /\ web = "save"
  /\ PutCfg
  /\ web' = "commit"
  /\ overtaken' = FALSE
  /\ webUnchanged /\ UNCHANGED <<eventGroup, ctrlflags, listening, open, stateLed>>

HandleSaveCommit ==
  /\ web = "commit"
  /\ Commit
  /\ web' = "saved"
  /\ webUnchanged /\ UNCHANGED <<eventGroup, ctrlflags, listening, open, stateLed, overtaken>>

\* SAVE_CFG is cleared after the save, whoever raised it since.
HandleSaveClear ==
  /\ web = "saved"
  /\ eventGroup' = eventGroup \ {"SAVE_CFG"}
  /\ web' = FromOverwrite(ctrlflags)
  /\ webUnchanged /\ UNCHANGED <<storeVars, ctrlflags, listening, open, stateLed, overtaken>>

HandleOverwritePut ==
  /\ web = "overwrite"
  /\ OverwriteCal
  /\ web' = "commitcal"
  /\ webUnchanged /\ UNCHANGED <<eventGroup, ctrlflags, listening, open, stateLed, overtaken>>

HandleOverwriteCommit ==
  /\ web = "commitcal"
  /\ Commit
  /\ web' = "overwritten"
  /\ webUnchanged /\ UNCHANGED <<eventGroup, ctrlflags, listening, open, stateLed, overtaken>>

HandleOverwriteClear ==
  /\ web = "overwritten"
  /\ eventGroup' = eventGroup \ {"OVERWRITE_CALIBRATION"}
  /\ web' = "wait"
  /\ webUnchanged /\ UNCHANGED <<storeVars, ctrlflags, listening, open, stateLed, overtaken>>

-----------------------------------------------------------------------------
(* Calls from ctrl_task and from the switch timer, at any time.            *)

webserver_start ==
  /\ eventGroup' = eventGroup \cup {"START_SERVER"}
  /\ UNCHANGED <<storeVars, web, ctrlflags, listening, open, stateLed, http, reset, historyVars>>

webserver_stop ==
  /\ eventGroup' = eventGroup \cup {"STOP_SERVER"}
  /\ UNCHANGED <<storeVars, web, ctrlflags, listening, open, stateLed, http, reset, historyVars>>

\* webserver_isNetworkUpdated, ..isServiceUpdated, ..isCalibrationUpdated: the
\* flag is read and cleared.
IsUpdated(flag) ==
  /\ flag \in eventGroup
  /\ eventGroup' = eventGroup \ {flag}
  /\ UNCHANGED <<storeVars, web, ctrlflags, listening, open, stateLed, http, reset, historyVars>>

-----------------------------------------------------------------------------

WebTask ==
  \/ WaitForFlags
  \/ HandleStart \/ HandleStop
  \/ HandleScan \/ HandleScanDone
  \/ HandleSavePut \/ HandleSaveCommit \/ HandleSaveClear
  \/ HandleOverwritePut \/ HandleOverwriteCommit \/ HandleOverwriteClear

\* A handler that was entered runs to its end.
Handler == ApplyError \/ ApplyFill \/ ApplySignal \/ RebootRestart

Requests ==
  \/ \E s \in Edited, owrite \in BOOLEAN : ApplyBegin(s, owrite)
  \/ ScanRequest
  \/ RebootRequest
  \/ ConnectionsEnd

FactoryReset(r) ==
  ResetClear(r) \/ ResetFill(r) \/ ResetPut(r) \/ ResetCommit(r) \/ ResetRestart(r)

Callers ==
  \/ webserver_start \/ webserver_stop
  \/ \E flag \in UpdateFlags : IsUpdated(flag)

Next ==
  \/ WebTask
  \/ Handler
  \/ Requests
  \/ \E r \in Resetters : FactoryReset(r)
  \/ Callers
  \/ PowerCycle

Spec == Init /\ [][Next]_vars

\* FreeRTOS schedules both tasks: webserver_task never blocks for good but in
\* its wait, and a handler that was entered returns.  Nobody has to press a
\* button, and the mains need not fail.
FairSpec == Spec /\ WF_vars(WebTask) /\ WF_vars(Handler)

-----------------------------------------------------------------------------
(* Correctness.                                                            *)

\* A save is due: the flag is up and the task has yet to copy cfg, or has
\* copied it and still has to commit.
SavePending == "SAVE_CFG" \in eventGroup /\ web # "saved"

\* When no save is due, flash holds, of every section, a content at least as
\* new as the last form confirmed to the page - unless a form was confirmed
\* between the copy of cfg and the clearing of SAVE_CFG (webserver.cpp:547-549),
\* or during a factory reset.
ConfirmedIsSaved ==
  ~overtaken /\ ~disturbed /\ ~SavePending =>
    \A s \in Sections : flash.cfg[s].form >= confirmed[s]

\* The restart that ends a factory reset leaves the shipped settings and the
\* factory calibration (uinterface.h:50), if no form was handled meanwhile:
\* whatever webserver_task was saving, the old settings do not come back.
UndisturbedResetRestoresFactory ==
  [][\A r \in Resetters :
       reset[r] = "delay" /\ reset'[r] = "idle" /\ ~disturbed =>
         /\ \A s \in Sections \ {"cal"} : cfg'[s] = Whole(0)
         /\ cfg'["cal"] = cal']_vars

\* A section of flash is behind what the page was told.
Behind(s) == flash.cfg[s].form < confirmed[s]

\* Every form answered "ok" is eventually in flash, unless it was overtaken.
ConfirmedReachesFlashUnlessOvertaken ==
  \A s \in Edited : Behind(s) ~> ~Behind(s) \/ overtaken

\* Every form answered "ok" is eventually in flash: "write to eeprom"
\* (webserver.cpp:291).
ConfirmedReachesFlash == \A s \in Edited : Behind(s) ~> ~Behind(s)

\* What becomes the factory calibration is the form that asked for it, as a
\* whole - unless a later calibration form, which need not ask, has written to
\* cfg before the flag is served (webserver.cpp:553), or a factory reset has.
OverwritesAsAsked ==
  [][web = "overwrite" /\ web' = "commitcal" =>
       \/ cal' = Whole(asked)
       \/ cfg["cal"].form > asked
       \/ disturbed \/ Resetting]_vars

\* What outlives a restart, and how it stands to what was confirmed.
Kept == [s \in Sections |-> flash.cfg[s].form]
Phase ==
  IF disturbed \/ Resetting THEN "reset"
  ELSE IF overtaken \/ SavePending THEN "due" ELSE "settled"

Promise == INSTANCE DurableSettings WITH told <- confirmed, kept <- Kept, phase <- Phase

\* The three tasks implement the promise of DurableSettings: between factory
\* resets, flash never goes back to an older form, what was confirmed and is
\* not saved is known to be due, and a restart finds what was saved.
PromiseIsKept == Promise!Spec

=============================================================================
