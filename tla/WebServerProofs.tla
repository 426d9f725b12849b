-------------------------- MODULE WebServerProofs --------------------------
(***************************************************************************)
(* Proofs about WebServer, for every number of forms, every choice of the  *)
(* pages that are submitted and of the callers of factoryreset.            *)
(***************************************************************************)
EXTENDS WebServer, TLAPS

-----------------------------------------------------------------------------
(* The inductive invariant of ConfirmedIsSaved.                            *)

\* Every content comes from a form that was submitted.
FormsBound ==
  /\ cal.form <= forms /\ rom.cal.form <= forms /\ flash.cal.form <= forms
  /\ \A s \in Sections :
       /\ cfg[s].form <= forms
       /\ rom.cfg[s].form <= forms
       /\ flash.cfg[s].form <= forms
       /\ confirmed[s] <= forms

\* Only HandleSaveClear takes SAVE_CFG back, so the flag that a snapshot shows
\* stays up until the save is through.
SaveFlagStays ==
  /\ web \in {"save", "commit", "saved"} => "SAVE_CFG" \in eventGroup
  /\ web \in {"start", "stop", "scan", "scanning"} /\ "SAVE_CFG" \in ctrlflags =>
       "SAVE_CFG" \in eventGroup

\* A factory reset forgets what was confirmed, and meets no form.
ResetIsAlone ==
  ~disturbed /\ Resetting =>
    /\ http.at \notin {"fields", "signal"}
    /\ \A s \in Sections : confirmed[s] = 0

\* What was confirmed is in cfg, and so is the form being handled.
CfgIsNewest ==
  ~disturbed =>
    /\ \A s \in Sections : confirmed[s] <= cfg[s].form
    /\ http.at \in {"fields", "signal"} => cfg[http.sec].form = forms

\* The EEPROM image, and then flash, follow.
RomFollows ==
  ~disturbed /\ ~overtaken /\ (web \in {"commit", "saved"} \/ "SAVE_CFG" \notin eventGroup) =>
    \A s \in Sections : confirmed[s] <= rom.cfg[s].form

FlashFollows ==
  ~disturbed /\ ~overtaken /\ (web = "saved" \/ "SAVE_CFG" \notin eventGroup) =>
    \A s \in Sections : confirmed[s] <= flash.cfg[s].form

IInv ==
  /\ TypeOK
  /\ FormsBound
  /\ SaveFlagStays
  /\ ResetIsAlone
  /\ CfgIsNewest
  /\ RomFollows
  /\ FlashFollows

-----------------------------------------------------------------------------
(* Types.                                                                  *)

\* The factory settings, and what is loaded of a well-formed blob, are well
\* formed.
LEMMA DefaultType ==
  ASSUME NEW c \in Content
  PROVE  setdefault(c) \in [Sections -> Content]
BY DEF setdefault, Content, Whole, Sections

LEMMA LoadType ==
  ASSUME NEW f \in Image
  PROVE  config_load(f) \in Image
BY DefaultType DEF config_load, Image

\* The order of webserver_task's if statements leads to one of its points.
LEMMA PointsType ==
  ASSUME NEW f
  PROVE  /\ FromStart(f) \in WebPoints /\ FromStop(f) \in WebPoints
         /\ FromScan(f) \in WebPoints /\ FromSave(f) \in WebPoints
         /\ FromOverwrite(f) \in WebPoints
BY DEF FromStart, FromStop, FromScan, FromSave, FromOverwrite, WebPoints

LEMMA FormFlagsType ==
  ASSUME NEW s \in Sections, NEW owrite \in BOOLEAN
  PROVE  FormFlags(s, owrite) \subseteq Flags /\ "SAVE_CFG" \in FormFlags(s, owrite)
BY DEF FormFlags, Flags, WaitBits, UpdateFlags

LEMMA InitType == Init => TypeOK
<1> SUFFICES ASSUME Init PROVE TypeOK
  OBVIOUS
<1>1. flash \in Image
  <2> DEFINE erased == [ver |-> 0, cfg |-> setdefault(Part(0)), cal |-> Part(0)]
             shipped == [ver |-> CFG_VER, cfg |-> setdefault(Whole(0)), cal |-> Whole(0)]
  <2>1. Part(0) \in Content /\ Whole(0) \in Content
    BY DEF Part, Whole, Content
  <2>2. erased \in Image /\ shipped \in Image
    BY <2>1, DefaultType DEF Image, CFG_VER
  <2> QED
    BY <2>2, LoadType DEF Init
<1>2. cfg \in [Sections -> Content] /\ cal \in Content
  BY <1>1 DEF Init, Image
<1> QED
  BY <1>1, <1>2
  DEF Init, TypeOK, StoreTypeOK, NoRequest, HttpPoints, Sections, WebPoints, ResetPoints

\* Whatever restarts the device, setup() finds and leaves well-formed values.
LEMMA BootType == TypeOK /\ Boot => TypeOK'
<1> SUFFICES ASSUME TypeOK, Boot PROVE TypeOK'
  OBVIOUS
<1>1. flash' \in Image
  BY LoadType DEF TypeOK, StoreTypeOK, Boot, Load
<1>2. StoreTypeOK'
  BY <1>1 DEF StoreTypeOK, Boot, Load, Image
<1>3. confirmed' \in [Sections -> Nat]
  BY <1>1 DEF Boot, Image, Content
<1> QED
  BY <1>2, <1>3
  DEF TypeOK, Boot, Volatile, NoRequest, HttpPoints, Sections, WebPoints, ResetPoints

\* Every step keeps the types.
LEMMA NextType == TypeOK /\ [Next]_vars => TypeOK'
<1> SUFFICES ASSUME TypeOK, [Next]_vars PROVE TypeOK'
  OBVIOUS
<1> USE DEF TypeOK, StoreTypeOK, storeVars, taskVars, historyVars
<1>1. CASE WebTask
  <2> USE PointsType DEF webUnchanged
  <2>1. CASE WaitForFlags
    BY <2>1 DEF WaitForFlags
  <2>2. CASE HandleStart
    BY <2>2 DEF HandleStart
  <2>3. CASE HandleStop
    BY <2>3 DEF HandleStop
  <2>4. CASE HandleScan \/ HandleScanDone
    BY <2>4 DEF HandleScan, HandleScanDone, WebPoints
  <2>5. CASE HandleSavePut
    BY <2>5 DEF HandleSavePut, PutCfg, Image, WebPoints
  <2>6. CASE HandleSaveCommit
    BY <2>6 DEF HandleSaveCommit, Commit, WebPoints
  <2>7. CASE HandleSaveClear
    BY <2>7 DEF HandleSaveClear
  <2>8. CASE HandleOverwritePut
    <3>1. cfg["cal"] \in Content
      BY DEF Sections
    <3> QED
      BY <2>8, <3>1 DEF HandleOverwritePut, OverwriteCal, Image, WebPoints
  <2>9. CASE HandleOverwriteCommit
    BY <2>9 DEF HandleOverwriteCommit, Commit, WebPoints
  <2>10. CASE HandleOverwriteClear
    BY <2>10 DEF HandleOverwriteClear, WebPoints
  <2> QED
    BY <1>1, <2>1, <2>2, <2>3, <2>4, <2>5, <2>6, <2>7, <2>8, <2>9, <2>10 DEF WebTask
<1>2. CASE Handler
  <2>1. CASE ApplyError
    BY <2>1 DEF ApplyError, NoRequest, HttpPoints, Sections
  <2>2. CASE ApplyFill
    <3>1. Part(forms) \in Content /\ Whole(forms) \in Content
      BY DEF Part, Whole, Content
    <3>2. cfg' \in [Sections -> Content]
      BY <2>2, <3>1 DEF ApplyFill
    <3>3. http' \in [at : HttpPoints, sec : Sections, owrite : BOOLEAN]
      BY <2>2 DEF ApplyFill, HttpPoints
    <3> QED
      BY <2>2, <3>2, <3>3 DEF ApplyFill
  <2>3. CASE ApplySignal
    BY <2>3, FormFlagsType DEF ApplySignal, NoRequest, HttpPoints, Sections
  <2>4. CASE RebootRestart
    BY <2>4, BootType DEF RebootRestart
  <2> QED
    BY <1>2, <2>1, <2>2, <2>3, <2>4 DEF Handler
<1>3. CASE Requests
  <2>1. ASSUME NEW s \in Edited, NEW owrite \in BOOLEAN, ApplyBegin(s, owrite)
        PROVE  TypeOK'
    <3>1. s \in Sections
      BY EditedAssumption
    <3>2. Part(forms + 1) \in Content
      BY DEF Part, Content
    <3>3. cfg' \in [Sections -> Content]
      BY <2>1, <3>1, <3>2 DEF ApplyBegin
    <3>4. http' \in [at : HttpPoints, sec : Sections, owrite : BOOLEAN]
      BY <2>1, <3>1 DEF ApplyBegin, HttpPoints
    <3>5. forms' \in Nat /\ asked' \in Nat
      BY <2>1 DEF ApplyBegin
    <3> QED
      BY <2>1, <3>3, <3>4, <3>5 DEF ApplyBegin
  <2>2. CASE ScanRequest
    BY <2>2 DEF ScanRequest, Flags, WaitBits
  <2>3. CASE RebootRequest
    BY <2>3 DEF RebootRequest, NoRequest, HttpPoints, Sections
  <2>4. CASE ConnectionsEnd
    BY <2>4 DEF ConnectionsEnd
  <2> QED
    BY <1>3, <2>1, <2>2, <2>3, <2>4 DEF Requests
<1>4. ASSUME NEW r \in Resetters, FactoryReset(r) PROVE TypeOK'
  <2>1. CASE ResetClear(r)
    <3>1. Part(0) \in Content
      BY DEF Part, Content
    <3>2. http' \in [at : HttpPoints, sec : Sections, owrite : BOOLEAN]
      BY <2>1 DEF ResetClear, NoRequest, HttpPoints, Sections
    <3> QED
      BY <2>1, <3>1, <3>2 DEF ResetClear, ClearCfg, ResetPoints
  <2>2. CASE ResetFill(r)
    BY <2>2, DefaultType DEF ResetFill, ResetStep, FillDefault, ResetPoints
  <2>3. CASE ResetPut(r)
    BY <2>3 DEF ResetPut, ResetStep, PutCfg, Image, ResetPoints
  <2>4. CASE ResetCommit(r)
    BY <2>4 DEF ResetCommit, ResetStep, Commit, ResetPoints
  <2>5. CASE ResetRestart(r)
    BY <2>5, BootType DEF ResetRestart
  <2> QED
    BY <1>4, <2>1, <2>2, <2>3, <2>4, <2>5 DEF FactoryReset
<1>5. CASE Callers
  BY <1>5 DEF Callers, webserver_start, webserver_stop, IsUpdated, Flags, WaitBits
<1>6. CASE PowerCycle
  BY <1>6, BootType DEF PowerCycle
<1>7. CASE UNCHANGED vars
  BY <1>7 DEF vars
<1> QED
  BY <1>1, <1>2, <1>3, <1>4, <1>5, <1>6, <1>7 DEF Next

\* Every reachable state of the server, the store and the requests has its
\* type.
THEOREM TypeCorrect == Spec => []TypeOK
<1>1. Init => TypeOK
  BY InitType
<1>2. TypeOK /\ [Next]_vars => TypeOK'
  BY NextType
<1> QED
  BY <1>1, <1>2, PTL DEF Spec

-----------------------------------------------------------------------------
(* What was confirmed is saved.                                            *)

\* The next point is "save" only if the snapshot shows SAVE_CFG, and it is
\* never in the middle of a save.
LEMMA PointsOfSnapshot ==
  ASSUME NEW f,
         NEW w \in {FromStart(f), FromStop(f), FromScan(f), FromSave(f), FromOverwrite(f)}
  PROVE  /\ w \notin {"commit", "saved", "scanning"}
         /\ w = "save" => "SAVE_CFG" \in f
BY DEF FromStart, FromStop, FromScan, FromSave, FromOverwrite

LEMMA InitIInv == Init => IInv
<1> SUFFICES ASSUME Init PROVE IInv
  OBVIOUS
<1>1. TypeOK
  BY InitType
<1>2. /\ flash.cal.form = 0
      /\ \A s \in Sections : flash.cfg[s].form = 0
  <2> DEFINE erased == [ver |-> 0, cfg |-> setdefault(Part(0)), cal |-> Part(0)]
             shipped == [ver |-> CFG_VER, cfg |-> setdefault(Whole(0)), cal |-> Whole(0)]
  <2>1. flash = config_load(erased) \/ flash = config_load(shipped)
    BY DEF Init
  <2>2. /\ config_load(erased).cal = Part(0)
        /\ config_load(erased).cfg = setdefault(Part(0))
    BY DEF config_load, CFG_VER
  <2>3. config_load(shipped) = shipped
    BY DEF config_load
  <2> QED
    BY <2>1, <2>2, <2>3 DEF setdefault, Part, Whole
<1>3. \A s \in Sections : /\ cfg[s].form = 0 /\ rom.cfg[s].form = 0 /\ confirmed[s] = 0
                          /\ cal.form = 0 /\ rom.cal.form = 0
  BY <1>2 DEF Init
<1>4. forms = 0 /\ "ap" \in Sections
  BY DEF Init, Sections
<1>5. ~Resetting /\ http.at = "idle" /\ web = "wait"
  BY DEF Init, Resetting, NoRequest
<1> QED
  BY <1>1, <1>2, <1>3, <1>4, <1>5
  DEF IInv, FormsBound, SaveFlagStays, ResetIsAlone, CfgIsNewest, RomFollows, FlashFollows

\* After a restart all four places agree, and what is in flash counts as
\* confirmed.
LEMMA BootIInv == IInv /\ Boot => IInv'
<1> SUFFICES ASSUME IInv, Boot PROVE IInv'
  OBVIOUS
<1>1. TypeOK'
  BY BootType DEF IInv
<1>2. /\ flash'.cal.form <= forms
      /\ \A s \in Sections : flash'.cfg[s].form <= forms
  <2>1. flash' = config_load(flash)
    BY DEF Boot, Load
  <2>2. /\ flash \in Image /\ forms \in Nat
        /\ flash.cal.form <= forms
        /\ \A s \in Sections : flash.cfg[s].form <= forms
    BY DEF IInv, TypeOK, StoreTypeOK, FormsBound
  <2>3. CASE flash.ver = CFG_VER
    BY <2>1, <2>2, <2>3 DEF config_load
  <2>4. CASE flash.ver # CFG_VER
    <3>1. flash'.cal = flash.cal /\ flash'.cfg = setdefault(flash.cal)
      BY <2>1, <2>4 DEF config_load
    <3> QED
      BY <3>1, <2>2 DEF setdefault, Whole
  <2> QED
    BY <2>3, <2>4
<1>3. /\ rom' = flash' /\ cfg' = flash'.cfg /\ cal' = flash'.cal /\ forms' = forms
      /\ confirmed' = [s \in Sections |-> flash'.cfg[s].form]
  BY DEF Boot, Load
<1>4. \A s \in Sections : confirmed'[s] <= flash'.cfg[s].form /\ confirmed'[s] <= forms
  <2> SUFFICES ASSUME NEW s \in Sections
               PROVE  confirmed'[s] <= flash'.cfg[s].form /\ confirmed'[s] <= forms
    OBVIOUS
  <2>1. flash'.cfg[s].form \in Nat
    BY <1>1 DEF TypeOK, StoreTypeOK, Image, Content
  <2> QED
    BY <2>1, <1>2, <1>3
<1>5. ~Resetting' /\ http'.at = "idle" /\ web' = "wait"
  BY DEF Boot, Volatile, Resetting, NoRequest
<1> QED
  BY <1>1, <1>2, <1>3, <1>4, <1>5
  DEF IInv, FormsBound, SaveFlagStays, ResetIsAlone, CfgIsNewest, RomFollows, FlashFollows

\* Every step keeps the inductive invariant.
LEMMA NextIInv == IInv /\ [Next]_vars => IInv'
<1> SUFFICES ASSUME IInv, [Next]_vars PROVE IInv'
  OBVIOUS
<1>0. TypeOK /\ TypeOK'
  BY NextType DEF IInv
<1>t. /\ forms \in Nat /\ confirmed \in [Sections -> Nat]
      /\ cfg \in [Sections -> Content] /\ rom \in Image /\ flash \in Image /\ cal \in Content
      /\ http.sec \in Sections
      /\ \A s \in Sections : /\ confirmed[s] \in Nat
                             /\ cfg[s].form \in Nat
                             /\ rom.cfg[s].form \in Nat /\ flash.cfg[s].form \in Nat
      /\ "cal" \in Sections
      /\ cal.form \in Nat /\ rom.cal.form \in Nat /\ flash.cal.form \in Nat
  BY <1>0 DEF TypeOK, StoreTypeOK, Image, Content, Sections
<1> DEFINE Parts == /\ FormsBound /\ SaveFlagStays /\ ResetIsAlone
                    /\ CfgIsNewest /\ RomFollows /\ FlashFollows
<1>p. Parts
  BY DEF IInv
<1> SUFFICES Parts'
  BY <1>0 DEF IInv
<1> USE <1>p, <1>t
    DEF FormsBound, SaveFlagStays, ResetIsAlone, CfgIsNewest, RomFollows, FlashFollows,
        Resetting, storeVars, taskVars, historyVars
<1>1. CASE WebTask
  <2> USE DEF webUnchanged
  <2>1. CASE WaitForFlags
    BY <2>1, PointsOfSnapshot DEF WaitForFlags
  <2>2. CASE HandleStart
    BY <2>2, PointsOfSnapshot DEF HandleStart
  <2>3. CASE HandleStop
    BY <2>3, PointsOfSnapshot DEF HandleStop
  <2>4. CASE HandleScan
    BY <2>4 DEF HandleScan
  <2>5. CASE HandleScanDone
    BY <2>5, PointsOfSnapshot DEF HandleScanDone
  <2>6. CASE HandleSavePut
    BY <2>6 DEF HandleSavePut, PutCfg, Image
  <2>7. CASE HandleSaveCommit
    BY <2>7 DEF HandleSaveCommit, Commit
  <2>8. CASE HandleSaveClear
    BY <2>8, PointsOfSnapshot DEF HandleSaveClear, FromOverwrite
  <2>9. CASE HandleOverwritePut
    BY <2>9 DEF HandleOverwritePut, OverwriteCal, Image
  <2>10. CASE HandleOverwriteCommit
    BY <2>10 DEF HandleOverwriteCommit, Commit
  <2>11. CASE HandleOverwriteClear
    BY <2>11 DEF HandleOverwriteClear
  <2> QED
    BY <1>1, <2>1, <2>2, <2>3, <2>4, <2>5, <2>6, <2>7, <2>8, <2>9, <2>10, <2>11 DEF WebTask
<1>2. CASE Handler
  <2>1. CASE ApplyError
    BY <2>1 DEF ApplyError, NoRequest
  <2>2. CASE ApplyFill
    <3>1. \A s \in Sections : cfg'[s].form = IF s = http.sec THEN forms ELSE cfg[s].form
      BY <2>2 DEF ApplyFill, Part, Whole
    <3>2. http'.sec = http.sec /\ http.at = "fields" /\ http'.at = "signal"
      BY <2>2, <1>0 DEF ApplyFill, TypeOK
    <3>3. UNCHANGED <<cal, rom, flash, taskVars, reset, forms, confirmed, overtaken>>
      BY <2>2 DEF ApplyFill
    <3>4. disturbed' = (disturbed \/ Resetting)
      BY <2>2 DEF ApplyFill
    <3>5. FormsBound'
      BY <3>1, <3>3
    <3>8. SaveFlagStays' /\ RomFollows' /\ FlashFollows'
      BY <3>3, <3>4
    <3>6. ResetIsAlone'
      BY <3>2, <3>3, <3>4
    <3>7. CfgIsNewest'
      BY <3>1, <3>2, <3>3, <3>4
    <3> QED
      BY <3>5, <3>6, <3>7, <3>8
  <2>3. CASE ApplySignal
    <3>1. http.at = "signal" /\ http'.at = "idle"
      BY <2>3 DEF ApplySignal, NoRequest
    <3>2. "SAVE_CFG" \in eventGroup'
      BY <2>3, <1>0, FormFlagsType DEF ApplySignal, TypeOK
    <3>3. \A s \in Sections : confirmed'[s] = IF s = http.sec THEN forms ELSE confirmed[s]
      BY <2>3 DEF ApplySignal
    <3>4. UNCHANGED <<storeVars, web, ctrlflags, listening, open, reset, forms>>
      BY <2>3 DEF ApplySignal
    <3>5. /\ overtaken' = (overtaken \/ web \in {"commit", "saved"})
          /\ disturbed' = (disturbed \/ Resetting)
      BY <2>3 DEF ApplySignal
    <3>6. FormsBound' /\ SaveFlagStays'
      BY <3>2, <3>3, <3>4
    <3>7. ResetIsAlone'
      BY <3>1, <3>4, <3>5
    <3>8. CfgIsNewest'
      <4>1. ASSUME ~disturbed', NEW s \in Sections PROVE confirmed'[s] <= cfg'[s].form
        <5>1. confirmed[s] <= cfg[s].form /\ cfg[http.sec].form = forms
          BY <3>1, <3>5, <4>1
        <5>2. cfg'[s] = cfg[s] /\ cfg[s].form \in Nat
          BY <3>4
        <5> QED
          BY ONLY <3>3, <5>1, <5>2, <1>t
      <4> QED
        BY <3>1, <4>1 DEF CfgIsNewest
    <3>9. RomFollows' /\ FlashFollows'
      BY <3>2, <3>4, <3>5
    <3> QED
      BY <3>6, <3>7, <3>8, <3>9
  <2>4. CASE RebootRestart
    BY <2>4, BootIInv DEF RebootRestart, IInv
  <2> QED
    BY <1>2, <2>1, <2>2, <2>3, <2>4 DEF Handler
<1>3. CASE Requests
  <2>1. ASSUME NEW s \in Edited, NEW owrite \in BOOLEAN, ApplyBegin(s, owrite)
        PROVE  Parts'
    <3>1. \A q \in Sections : cfg'[q].form = IF q = s THEN forms + 1 ELSE cfg[q].form
      BY <2>1 DEF ApplyBegin, Part
    <3>2. http'.sec = s /\ s \in Sections /\ forms' = forms + 1
      BY <2>1, EditedAssumption DEF ApplyBegin
    <3>3. UNCHANGED <<cal, rom, flash, taskVars, reset, confirmed, overtaken>>
      BY <2>1 DEF ApplyBegin
    <3>4. disturbed' = (disturbed \/ Resetting)
      BY <2>1 DEF ApplyBegin
    <3>5. FormsBound'
      BY <3>1, <3>2, <3>3
    <3>6. SaveFlagStays' /\ RomFollows' /\ FlashFollows'
      BY <3>3, <3>4
    <3>7. ResetIsAlone'
      BY <3>3, <3>4
    <3>8. CfgIsNewest'
      <4>1. ASSUME ~disturbed', NEW q \in Sections PROVE confirmed'[q] <= cfg'[q].form
        <5>1. confirmed[q] <= cfg[q].form /\ confirmed[q] <= forms
          BY <3>4, <4>1
        <5>2. confirmed'[q] = confirmed[q]
          BY <3>3
        <5> QED
          BY ONLY <3>1, <5>1, <5>2, <1>t
      <4>2. cfg'[http'.sec].form = forms'
        BY ONLY <3>1, <3>2
      <4> QED
        BY ONLY <4>1, <4>2 DEF CfgIsNewest
    <3> QED
      BY <3>5, <3>6, <3>7, <3>8
  <2>2. CASE ScanRequest
    BY <2>2 DEF ScanRequest
  <2>3. CASE RebootRequest
    BY <2>3 DEF RebootRequest, NoRequest
  <2>4. CASE ConnectionsEnd
    BY <2>4 DEF ConnectionsEnd
  <2> QED
    BY <1>3, <2>1, <2>2, <2>3, <2>4 DEF Requests
<1>4. ASSUME NEW r \in Resetters, FactoryReset(r) PROVE Parts'
  <2>1. CASE ResetClear(r)
    <3>1. \A s \in Sections : cfg'[s].form = 0 /\ confirmed'[s] = 0
      BY <2>1 DEF ResetClear, ClearCfg, Part
    <3>2. ~disturbed' => http'.at \notin {"fields", "signal"}
      BY <2>1 DEF ResetClear, NoRequest
    <3>3. UNCHANGED <<cal, rom, flash, taskVars, forms, overtaken>>
      BY <2>1 DEF ResetClear, ClearCfg
    <3>4. FormsBound' /\ SaveFlagStays'
      BY <3>1, <3>3
    <3>5. ResetIsAlone' /\ CfgIsNewest'
      BY <3>1, <3>2
    <3>6. \A s \in Sections : rom'.cfg[s].form >= 0 /\ flash'.cfg[s].form >= 0
      BY <3>3
    <3>7. RomFollows' /\ FlashFollows'
      BY <3>1, <3>6
    <3> QED
      BY <3>4, <3>5, <3>7
  <2>2. CASE ResetFill(r)
    <3>1. \A s \in Sections : cfg'[s].form \in {0, cal.form}
      BY <2>2 DEF ResetFill, FillDefault, setdefault, Whole
    <3>2. reset[r] # "idle" /\ reset'[r] # "idle"
      BY <2>2, <1>0 DEF ResetFill, ResetStep, TypeOK
    <3>3. UNCHANGED <<cal, rom, flash, taskVars, http, historyVars>>
      BY <2>2 DEF ResetFill, ResetStep, FillDefault
    <3>4. FormsBound' /\ SaveFlagStays'
      BY <3>1, <3>3
    <3>5. ResetIsAlone'
      BY <3>2, <3>3
    <3>6. CfgIsNewest'
      BY <3>1, <3>2, <3>3
    <3>7. RomFollows' /\ FlashFollows'
      BY <3>3
    <3> QED
      BY <3>4, <3>5, <3>6, <3>7
  <2>3. CASE ResetPut(r)
    BY <2>3 DEF ResetPut, ResetStep, PutCfg, Image
  <2>4. CASE ResetCommit(r)
    BY <2>4 DEF ResetCommit, ResetStep, Commit
  <2>5. CASE ResetRestart(r)
    BY <2>5, BootIInv DEF ResetRestart, IInv
  <2> QED
    BY <1>4, <2>1, <2>2, <2>3, <2>4, <2>5 DEF FactoryReset
<1>5. CASE Callers
  BY <1>5 DEF Callers, webserver_start, webserver_stop, IsUpdated, UpdateFlags
<1>6. CASE PowerCycle
  BY <1>6, BootIInv DEF PowerCycle, IInv
<1>7. CASE UNCHANGED vars
  BY <1>7 DEF vars
<1> QED
  BY <1>1, <1>2, <1>3, <1>4, <1>5, <1>6, <1>7 DEF Next

\* A confirmed form is in flash whenever no save is due, except for the forms
\* that a save overtook or a factory reset met.
THEOREM ConfirmedStaysSaved == Spec => []ConfirmedIsSaved
<1>1. Init => IInv
  BY InitIInv
<1>2. IInv /\ [Next]_vars => IInv'
  BY NextIInv
<1>3. IInv => ConfirmedIsSaved
  <2> SUFFICES ASSUME IInv, ~overtaken, ~disturbed, ~SavePending, NEW s \in Sections
               PROVE  flash.cfg[s].form >= confirmed[s]
    BY DEF ConfirmedIsSaved
  <2>1. confirmed[s] \in Nat /\ flash.cfg[s].form \in Nat
    BY DEF IInv, TypeOK, StoreTypeOK, Image, Content
  <2> QED
    BY <2>1 DEF IInv, FlashFollows, SavePending
<1> QED
  BY <1>1, <1>2, <1>3, PTL DEF Spec

-----------------------------------------------------------------------------
(* A factory reset that no form met.                                       *)

\* Only one caller is in factoryreset().
ResetIsSingle ==
  ~disturbed => \A r, q \in Resetters : reset[r] # "idle" /\ reset[q] # "idle" => r = q

\* The image's factory calibration is the one in RAM.
CalFollows == rom.cal = cal

\* The shipped settings go from cfg to the image to flash; whatever
\* webserver_task saves meanwhile is the same.
FactoryComes ==
  ~disturbed =>
    \A r \in Resetters :
      /\ reset[r] \in {"put", "commit", "delay"} => cfg = setdefault(cal)
      /\ reset[r] \in {"commit", "delay"} => rom.cfg = setdefault(cal)
      /\ reset[r] = "delay" => flash.cfg = setdefault(cal) /\ flash.cal = cal

ResetInv == ResetIsSingle /\ CalFollows /\ FactoryComes

LEMMA InitReset == Init => ResetInv
<1> SUFFICES ASSUME Init PROVE ResetInv
  OBVIOUS
<1>1. \A r \in Resetters : reset[r] = "idle"
  BY DEF Init
<1>2. rom.cal = cal
  BY DEF Init
<1> QED
  BY <1>1, <1>2 DEF ResetInv, ResetIsSingle, CalFollows, FactoryComes

LEMMA BootReset == Boot => ResetInv'
<1> SUFFICES ASSUME Boot PROVE ResetInv'
  OBVIOUS
<1>1. \A r \in Resetters : reset'[r] = "idle"
  BY DEF Boot, Volatile
<1>2. rom'.cal = cal'
  BY DEF Boot, Load
<1> QED
  BY <1>1, <1>2 DEF ResetInv, ResetIsSingle, CalFollows, FactoryComes

\* Every step keeps it.
LEMMA NextReset == TypeOK /\ ResetInv /\ [Next]_vars => ResetInv'
<1> SUFFICES ASSUME TypeOK, ResetInv, [Next]_vars PROVE ResetInv'
  OBVIOUS
<1>t. /\ reset \in [Resetters -> ResetPoints] /\ rom \in Image /\ flash \in Image
      /\ "cal" \in Sections /\ setdefault(cal)["cal"] = cal
  BY DEF TypeOK, StoreTypeOK, Sections, setdefault
<1> USE <1>t
    DEF ResetInv, ResetIsSingle, CalFollows, FactoryComes, storeVars, taskVars, historyVars
<1>1. CASE WebTask
  <2>1. UNCHANGED <<reset, disturbed>>
    BY <1>1 DEF WebTask, WaitForFlags, HandleStart, HandleStop, HandleScan, HandleScanDone,
                HandleSavePut, HandleSaveCommit, HandleSaveClear, HandleOverwritePut,
                HandleOverwriteCommit, HandleOverwriteClear, webUnchanged
  <2>2. CASE HandleSavePut
    BY <2>1, <2>2 DEF HandleSavePut, PutCfg, Image
  <2>3. CASE HandleSaveCommit \/ HandleOverwriteCommit
    BY <2>1, <2>3 DEF HandleSaveCommit, HandleOverwriteCommit, Commit
  <2>4. CASE HandleOverwritePut
    <3>1. /\ cal' = cfg["cal"] /\ rom'.cal = cfg["cal"] /\ rom'.cfg = rom.cfg
          /\ UNCHANGED <<cfg, flash>>
      BY <2>4 DEF HandleOverwritePut, OverwriteCal, Image
    <3>2. ASSUME ~disturbed, NEW r \in Resetters, reset[r] \in {"put", "commit", "delay"}
          PROVE  cal' = cal
      BY <3>1, <3>2
    <3> QED
      BY <2>1, <3>1, <3>2
  <2>5. CASE UNCHANGED storeVars
    BY <2>1, <2>5
  <2> QED
    BY <1>1, <2>2, <2>3, <2>4, <2>5
    DEF WebTask, WaitForFlags, HandleStart, HandleStop, HandleScan, HandleScanDone,
        HandleSaveClear, HandleOverwriteClear
<1>2. CASE Boot
  BY <1>2, BootReset
<1>3. ASSUME NEW s \in Edited, NEW owrite \in BOOLEAN, ApplyBegin(s, owrite) PROVE ResetInv'
  BY <1>3 DEF ApplyBegin, Resetting
<1>4. CASE ApplyError
  BY <1>4 DEF ApplyError
<1>5. CASE ApplyFill
  BY <1>5 DEF ApplyFill, Resetting
<1>6. CASE ApplySignal
  BY <1>6 DEF ApplySignal
<1>7. CASE ScanRequest \/ RebootRequest \/ ConnectionsEnd \/ Callers
  BY <1>7 DEF ScanRequest, RebootRequest, ConnectionsEnd, Callers, webserver_start,
              webserver_stop, IsUpdated
<1>8. ASSUME NEW r \in Resetters, ResetClear(r) PROVE ResetInv'
  <2>1. /\ \A q \in Resetters : reset'[q] = IF q = r THEN "fill" ELSE reset[q]
        /\ UNCHANGED <<cal, rom, flash>>
        /\ disturbed' = (disturbed \/ Resetting \/ http.at \in {"fields", "signal"})
    BY <1>8 DEF ResetClear, ClearCfg
  <2>2. ~disturbed' => ~disturbed /\ \A q \in Resetters : reset[q] = "idle"
    BY <2>1 DEF Resetting
  <2> QED
    BY <2>1, <2>2
<1>9. ASSUME NEW r \in Resetters,
             ResetFill(r) \/ ResetPut(r) \/ ResetCommit(r)
      PROVE  ResetInv'
  <2>1. disturbed' = disturbed
    BY <1>9 DEF ResetFill, ResetPut, ResetCommit, ResetStep
  <2>2. CASE ResetFill(r)
    <3>1. /\ cfg' = setdefault(cal) /\ UNCHANGED <<cal, rom, flash>>
          /\ \A q \in Resetters : reset'[q] = IF q = r THEN "put" ELSE reset[q]
          /\ reset[r] = "fill"
      BY <2>2 DEF ResetFill, ResetStep, FillDefault
    <3> QED
      BY <2>1, <3>1
  <2>3. CASE ResetPut(r)
    <3>1. /\ rom'.cfg = cfg /\ rom'.cal = rom.cal /\ UNCHANGED <<cfg, cal, flash>>
          /\ \A q \in Resetters : reset'[q] = IF q = r THEN "commit" ELSE reset[q]
          /\ reset[r] = "put"
      BY <2>3 DEF ResetPut, ResetStep, PutCfg, Image
    <3> QED
      BY <2>1, <3>1
  <2>4. CASE ResetCommit(r)
    <3>1. /\ flash' = rom /\ UNCHANGED <<cfg, cal, rom>>
          /\ \A q \in Resetters : reset'[q] = IF q = r THEN "delay" ELSE reset[q]
          /\ reset[r] = "commit"
      BY <2>4 DEF ResetCommit, ResetStep, Commit
    <3> QED
      BY <2>1, <3>1
  <2> QED
    BY <1>9, <2>2, <2>3, <2>4
<1>10. CASE UNCHANGED vars
  BY <1>10 DEF vars
<1> QED
  BY <1>1, <1>2, <1>3, <1>4, <1>5, <1>6, <1>7, <1>8, <1>9, <1>10
  DEF Next, Handler, Requests, FactoryReset, RebootRestart, ResetRestart, PowerCycle

\* The restart that ends a factory reset brings the shipped settings and the
\* factory calibration, if no form was handled and no other reset began
\* meanwhile, whatever webserver_task was saving.
THEOREM ResetRestoresFactory == Spec => UndisturbedResetRestoresFactory
<1> DEFINE Restored ==
      \A r \in Resetters :
        reset[r] = "delay" /\ reset'[r] = "idle" /\ ~disturbed =>
          /\ \A s \in Sections \ {"cal"} : cfg'[s] = Whole(0)
          /\ cfg'["cal"] = cal'
<1>1. TypeOK /\ ResetInv /\ [Next]_vars => [Restored]_vars
  <2> SUFFICES ASSUME TypeOK, ResetInv, [Next]_vars,
                      NEW r \in Resetters, reset[r] = "delay", reset'[r] = "idle", ~disturbed
               PROVE  /\ \A s \in Sections \ {"cal"} : cfg'[s] = Whole(0)
                      /\ cfg'["cal"] = cal'
    OBVIOUS
  <2>t. reset \in [Resetters -> ResetPoints] /\ "cal" \in Sections
    BY DEF TypeOK, Sections
  <2>1. Boot
    <3>1. CASE WebTask \/ ApplyError \/ ApplyFill \/ ApplySignal
      BY <3>1 DEF WebTask, WaitForFlags, HandleStart, HandleStop, HandleScan, HandleScanDone,
                  HandleSavePut, HandleSaveCommit, HandleSaveClear, HandleOverwritePut,
                  HandleOverwriteCommit, HandleOverwriteClear, webUnchanged,
                  ApplyError, ApplyFill, ApplySignal
    <3>2. CASE Requests \/ Callers \/ UNCHANGED vars
      BY <3>2 DEF Requests, ApplyBegin, ScanRequest, RebootRequest, ConnectionsEnd, Callers,
                  webserver_start, webserver_stop, IsUpdated, vars
    <3>3. ASSUME NEW q \in Resetters,
                 ResetClear(q) \/ ResetFill(q) \/ ResetPut(q) \/ ResetCommit(q)
          PROVE  FALSE
      <4>1. PICK to \in {"fill", "put", "commit", "delay"} : reset' = [reset EXCEPT ![q] = to]
        BY <3>3 DEF ResetClear, ResetFill, ResetPut, ResetCommit, ResetStep
      <4> QED
        BY <4>1, <2>t
    <3> QED
      BY <3>1, <3>2, <3>3
      DEF Next, Handler, FactoryReset, RebootRestart, ResetRestart, PowerCycle
  <2>2. flash.cfg = setdefault(cal) /\ flash.cal = cal
    BY DEF ResetInv, FactoryComes
  <2>3. cfg' = setdefault(cal) /\ cal' = cal
    <3>1. cfg' = config_load(flash).cfg /\ cal' = config_load(flash).cal
      BY <2>1 DEF Boot, Load
    <3> QED
      BY <3>1, <2>2 DEF config_load
  <2> QED
    BY <2>3, <2>t DEF setdefault
<1> QED
  BY <1>1, InitType, NextType, InitReset, NextReset, PTL
  DEF Spec, UndisturbedResetRestoresFactory

-----------------------------------------------------------------------------
(* What becomes the factory calibration.                                   *)

OVERWRITE == "OVERWRITE_CALIBRATION"

\* No form asked that was not submitted.
AskedBound == asked <= forms

\* Only a calibration form asks.
AskerIsCal == http.at \in {"fields", "signal"} /\ http.owrite => http.sec = "cal"

\* A form no reset meets has cfg's section for itself.
FormIsAlone ==
  ~disturbed =>
    /\ http.at = "fields" => cfg[http.sec] = Part(forms) /\ ~Resetting
    /\ http.at = "signal" => cfg[http.sec] = Whole(forms) /\ ~Resetting

\* webserver_task serves the flag it has seen.
OverwriteIsSeen == web = "overwrite" => OVERWRITE \in ctrlflags

\* While the flag is up or seen, cfg has what the form asked for or what a later
\* one wrote.
AskedIsInUse ==
  (OVERWRITE \in eventGroup \/ (web # "wait" /\ OVERWRITE \in ctrlflags))
    /\ ~disturbed /\ ~Resetting
  => cfg["cal"] = Whole(asked) \/ cfg["cal"].form > asked

OverwriteInv == AskedBound /\ AskerIsCal /\ FormIsAlone /\ OverwriteIsSeen /\ AskedIsInUse

LEMMA InitOverwrite == Init => OverwriteInv
BY DEF Init, NoRequest, OverwriteInv, AskedBound, AskerIsCal, FormIsAlone, OverwriteIsSeen,
       AskedIsInUse, OVERWRITE

LEMMA BootOverwrite == OverwriteInv /\ Boot => OverwriteInv'
BY DEF Boot, Volatile, NoRequest, OverwriteInv, AskedBound, AskerIsCal, FormIsAlone,
       OverwriteIsSeen, AskedIsInUse, OVERWRITE

\* The next point is "overwrite" only if the snapshot shows the flag.
LEMMA OverwritePoint ==
  ASSUME NEW f,
         NEW w \in {FromStart(f), FromStop(f), FromScan(f), FromSave(f), FromOverwrite(f)}
  PROVE  w = "overwrite" => OVERWRITE \in f
BY DEF FromStart, FromStop, FromScan, FromSave, FromOverwrite, OVERWRITE

\* Every step keeps it.
LEMMA NextOverwrite == TypeOK /\ OverwriteInv /\ [Next]_vars => OverwriteInv'
<1> SUFFICES ASSUME TypeOK, OverwriteInv, [Next]_vars PROVE OverwriteInv'
  OBVIOUS
<1>t. /\ forms \in Nat /\ asked \in Nat /\ "cal" \in Sections /\ http.sec \in Sections
      /\ cfg \in [Sections -> Content] /\ \A s \in Sections : cfg[s].form \in Nat
      /\ http \in [at : HttpPoints, sec : Sections, owrite : BOOLEAN]
      /\ reset \in [Resetters -> ResetPoints]
      /\ \A n : Part(n).form = n /\ Whole(n).form = n /\ Part(n) # Whole(n)
  BY DEF TypeOK, StoreTypeOK, Content, Sections, Part, Whole
<1> USE <1>t
    DEF OverwriteInv, AskedBound, AskerIsCal, FormIsAlone, OverwriteIsSeen, AskedIsInUse,
        OVERWRITE, Resetting, taskVars, storeVars, historyVars
<1>1. CASE WebTask
  <2>1. UNCHANGED <<cfg, http, reset, forms, asked, disturbed>>
    BY <1>1 DEF WebTask, WaitForFlags, HandleStart, HandleStop, HandleScan, HandleScanDone,
                HandleSavePut, HandleSaveCommit, HandleSaveClear, HandleOverwritePut,
                HandleOverwriteCommit, HandleOverwriteClear, webUnchanged, PutCfg, Commit,
                OverwriteCal
  <2>2. CASE WaitForFlags
    BY <2>1, <2>2, OverwritePoint DEF WaitForFlags
  <2>3. CASE ~WaitForFlags
    <3>1. eventGroup' \subseteq eventGroup /\ ctrlflags' = ctrlflags /\ web # "wait"
      BY <1>1, <2>3 DEF WebTask, HandleStart, HandleStop, HandleScan, HandleScanDone,
                  HandleSavePut, HandleSaveCommit, HandleSaveClear, HandleOverwritePut,
                  HandleOverwriteCommit, HandleOverwriteClear
    <3>2. web' = "overwrite" => OVERWRITE \in ctrlflags
      BY <1>1, <2>3, OverwritePoint
      DEF WebTask, HandleStart, HandleStop, HandleScan, HandleScanDone,
          HandleSavePut, HandleSaveCommit, HandleSaveClear, HandleOverwritePut,
          HandleOverwriteCommit, HandleOverwriteClear
    <3> QED
      BY <2>1, <3>1, <3>2
  <2> QED
    BY <2>2, <2>3
<1>2. CASE Boot
  BY <1>2, BootOverwrite
<1>3. ASSUME NEW s \in Edited, NEW owrite \in BOOLEAN, ApplyBegin(s, owrite)
      PROVE  OverwriteInv'
  <2>1. /\ s \in Sections /\ forms' = forms + 1
        /\ http'.at = "fields" /\ http'.sec = s /\ http'.owrite = owrite
        /\ UNCHANGED <<taskVars, reset, asked>>
        /\ disturbed' = (disturbed \/ Resetting)
    BY <1>3, EditedAssumption DEF ApplyBegin
  <2>2. \A q \in Sections : cfg'[q] = IF q = s THEN Part(forms + 1) ELSE cfg[q]
    BY <1>3 DEF ApplyBegin
  <2>3. cfg'["cal"] = cfg["cal"] \/ cfg'["cal"].form > asked
    BY <2>2
  <2>4. cfg'[http'.sec] = Part(forms')
    BY <2>1, <2>2
  <2>5. owrite => s = "cal"
    BY <1>3 DEF ApplyBegin
  <2>6. AskedBound' /\ AskerIsCal' /\ OverwriteIsSeen'
    BY <2>1, <2>5
  <2>7. ~disturbed' => ~disturbed /\ ~Resetting /\ ~Resetting'
    BY <2>1
  <2>8. FormIsAlone'
    BY <2>1, <2>4, <2>7
  <2>9. AskedIsInUse'
    <3> HIDE DEF Resetting
    <3> QED
      BY <2>1, <2>3, <2>7
  <2> QED
    BY <2>6, <2>8, <2>9
<1>4. CASE ApplyError
  BY <1>4 DEF ApplyError, NoRequest
<1>5. CASE ApplyFill
  <2>1. /\ http.at = "fields" /\ http'.at = "signal" /\ http'.sec = http.sec
        /\ http'.owrite = http.owrite
        /\ UNCHANGED <<taskVars, reset, forms, asked>>
        /\ disturbed' = (disturbed \/ Resetting)
    BY <1>5 DEF ApplyFill
  <2>2. ~disturbed' =>
          \A q \in Sections : cfg'[q] = IF q = http.sec THEN Whole(forms) ELSE cfg[q]
    BY <2>1, <1>5 DEF ApplyFill
  <2>3. ~disturbed' => ~disturbed /\ ~Resetting /\ ~Resetting'
    BY <2>1
  <2>4. AskedBound' /\ AskerIsCal' /\ OverwriteIsSeen'
    BY <2>1
  <2>5. FormIsAlone'
    BY <2>1, <2>2, <2>3
  <2>6. ASSUME ~disturbed', http.sec = "cal"
        PROVE  cfg["cal"] = Whole(asked) \/ cfg["cal"].form > asked => forms > asked
    <3>1. cfg["cal"] = Part(forms)
      BY <2>1, <2>3, <2>6
    <3>2. cfg["cal"] # Whole(asked) /\ cfg["cal"].form = forms
      BY <3>1 DEF Part, Whole
    <3> QED
      BY <3>2
  <2>7. AskedIsInUse'
    <3> HIDE DEF Resetting
    <3> SUFFICES ASSUME OVERWRITE \in eventGroup \/ (web # "wait" /\ OVERWRITE \in ctrlflags),
                        ~disturbed'
                 PROVE  cfg'["cal"] = Whole(asked) \/ cfg'["cal"].form > asked
      BY <2>1
    <3>1. cfg["cal"] = Whole(asked) \/ cfg["cal"].form > asked
      BY <2>3
    <3>2. CASE http.sec = "cal"
      <4>1. cfg'["cal"].form = forms /\ forms > asked
        BY <2>2, <2>6, <3>1, <3>2
      <4> QED
        BY <4>1
    <3>3. CASE http.sec # "cal"
      BY <2>2, <3>1, <3>3
    <3> QED
      BY <3>2, <3>3
  <2> QED
    BY <2>4, <2>5, <2>7
<1>6. CASE ApplySignal
  <2>1. /\ http.at = "signal" /\ http'.at = "idle" /\ UNCHANGED <<cfg, web, ctrlflags, reset, forms>>
        /\ disturbed' = (disturbed \/ Resetting)
        /\ asked' = IF http.owrite THEN forms ELSE asked
        /\ eventGroup' = eventGroup \cup FormFlags(http.sec, http.owrite)
    BY <1>6 DEF ApplySignal, NoRequest
  <2>2. ~http.owrite /\ OVERWRITE \in eventGroup' => OVERWRITE \in eventGroup
    BY <2>1 DEF FormFlags
  <2>3. ~disturbed' => ~disturbed /\ ~Resetting /\ ~Resetting'
    BY <2>1
  <2>4. ~disturbed' /\ http.owrite => cfg["cal"] = Whole(forms)
    BY <2>1, <2>3
  <2>5. AskedBound' /\ AskerIsCal' /\ OverwriteIsSeen' /\ FormIsAlone'
    BY <2>1
  <2>6. AskedIsInUse'
    <3> HIDE DEF Resetting
    <3>1. CASE http.owrite
      BY <2>1, <2>4, <3>1
    <3>2. CASE ~http.owrite
      BY <2>1, <2>2, <2>3, <3>2
    <3> QED
      BY <3>1, <3>2
  <2> QED
    BY <2>5, <2>6
<1>7. CASE ScanRequest \/ RebootRequest \/ ConnectionsEnd \/ Callers
  <2>1. /\ UNCHANGED <<cfg, web, ctrlflags, reset, forms, asked, disturbed>>
        /\ OVERWRITE \in eventGroup' => OVERWRITE \in eventGroup
    BY <1>7 DEF ScanRequest, RebootRequest, ConnectionsEnd, Callers, webserver_start,
              webserver_stop, IsUpdated
  <2>2. http' = http \/ http'.at = "reboot"
    BY <1>7 DEF ScanRequest, RebootRequest, ConnectionsEnd, Callers, webserver_start,
              webserver_stop, IsUpdated,
                NoRequest
  <2> QED
    BY <2>1, <2>2
<1>8. ASSUME NEW r \in Resetters, ResetClear(r) PROVE OverwriteInv'
  <2>1. /\ reset'[r] = "fill" /\ UNCHANGED <<web, ctrlflags, eventGroup, forms, asked>>
        /\ disturbed' = (disturbed \/ Resetting \/ http.at \in {"fields", "signal"})
    BY <1>8 DEF ResetClear
  <2>2. http' = http \/ http'.at = "reset"
    BY <1>8 DEF ResetClear, NoRequest
  <2> QED
    BY <2>1, <2>2
<1>9. ASSUME NEW r \in Resetters,
             ResetFill(r) \/ ResetPut(r) \/ ResetCommit(r)
      PROVE  OverwriteInv'
  <2>1. /\ reset[r] # "idle" /\ reset'[r] # "idle"
        /\ UNCHANGED <<taskVars, http, historyVars>>
    BY <1>9 DEF ResetFill, ResetPut, ResetCommit, ResetStep
  <2> QED
    BY <2>1
<1>10. CASE UNCHANGED vars
  BY <1>10 DEF vars
<1> QED
  BY <1>1, <1>2, <1>3, <1>4, <1>5, <1>6, <1>7, <1>8, <1>9, <1>10
  DEF Next, Handler, Requests, FactoryReset, RebootRestart, ResetRestart, PowerCycle

\* What webserver_task makes the factory calibration is the form that asked for
\* it, as a whole, unless a later calibration form has written to cfg or a
\* factory reset is under way.
THEOREM OverwriteStaysAsAsked == Spec => OverwritesAsAsked
<1> DEFINE Asked ==
      web = "overwrite" /\ web' = "commitcal" =>
        \/ cal' = Whole(asked)
        \/ cfg["cal"].form > asked
        \/ disturbed \/ Resetting
<1>1. OverwriteInv /\ [Next]_vars => [Asked]_vars
  <2> SUFFICES ASSUME OverwriteInv, [Next]_vars, web = "overwrite", web' = "commitcal"
               PROVE  \/ cal' = Whole(asked)
                      \/ cfg["cal"].form > asked
                      \/ disturbed \/ Resetting
    OBVIOUS
  <2>1. cal' = cfg["cal"]
    <3>1. CASE WebTask
      BY <3>1 DEF WebTask, WaitForFlags, HandleStart, HandleStop, HandleScan, HandleScanDone,
                  HandleSavePut, HandleSaveCommit, HandleSaveClear, HandleOverwritePut,
                  HandleOverwriteCommit, HandleOverwriteClear, OverwriteCal
    <3>2. CASE Boot
      BY <3>2 DEF Boot, Volatile
    <3>3. CASE Callers \/ Requests \/ ApplyError \/ ApplyFill \/ ApplySignal \/ UNCHANGED vars
      BY <3>3 DEF Callers, webserver_start, webserver_stop, IsUpdated, Requests, ApplyBegin,
                  ScanRequest, RebootRequest, ConnectionsEnd, ApplyError, ApplyFill, ApplySignal, vars, taskVars
    <3>4. ASSUME NEW r \in Resetters,
                 ResetClear(r) \/ ResetFill(r) \/ ResetPut(r) \/ ResetCommit(r)
          PROVE  FALSE
      BY <3>4 DEF ResetClear, ResetFill, ResetPut, ResetCommit, ResetStep, taskVars
    <3> QED
      BY <3>1, <3>2, <3>3, <3>4
      DEF Next, Handler, FactoryReset, RebootRestart, ResetRestart, PowerCycle
  <2> QED
    BY <2>1 DEF OverwriteInv, OverwriteIsSeen, AskedIsInUse
<1> QED
  BY <1>1, InitType, NextType, InitOverwrite, NextOverwrite, PTL DEF Spec, OverwritesAsAsked

-----------------------------------------------------------------------------
(* WebServer implements DurableSettings: whatever the number of forms, the *)
(* pages that are submitted and the callers of factoryreset, the three     *)
(* tasks keep the promise made to the user of the pages.                   *)
(*                                                                         *)
(* The invariant above says that what was confirmed is in cfg and follows  *)
(* into flash.  The refinement also needs that nothing goes backwards.     *)

\* The three copies of the settings are never out of order: cfg is the newest
\* and flash the oldest, as long as no factory reset writes old contents.
Ordered ==
  ~disturbed /\ ~Resetting =>
    \A s \in Sections :
      flash.cfg[s].form <= rom.cfg[s].form /\ rom.cfg[s].form <= cfg[s].form

\* After the first boot both images are of this version.
Versions == rom.ver = CFG_VER /\ flash.ver = CFG_VER

\* The form being handled was not confirmed before.
FormIsNew ==
  http.at \in {"fields", "signal"} => \A s \in Sections : confirmed[s] < forms

RInv == Ordered /\ Versions /\ FormIsNew

-----------------------------------------------------------------------------

LEMMA InitRInv == Init => RInv
<1> SUFFICES ASSUME Init PROVE RInv
  OBVIOUS
<1>1. IInv
  BY InitIInv
<1>2. \A s \in Sections : /\ flash.cfg[s].form \in Nat
                          /\ rom.cfg[s] = flash.cfg[s] /\ cfg[s] = flash.cfg[s]
  BY <1>1 DEF Init, IInv, TypeOK, StoreTypeOK, Image, Content
<1>3. flash.ver = CFG_VER
  BY DEF Init, config_load
<1> QED
  BY <1>2, <1>3 DEF Init, RInv, Ordered, Versions, FormIsNew, NoRequest

\* A restart finds an image of this version, and loads it everywhere.
LEMMA BootRInv == IInv /\ RInv /\ Boot => RInv' /\ flash' = flash
<1> SUFFICES ASSUME IInv, RInv, Boot PROVE RInv' /\ flash' = flash
  OBVIOUS
<1>1. flash' = flash
  BY DEF RInv, Versions, Boot, Load, config_load
<1>2. rom' = flash' /\ cfg' = flash'.cfg /\ http'.at = "idle"
  BY DEF Boot, Load, Volatile, NoRequest
<1>3. \A s \in Sections : flash.cfg[s].form \in Nat
  BY DEF IInv, TypeOK, StoreTypeOK, Image, Content
<1> QED
  BY <1>1, <1>2, <1>3 DEF RInv, Ordered, Versions, FormIsNew

\* Every step keeps the order of the copies, their version, and the newness of
\* the form being handled.
LEMMA NextRInv == IInv /\ RInv /\ [Next]_vars => RInv'
<1> SUFFICES ASSUME IInv, RInv, [Next]_vars PROVE RInv'
  OBVIOUS
<1>t. /\ forms \in Nat
      /\ cfg \in [Sections -> Content] /\ rom \in Image /\ flash \in Image
      /\ http.sec \in Sections
      /\ reset \in [Resetters -> ResetPoints]
      /\ \A s \in Sections : /\ confirmed[s] \in Nat /\ confirmed[s] <= forms
                             /\ cfg[s].form \in Nat /\ cfg[s].form <= forms
                             /\ rom.cfg[s].form \in Nat /\ flash.cfg[s].form \in Nat
  BY DEF IInv, TypeOK, StoreTypeOK, Image, Content, FormsBound
<1> USE <1>t DEF RInv, Ordered, Versions, FormIsNew, Resetting,
                 storeVars, taskVars, historyVars
<1>1. CASE WebTask
  <2> USE DEF webUnchanged
  <2>1. CASE HandleSavePut
    BY <2>1 DEF HandleSavePut, PutCfg, Image
  <2>2. CASE HandleSaveCommit \/ HandleOverwriteCommit
    BY <2>2 DEF HandleSaveCommit, HandleOverwriteCommit, Commit
  <2>3. CASE HandleOverwritePut
    BY <2>3 DEF HandleOverwritePut, OverwriteCal, Image
  <2>4. CASE WaitForFlags \/ HandleStart \/ HandleStop \/ HandleScan \/ HandleScanDone
    BY <2>4 DEF WaitForFlags, HandleStart, HandleStop, HandleScan, HandleScanDone
  <2>5. CASE HandleSaveClear \/ HandleOverwriteClear
    BY <2>5 DEF HandleSaveClear, HandleOverwriteClear
  <2> QED
    BY <1>1, <2>1, <2>2, <2>3, <2>4, <2>5 DEF WebTask
<1>2. CASE Handler
  <2>1. CASE ApplyError
    BY <2>1 DEF ApplyError, NoRequest
  <2>2. CASE ApplyFill
    <3>1. \A s \in Sections : cfg'[s].form = IF s = http.sec THEN forms ELSE cfg[s].form
      BY <2>2 DEF ApplyFill, Part, Whole
    <3>2. \A s \in Sections : cfg[s].form <= cfg'[s].form /\ cfg'[s].form \in Nat
      BY <3>1
    <3>3. UNCHANGED <<rom, flash, reset, forms, confirmed>>
      BY <2>2 DEF ApplyFill
    <3>4. disturbed' = (disturbed \/ Resetting) /\ http.at = "fields"
      BY <2>2 DEF ApplyFill
    <3>5. Ordered'
      <4> SUFFICES ASSUME ~disturbed', NEW p \in Sections
                   PROVE  /\ flash'.cfg[p].form <= rom'.cfg[p].form
                          /\ rom'.cfg[p].form <= cfg'[p].form
        BY DEF Ordered
      <4>1. flash.cfg[p].form <= rom.cfg[p].form /\ rom.cfg[p].form <= cfg[p].form
        BY <3>4
      <4> QED
        BY ONLY <1>t, <3>2, <3>3, <4>1
    <3> QED
      BY <3>3, <3>4, <3>5
  <2>3. CASE ApplySignal
    BY <2>3 DEF ApplySignal, NoRequest
  <2>4. CASE RebootRestart
    BY <2>4, BootRInv DEF RebootRestart
  <2> QED
    BY <1>2, <2>1, <2>2, <2>3, <2>4 DEF Handler
<1>3. CASE Requests
  <2>1. ASSUME NEW s \in Edited, NEW owrite \in BOOLEAN, ApplyBegin(s, owrite)
        PROVE  RInv'
    <3>1. \A q \in Sections : cfg'[q].form = IF q = s THEN forms + 1 ELSE cfg[q].form
      BY <2>1 DEF ApplyBegin, Part
    <3>2. \A q \in Sections : cfg[q].form <= cfg'[q].form /\ cfg'[q].form \in Nat
      BY <3>1
    <3>3. UNCHANGED <<rom, flash, reset, confirmed>> /\ forms' = forms + 1
      BY <2>1 DEF ApplyBegin
    <3>4. disturbed' = (disturbed \/ Resetting)
      BY <2>1 DEF ApplyBegin
    <3>5. Ordered'
      <4> SUFFICES ASSUME ~disturbed', NEW p \in Sections
                   PROVE  /\ flash'.cfg[p].form <= rom'.cfg[p].form
                          /\ rom'.cfg[p].form <= cfg'[p].form
        BY DEF Ordered
      <4>1. flash.cfg[p].form <= rom.cfg[p].form /\ rom.cfg[p].form <= cfg[p].form
        BY <3>4
      <4> QED
        BY ONLY <1>t, <3>2, <3>3, <4>1
    <3>6. FormIsNew'
      BY <3>3
    <3> QED
      BY <3>3, <3>5, <3>6
  <2>2. CASE ScanRequest
    BY <2>2 DEF ScanRequest
  <2>3. CASE RebootRequest
    BY <2>3 DEF RebootRequest, NoRequest
  <2>4. CASE ConnectionsEnd
    BY <2>4 DEF ConnectionsEnd
  <2> QED
    BY <1>3, <2>1, <2>2, <2>3, <2>4 DEF Requests
<1>4. ASSUME NEW r \in Resetters, FactoryReset(r) PROVE RInv'
  <2>1. CASE ResetClear(r)
    BY <2>1 DEF ResetClear, ClearCfg, NoRequest
  <2>2. CASE ResetFill(r)
    BY <2>2 DEF ResetFill, ResetStep, FillDefault
  <2>3. CASE ResetPut(r)
    BY <2>3 DEF ResetPut, ResetStep, PutCfg, Image
  <2>4. CASE ResetCommit(r)
    BY <2>4 DEF ResetCommit, ResetStep, Commit
  <2>5. CASE ResetRestart(r)
    BY <2>5, BootRInv DEF ResetRestart
  <2> QED
    BY <1>4, <2>1, <2>2, <2>3, <2>4, <2>5 DEF FactoryReset
<1>5. CASE Callers
  BY <1>5 DEF Callers, webserver_start, webserver_stop, IsUpdated
<1>6. CASE PowerCycle
  BY <1>6, BootRInv DEF PowerCycle
<1>7. CASE UNCHANGED vars
  BY <1>7 DEF vars
<1> QED
  BY <1>1, <1>2, <1>3, <1>4, <1>5, <1>6, <1>7 DEF Next

-----------------------------------------------------------------------------
(* The steps, one kind at a time.                                          *)

\* What is called settled is settled: ConfirmedIsSaved, in the words of the
\* abstract specification.
LEMMA SettledIsKept ==
  IInv /\ Phase = "settled" => \A s \in Sections : confirmed[s] <= Kept[s]
BY DEF IInv, FlashFollows, Phase, SavePending, Kept

LEMMA InitRefines == Init => Promise!Init
<1> SUFFICES ASSUME Init PROVE Promise!Init
  OBVIOUS
<1>1. \A s \in Sections : flash.cfg[s].form = 0
  <2>1. IInv /\ forms = 0
    BY InitIInv DEF Init
  <2> SUFFICES ASSUME NEW s \in Sections PROVE flash.cfg[s].form = 0
    OBVIOUS
  <2>2. flash.cfg[s].form \in Nat /\ flash.cfg[s].form <= 0
    BY <2>1 DEF IInv, FormsBound, TypeOK, StoreTypeOK, Image, Content
  <2> QED
    BY ONLY <2>2
<1>2. Kept = [s \in Sections |-> 0] /\ confirmed = [s \in Sections |-> 0]
  BY <1>1 DEF Kept, Init
<1>3. Phase = "settled"
  BY DEF Phase, SavePending, Resetting, Init
<1> QED
  BY <1>2, <1>3 DEF Promise!Init, Promise!Sections, Sections

\* A step that tells the pages nothing, ends no factory reset and leaves flash
\* alone, or commits the image.
Quiet ==
  /\ confirmed' = confirmed
  /\ disturbed => disturbed'
  /\ Resetting => Resetting'
  /\ \/ flash' = flash
     \/ flash' = rom /\ (disturbed' => disturbed) /\ (Resetting' => Resetting)

LEMMA QuietRefines == IInv /\ IInv' /\ RInv /\ Quiet => Promise!Next
<1> SUFFICES ASSUME IInv, IInv', RInv, Quiet PROVE Promise!Next
  OBVIOUS
<1>t. \A s \in Sections : flash.cfg[s].form \in Nat /\ rom.cfg[s].form \in Nat
  BY DEF IInv, TypeOK, StoreTypeOK, Image, Content
<1>p. Phase' \in {"settled", "due", "reset"}
  BY DEF Phase
<1>1. CASE Phase = "reset"
  <2>1. Phase' = "reset"
    BY <1>1 DEF Phase, Quiet
  <2> QED
    BY <1>1, <2>1 DEF Promise!Next, Promise!ResetGoesOn, Quiet
<1>2. CASE Phase # "reset" /\ Phase' = "reset"
  <2>1. flash' = flash
    BY <1>2 DEF Phase, Quiet
  <2> QED
    BY <1>2, <2>1 DEF Promise!Next, Promise!Reset, Quiet, Kept
<1>3. CASE Phase # "reset" /\ Phase' # "reset"
  <2>1. ~disturbed /\ ~Resetting
    BY <1>3 DEF Phase
  <2>2. \A s \in Sections : flash.cfg[s].form <= flash'.cfg[s].form
    BY <1>t, <2>1 DEF RInv, Ordered, Quiet
  <2>3. \A s \in Sections : Kept[s] <= Kept'[s]
    BY <2>2 DEF Kept
  <2>4. Phase' = "settled" => \A s \in Sections : confirmed'[s] <= Kept'[s]
    BY SettledIsKept DEF Kept, Phase, IInv, FlashFollows, SavePending
  <2> QED
    BY <1>3, <1>p, <2>3, <2>4
    DEF Promise!Next, Promise!Keep, Promise!Sections, Sections, Quiet
<1> QED
  BY <1>1, <1>2, <1>3

\* The answer "ok" tells the page.
LEMMA SignalRefines == IInv /\ RInv /\ ApplySignal => Promise!Next
<1> SUFFICES ASSUME IInv, RInv, ApplySignal PROVE Promise!Next
  OBVIOUS
<1>t. /\ confirmed \in [Sections -> Nat] /\ forms \in Nat
      /\ http.sec \in Sections /\ http.owrite \in BOOLEAN
  BY DEF IInv, TypeOK
<1>1. confirmed' = [confirmed EXCEPT ![http.sec] = forms]
  BY DEF ApplySignal
<1>2. confirmed[http.sec] < forms
  BY <1>t DEF ApplySignal, RInv, FormIsNew
<1>3. /\ confirmed' = [confirmed EXCEPT ![http.sec] = confirmed'[http.sec]]
      /\ confirmed'[http.sec] > confirmed[http.sec]
  BY <1>t, <1>1, <1>2
<1>4. Kept' = Kept
  BY DEF ApplySignal, Kept, storeVars
<1>5. "SAVE_CFG" \in eventGroup'
  BY <1>t, FormFlagsType DEF ApplySignal
<1>6. Phase' = IF Phase = "reset" THEN "reset" ELSE "due"
  <2>1. Resetting' <=> Resetting
    BY DEF ApplySignal, Resetting
  <2>2. disturbed' <=> disturbed \/ Resetting
    BY DEF ApplySignal
  <2>3. web = "saved" => overtaken'
    BY DEF ApplySignal
  <2>4. web' = web
    BY DEF ApplySignal
  <2>5. (overtaken \/ SavePending)'
    BY <1>5, <2>3, <2>4 DEF SavePending
  <2>6. CASE disturbed \/ Resetting
    BY <2>1, <2>2, <2>6 DEF Phase
  <2>7. CASE ~disturbed /\ ~Resetting
    BY <2>1, <2>2, <2>5, <2>7 DEF Phase
  <2> QED
    BY <2>6, <2>7
<1> QED
  BY <1>t, <1>3, <1>4, <1>6
  DEF Promise!Next, Promise!Tell, Promise!Sections, Sections

\* A restart finds what was kept, and forgets the rest.
LEMMA BootRefines == IInv /\ RInv /\ Boot => Promise!Next
<1> SUFFICES ASSUME IInv, RInv, Boot PROVE Promise!Next
  OBVIOUS
<1>1. flash' = flash
  BY BootRInv
<1>2. Kept' = Kept /\ confirmed' = Kept
  BY <1>1 DEF Kept, Boot
<1>3. Phase' = "settled"
  BY DEF Phase, SavePending, Resetting, Boot, Volatile
<1> QED
  BY <1>2, <1>3 DEF Promise!Next, Promise!Restart

\* The tasks' other steps are quiet.
LEMMA WebTaskQuiet == WebTask => Quiet
<1> USE DEF Quiet, Resetting, webUnchanged, storeVars, taskVars
<1>1. CASE HandleSaveCommit \/ HandleOverwriteCommit
  BY <1>1 DEF HandleSaveCommit, HandleOverwriteCommit, Commit
<1>2. CASE HandleSavePut \/ HandleOverwritePut
  BY <1>2 DEF HandleSavePut, HandleOverwritePut, PutCfg, OverwriteCal
<1>3. CASE WaitForFlags \/ HandleStart \/ HandleStop \/ HandleScan \/ HandleScanDone
  BY <1>3 DEF WaitForFlags, HandleStart, HandleStop, HandleScan, HandleScanDone
<1>4. CASE HandleSaveClear \/ HandleOverwriteClear
  BY <1>4 DEF HandleSaveClear, HandleOverwriteClear
<1> QED
  BY <1>1, <1>2, <1>3, <1>4 DEF WebTask

LEMMA RequestQuiet ==
  ApplyError \/ ApplyFill \/ Requests \/ Callers => Quiet
<1> USE DEF Quiet, Resetting, storeVars, taskVars, historyVars
<1>1. CASE ApplyError \/ ApplyFill
  BY <1>1 DEF ApplyError, ApplyFill
<1>2. CASE Requests
  BY <1>2 DEF Requests, ApplyBegin, ScanRequest, RebootRequest, ConnectionsEnd
<1>3. CASE Callers
  BY <1>3 DEF Callers, webserver_start, webserver_stop, IsUpdated
<1> QED
  BY <1>1, <1>2, <1>3

\* A factory reset, up to its restart, happens inside the abstract one.
LEMMA ResetRefines ==
  ASSUME NEW r \in Resetters
  PROVE  IInv /\ IInv' /\ RInv /\ FactoryReset(r) => Promise!Next
<1> SUFFICES ASSUME IInv, IInv', RInv, FactoryReset(r) PROVE Promise!Next
  OBVIOUS
<1>t. reset \in [Resetters -> ResetPoints]
  BY DEF IInv, TypeOK
<1>1. CASE ResetClear(r)
  <2>1. reset'[r] = "fill"
    BY <1>t, <1>1 DEF ResetClear
  <2>2. Phase' = "reset"
    BY <2>1 DEF Phase, Resetting
  <2>3. Kept' = Kept /\ confirmed' = [s \in Sections |-> 0]
    BY <1>1 DEF ResetClear, ClearCfg, Kept
  <2> QED
    BY <2>2, <2>3 DEF Promise!Next, Promise!Reset, Promise!Sections, Sections
<1>2. CASE ResetFill(r) \/ ResetPut(r) \/ ResetCommit(r)
  <2>1. reset[r] # "idle" /\ reset'[r] # "idle"
    BY <1>t, <1>2 DEF ResetFill, ResetPut, ResetCommit, ResetStep
  <2>2. Phase = "reset" /\ Phase' = "reset"
    BY <2>1 DEF Phase, Resetting
  <2>3. confirmed' = confirmed
    BY <1>2 DEF ResetFill, ResetPut, ResetCommit, ResetStep, historyVars
  <2> QED
    BY <2>2, <2>3 DEF Promise!Next, Promise!ResetGoesOn
<1>3. CASE ResetRestart(r)
  BY <1>3, BootRefines DEF ResetRestart
<1> QED
  BY <1>1, <1>2, <1>3 DEF FactoryReset

LEMMA NextRefines ==
  IInv /\ IInv' /\ RInv /\ [Next]_vars => [Promise!Next]_(Promise!vars)
<1> SUFFICES ASSUME IInv, IInv', RInv, [Next]_vars
             PROVE  Promise!Next \/ UNCHANGED Promise!vars
  OBVIOUS
<1>1. CASE WebTask
  BY <1>1, WebTaskQuiet, QuietRefines
<1>2. CASE Handler
  BY <1>2, RequestQuiet, QuietRefines, SignalRefines, BootRefines DEF Handler, RebootRestart
<1>3. CASE Requests \/ Callers
  BY <1>3, RequestQuiet, QuietRefines
<1>4. CASE \E r \in Resetters : FactoryReset(r)
  BY <1>4, ResetRefines
<1>5. CASE PowerCycle
  BY <1>5, BootRefines DEF PowerCycle
<1>6. CASE UNCHANGED vars
  BY <1>6
  DEF vars, storeVars, taskVars, historyVars, Promise!vars, Kept, Phase, Resetting, SavePending
<1> QED
  BY <1>1, <1>2, <1>3, <1>4, <1>5, <1>6 DEF Next

\* WebServer implements DurableSettings: flash only moves towards what the
\* pages were told, what is told and not yet kept is known to be due, and a
\* restart finds what was kept.
THEOREM PromiseKept == Spec => PromiseIsKept
<1>1. Init => IInv /\ RInv /\ Promise!Init
  BY InitIInv, InitRInv, InitRefines
<1>2. IInv /\ RInv /\ [Next]_vars => IInv' /\ RInv'
  BY NextIInv, NextRInv
<1>3. IInv /\ IInv' /\ RInv /\ [Next]_vars => [Promise!Next]_(Promise!vars)
  BY NextRefines
<1> QED
  BY <1>1, <1>2, <1>3, PTL DEF Spec, PromiseIsKept, Promise!Spec

=============================================================================
