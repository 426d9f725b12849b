---------------------------- MODULE ConfigStore ----------------------------
(***************************************************************************)
(* The configuration store of firmware/src/config-mng.cpp.                 *)
(*                                                                         *)
(* The settings live in three places: the global struct cfg (with the      *)
(* factory calibration cal beside it), the byte image the EEPROM library   *)
(* keeps in RAM and that EEPROM.put writes, and the flash blob that        *)
(* EEPROM.commit replaces as a whole.  Only the blob survives a restart.   *)
(***************************************************************************)
EXTENDS Settings

CFG_VER == 1

\* What one EEPROM image holds: the record at cfgaddr, the version word that
\* follows it and the calibration at caladdr.  An erased chip has version 0.
Image == [ver : {0, CFG_VER}, cfg : [Sections -> Content], cal : Content]

VARIABLES
  cfg,    \* struct config cfg, by section
  cal,    \* struct acq_cal cal, the factory calibration
  rom,    \* the EEPROM library's image in RAM
  flash   \* the committed blob

storeVars == <<cfg, cal, rom, flash>>

StoreTypeOK ==
  /\ cfg \in [Sections -> Content]
  /\ cal \in Content
  /\ rom \in Image
  /\ flash \in Image

-----------------------------------------------------------------------------

\* The settings setdefault leaves: everything as shipped, but the calibration
\* is the factory calibration c.
setdefault(c) == [s \in Sections |-> IF s = "cal" THEN c ELSE Whole(0)]

\* Mutant of config_load: the version is not looked at.
config_loadDefaults(f) == [ver |-> CFG_VER, cfg |-> setdefault(f.cal), cal |-> f.cal]

\* What config_load makes of the blob f: an image of another version is
\* replaced by the defaults, keeping what was read at caladdr.
config_load(f) ==
  IF f.ver = CFG_VER THEN f
  ELSE [ver |-> CFG_VER, cfg |-> setdefault(f.cal), cal |-> f.cal]

\* config_load in setup(): no other task exists yet, and the commit that ends
\* it is unconditional.
Load ==
  /\ flash' = config_load(flash)
  /\ rom' = flash'
  /\ cfg' = flash'.cfg
  /\ cal' = flash'.cal

-----------------------------------------------------------------------------

\* EEPROM.put(cfgaddr, cfg), in config_savecfg and in config_setdefault.
PutCfg ==
  /\ rom' = [rom EXCEPT !.cfg = cfg]
  /\ UNCHANGED <<cfg, cal, flash>>

\* EEPROM.commit().
Commit ==
  /\ flash' = rom
  /\ UNCHANGED <<cfg, cal, rom>>

\* Mutant of OverwriteCal: the calibration last saved, not the one in use.
OverwriteSavedCal ==
  /\ cal' = rom.cfg["cal"]
  /\ rom' = [rom EXCEPT !.cal = rom.cfg["cal"]]
  /\ UNCHANGED <<cfg, flash>>

\* config_overwritedefaultcal up to its commit: cal = cfg.cal and the put at
\* caladdr.
OverwriteCal ==
  /\ cal' = cfg["cal"]
  /\ rom' = [rom EXCEPT !.cal = cfg["cal"]]
  /\ UNCHANGED <<cfg, flash>>

\* The memset that opens setdefault: for a while no section is valid.
ClearCfg ==
  /\ cfg' = [s \in Sections |-> Part(0)]
  /\ UNCHANGED <<cal, rom, flash>>

\* The rest of setdefault.
FillDefault ==
  /\ cfg' = setdefault(cal)
  /\ UNCHANGED <<cal, rom, flash>>

=============================================================================
