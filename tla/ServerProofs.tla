----------------------------- MODULE ServerProofs -----------------------------
(***************************************************************************)
(* The server process: boot, settings, keys and backups first, then the    *)
(* research on top of them.                                                *)
(*                                                                         *)
(* Why a rotation is complete after one start, a cached setting is never   *)
(* stale, pruning is never early and the panel's status can be believed:   *)
(* a start has nothing cached when it rewraps, so it never takes the       *)
(* shortcut of an unchanged fingerprint; a day with one run has one writer *)
(* of its files from the first byte to the status row.                     *)
(*                                                                         *)
(* Why the daily quota holds although it is read before a stream that      *)
(* takes seconds and the call is counted after it: a stream starts below   *)
(* its cap, and while it runs no other call of its member and bucket does, *)
(* so only the stream itself can raise the count.                          *)
(***************************************************************************)
EXTENDS Research, FiniteSetTheorems, TLAPS

serverVars == <<upkeepVars, researchVars>>

LEMMA SmallSets ==
  ASSUME NEW S
  PROVE  /\ {} \in AtMostOne(S)
         /\ \A x \in S : {x} \in AtMostOne(S)
         /\ \A s \in AtMostOne(S) : s \subseteq S
  BY FS_EmptySet, FS_Singleton DEF AtMostOne

-----------------------------------------------------------------------------
(* Types. *)

UpTyped == up \in {"down", "rewrap", "prewarm", "up"}
SettingsTyped ==
  row \in [Key -> Text] /\ cache \in [Key -> AtMostOne(Text)] /\ popping \subseteq Key
KeysTyped ==
  /\ ring \in [first: AtMostOne(EncKey), rest: SUBSET EncKey]
  /\ cred \in [Provider -> [key: AtMostOne(EncKey), on: BOOLEAN]]
  /\ fp \in AtMostOne(EncKey) /\ cachedFp \in AtMostOne(AtMostOne(EncKey))
Running == [pc: {"idle", "dump", "tar", "prune", "status"}, day: Day, ok: BOOLEAN]
BackupsTyped ==
  /\ day \in Day
  /\ file \in [Kind \X Day -> {"none", "partial", "whole"}]
  /\ run \in [Run -> Running]
  /\ status \in AtMostOne([day: Day, ok: BOOLEAN])
  /\ runs \in [Day -> 0..2]

LEMMA UpkeepTypesSplit ==
  UpkeepTypeOK <=> UpTyped /\ SettingsTyped /\ KeysTyped /\ BackupsTyped
  BY DEF UpkeepTypeOK, UpTyped, SettingsTyped, KeysTyped, BackupsTyped, Running

LEMMA UpkeepTypesInit == UpkeepInit => UpkeepTypeOK
<1>. SUFFICES ASSUME UpkeepInit PROVE UpkeepTypeOK OBVIOUS
<1>. USE SmallSets, DaysAreNumbers, FaultsAreTexts DEF UpkeepInit
<1>1. UpTyped BY DEF UpTyped
<1>2. SettingsTyped BY DEF SettingsTyped
<1>3. KeysTyped BY DEF KeysTyped
<1>4. BackupsTyped BY DEF BackupsTyped, Running, NoRuns, NoRun, Day, Kind
<1>. QED BY <1>1, <1>2, <1>3, <1>4, UpkeepTypesSplit

\* Which actions leave which variables alone.
LEMMA Frames ==
  /\ BackupNext => UNCHANGED <<up, settingVars, keyVars>>
  /\ SettingsNext => UNCHANGED <<up, keyVars, backupVars>>
  /\ KeysNext => UNCHANGED <<up, settingVars, backupVars>>
  /\ (startup_check \/ rewrap_if_needed \/ prewarm_cache) => UNCHANGED backupVars
<1>1. BackupNext => UNCHANGED <<up, settingVars, keyVars>>
  BY DEF BackupNext, NextDay, run_backup, _run_pg_dump, _tar_photos, prune_old_backups,
     write_backup_status
<1>2. SettingsNext => UNCHANGED <<up, keyVars, backupVars>>
  BY DEF SettingsNext, PopEntry, save_setting, set_setting
<1>3. KeysNext => UNCHANGED <<up, settingVars, backupVars>>
  BY DEF KeysNext, Reconfigure, set_provider_credential, set_provider_enabled
<1>4. (startup_check \/ rewrap_if_needed \/ prewarm_cache) => UNCHANGED backupVars
  BY DEF startup_check, rewrap_if_needed, prewarm_cache
<1>. QED BY <1>1, <1>2, <1>3, <1>4

LEMMA UpTypedNext == UpTyped /\ [UpkeepNext]_upkeepVars => UpTyped'
<1>. SUFFICES ASSUME UpTyped, [UpkeepNext]_upkeepVars PROVE UpTyped' OBVIOUS
<1>1. CASE BootNext
  BY <1>1 DEF UpTyped, BootNext, startup_check, rewrap_if_needed, prewarm_cache, Stop
<1>2. CASE UNCHANGED up BY <1>2 DEF UpTyped
<1>. QED BY <1>1, <1>2, Frames DEF UpkeepNext, upkeepVars

LEMMA SettingsTypedNext == SettingsTyped /\ [UpkeepNext]_upkeepVars => SettingsTyped'
<1>. SUFFICES ASSUME SettingsTyped, [UpkeepNext]_upkeepVars PROVE SettingsTyped' OBVIOUS
<1>. USE SmallSets DEF SettingsTyped
<1>1. CASE UNCHANGED settingVars BY <1>1 DEF settingVars
<1>2. CASE prewarm_cache BY <1>2 DEF prewarm_cache
<1>3. CASE Stop BY <1>3 DEF Stop
<1>4. CASE SettingsNext
  <2>1. CASE PopEntry BY <2>1 DEF PopEntry
  <2>2. ASSUME NEW k \in Key, NEW t \in Text, set_setting(k, t) PROVE SettingsTyped'
    BY <2>2 DEF set_setting
  <2>. QED BY <1>4, <2>1, <2>2 DEF SettingsNext, save_setting
<1>5. (startup_check \/ rewrap_if_needed) => UNCHANGED settingVars
  BY DEF startup_check, rewrap_if_needed
<1>. QED BY <1>1, <1>2, <1>3, <1>4, <1>5, Frames DEF UpkeepNext, BootNext, upkeepVars

LEMMA KeysTypedNext == KeysTyped /\ [UpkeepNext]_upkeepVars => KeysTyped'
<1>. SUFFICES ASSUME KeysTyped, [UpkeepNext]_upkeepVars PROVE KeysTyped' OBVIOUS
<1>. USE DEF KeysTyped
<1>1. CASE UNCHANGED keyVars BY <1>1 DEF keyVars
<1>2. CASE rewrap_if_needed
  <2>1. CASE UNCHANGED keyVars BY <1>1, <2>1
  <2>2. CASE /\ cred' = [p \in Provider |-> Rewrapped(cred[p])]
             /\ fp' = ring.first /\ cachedFp' = {} /\ UNCHANGED ring
    <3>1. \A p \in Provider : Rewrapped(cred[p]) \in [key: AtMostOne(EncKey), on: BOOLEAN]
      BY DEF Rewrapped
    <3>. QED BY <2>2, <3>1, SmallSets
  <2>. QED BY <1>2, <2>1, <2>2 DEF rewrap_if_needed
<1>3. CASE prewarm_cache BY <1>3, SmallSets DEF prewarm_cache
<1>4. CASE Stop BY <1>4, SmallSets DEF Stop
<1>5. CASE KeysNext
  <2>1. CASE Reconfigure BY <2>1 DEF Reconfigure
  <2>2. ASSUME NEW p \in Provider, set_provider_credential(p) PROVE KeysTyped'
    BY <2>2, SmallSets DEF set_provider_credential
  <2>3. ASSUME NEW p \in Provider, NEW b \in BOOLEAN, set_provider_enabled(p, b)
        PROVE KeysTyped'
    BY <2>3 DEF set_provider_enabled
  <2>. QED BY <1>5, <2>1, <2>2, <2>3 DEF KeysNext
<1>6. startup_check => UNCHANGED keyVars BY DEF startup_check
<1>. QED BY <1>1, <1>2, <1>3, <1>4, <1>5, <1>6, Frames DEF UpkeepNext, BootNext, upkeepVars

LEMMA BackupsTypedNext == BackupsTyped /\ [UpkeepNext]_upkeepVars => BackupsTyped'
<1>. SUFFICES ASSUME BackupsTyped, [UpkeepNext]_upkeepVars PROVE BackupsTyped' OBVIOUS
<1>. USE DEF BackupsTyped
<1>1. CASE UNCHANGED backupVars BY <1>1 DEF backupVars
<1>2. CASE Stop BY <1>2, DaysAreNumbers DEF Stop, NoRuns, NoRun, Running, Day
<1>3. CASE NextDay BY <1>3, DaysAreNumbers DEF NextDay, Day
<1>4. ASSUME NEW r \in Run, run_backup(r) PROVE BackupsTyped'
  <2>. USE <1>4 DEF run_backup
  <2>1. file' \in [Kind \X Day -> {"none", "partial", "whole"}] BY DEF Kind
  <2>2. run' \in [Run -> Running] BY DEF Running
  <2>3. runs' \in [Day -> 0..2] OBVIOUS
  <2>. QED BY <2>1, <2>2, <2>3
<1>5. ASSUME NEW r \in Run, _run_pg_dump(r) PROVE BackupsTyped'
  <2>. USE <1>5 DEF _run_pg_dump
  <2>1. file' \in [Kind \X Day -> {"none", "partial", "whole"}] BY DEF Written
  <2>2. run' \in [Run -> Running] BY DEF Running
  <2>. QED BY <2>1, <2>2
<1>6. ASSUME NEW r \in Run, _tar_photos(r) PROVE BackupsTyped'
  <2>1. file' \in [Kind \X Day -> {"none", "partial", "whole"}] BY <1>6 DEF _tar_photos, Written
  <2>2. run' \in [Run -> Running]
    <3>1. \/ run' = [run EXCEPT ![r].pc = "prune"]
          \/ run' = [run EXCEPT ![r].pc = "prune", ![r].ok = FALSE]
      BY <1>6 DEF _tar_photos
    <3>2. CASE run' = [run EXCEPT ![r].pc = "prune"] BY <3>2 DEF Running
    <3>3. CASE run' = [run EXCEPT ![r].pc = "prune", ![r].ok = FALSE] BY <3>3 DEF Running
    <3>. QED BY <3>1, <3>2, <3>3
  <2>3. UNCHANGED <<day, status, runs>> BY <1>6 DEF _tar_photos
  <2>. QED BY <2>1, <2>2, <2>3
<1>7. ASSUME NEW r \in Run, prune_old_backups(r) PROVE BackupsTyped'
  <2>. USE <1>7 DEF prune_old_backups
  <2>1. file' \in [Kind \X Day -> {"none", "partial", "whole"}] OBVIOUS
  <2>2. run' \in [Run -> Running] BY DEF Running
  <2>. QED BY <2>1, <2>2
<1>8. ASSUME NEW r \in Run, write_backup_status(r) PROVE BackupsTyped'
  <2>. USE <1>8 DEF write_backup_status
  <2>1. run' \in [Run -> Running] BY DaysAreNumbers DEF NoRun, Running, Day
  <2>2. status' \in AtMostOne([day: Day, ok: BOOLEAN])
    <3>. DEFINE s == [day |-> run[r].day, ok |-> run[r].ok]
    <3>1. s \in [day: Day, ok: BOOLEAN] BY DEF Running
    <3>2. {s} \in AtMostOne([day: Day, ok: BOOLEAN]) BY <3>1, SmallSets
    <3>3. status' = status \/ status' = {s} OBVIOUS
    <3>. QED BY <3>2, <3>3
  <2>. QED BY <2>1, <2>2
<1>9. CASE BackupNext BY <1>3, <1>4, <1>5, <1>6, <1>7, <1>8, <1>9 DEF BackupNext
<1>. QED BY <1>1, <1>2, <1>9, Frames DEF UpkeepNext, BootNext, upkeepVars


\* Every reachable state of boot, settings, keys and backups is well typed.
THEOREM UpkeepTypes == UpkeepSpec => []UpkeepTypeOK
<1>1. UpkeepTypeOK /\ [UpkeepNext]_upkeepVars => UpkeepTypeOK'
  <2>. SUFFICES ASSUME UpkeepTypeOK, [UpkeepNext]_upkeepVars PROVE UpkeepTypeOK' OBVIOUS
  <2>1. UpTyped /\ SettingsTyped /\ KeysTyped /\ BackupsTyped BY UpkeepTypesSplit
  <2>2. UpTyped' /\ SettingsTyped' /\ KeysTyped' /\ BackupsTyped'
    BY <2>1, UpTypedNext, SettingsTypedNext, KeysTypedNext, BackupsTypedNext
  <2>. QED BY <2>2 DEF UpkeepTypeOK, UpTyped, SettingsTyped, KeysTyped, BackupsTyped, Running
<1>. QED BY <1>1, UpkeepTypesInit, PTL DEF UpkeepSpec

-----------------------------------------------------------------------------
(* Rotation. *)

\* Nothing is cached before the settings are read, and a process that started
\* has a primary key.
Booting == /\ up # "up" => cachedFp = {}
           /\ up # "down" => ring.first # {}

LEMMA RewrapCompletes ==
  ASSUME KeysTyped, Booting, rewrap_if_needed PROVE Booting' /\ RotationDone'
<1>. USE DEF rewrap_if_needed, KeysTyped
<1>1. StoredFingerprint = {} BY DEF Booting, StoredFingerprint
<1>2. CASE \A p \in Provider : cred[p].key = {}
  <2>1. UNCHANGED keyVars BY <1>1, <1>2
  <2>. QED BY <1>2, <2>1 DEF Booting, RotationDone, keyVars
<1>3. CASE \E p \in Provider : cred[p].key # {}
  <2>1. /\ cred' = [p \in Provider |-> Rewrapped(cred[p])]
        /\ fp' = ring.first /\ cachedFp' = {} /\ UNCHANGED ring
    BY <1>1, <1>3 DEF Booting
  <2>2. ASSUME NEW p \in Provider, cred'[p].key # {}, cred'[p].key \subseteq Ring'
        PROVE  cred'[p].key = ring'.first /\ fp' = ring'.first
    <3>1. Ring' = Ring BY <2>1 DEF Ring
    <3>2. cred'[p] = Rewrapped(cred[p]) BY <2>1
    <3>. QED BY <2>1, <2>2, <3>1, <3>2 DEF Rewrapped
  <2>. QED BY <2>1, <2>2 DEF Booting, RotationDone
<1>. QED BY <1>2, <1>3

LEMMA RotationNext ==
  ASSUME KeysTyped, Booting, RotationDone, [UpkeepNext]_upkeepVars
  PROVE  Booting' /\ RotationDone'
<1>. USE DEF Booting, RotationDone, Ring
<1>1. CASE UNCHANGED <<up, keyVars>> BY <1>1 DEF keyVars
<1>2. CASE startup_check BY <1>2 DEF startup_check, keyVars
<1>3. CASE rewrap_if_needed BY <1>3, RewrapCompletes
<1>4. CASE prewarm_cache BY <1>4 DEF prewarm_cache
<1>5. CASE Stop BY <1>5 DEF Stop
<1>6. CASE Reconfigure BY <1>6 DEF Reconfigure
<1>7. ASSUME NEW p \in Provider, set_provider_credential(p) PROVE Booting' /\ RotationDone'
  <2>1. \A q \in Provider : cred'[q].key = IF q = p THEN ring.first ELSE cred[q].key
    BY <1>7 DEF set_provider_credential, KeysTyped
  <2>. QED BY <1>7, <2>1 DEF set_provider_credential
<1>8. ASSUME NEW p \in Provider, NEW b \in BOOLEAN, set_provider_enabled(p, b)
      PROVE Booting' /\ RotationDone'
  <2>1. \A q \in Provider : cred'[q].key = cred[q].key
    BY <1>8 DEF set_provider_enabled, KeysTyped
  <2>. QED BY <1>8, <2>1 DEF set_provider_enabled
<1>. QED
  BY <1>1, <1>2, <1>3, <1>4, <1>5, <1>6, <1>7, <1>8, Frames
  DEF UpkeepNext, BootNext, KeysNext, upkeepVars

\* One start completes a rotation, whatever happened to the keys before.
\* (Code: credentials.rewrap_if_needed.)
THEOREM RotationCompletes == UpkeepSpec => []RotationDone
<1>1. UpkeepInit => Booting /\ RotationDone BY DEF UpkeepInit, Booting, RotationDone
<1>2. UpkeepTypeOK /\ Booting /\ RotationDone /\ [UpkeepNext]_upkeepVars
        => Booting' /\ RotationDone'
  BY RotationNext, UpkeepTypesSplit
<1>. QED BY <1>1, <1>2, UpkeepTypes, PTL DEF UpkeepSpec

-----------------------------------------------------------------------------
(* The settings cache. *)

LEMMA CacheNext ==
  ASSUME SettingsTyped, CacheNeverStale, [UpkeepNext]_upkeepVars PROVE CacheNeverStale'
<1>. USE DEF CacheNeverStale, SettingsTyped
<1>1. CASE UNCHANGED settingVars BY <1>1 DEF settingVars
<1>2. CASE prewarm_cache BY <1>2 DEF prewarm_cache
<1>3. CASE Stop BY <1>3 DEF Stop
<1>4. CASE PopEntry BY <1>4 DEF PopEntry
<1>5. ASSUME NEW k \in Key, NEW t \in Text, set_setting(k, t) PROVE CacheNeverStale'
  BY <1>5 DEF set_setting
<1>6. (startup_check \/ rewrap_if_needed) => UNCHANGED settingVars
  BY DEF startup_check, rewrap_if_needed
<1>. QED
  BY <1>1, <1>2, <1>3, <1>4, <1>5, <1>6, Frames
  DEF UpkeepNext, BootNext, SettingsNext, save_setting, upkeepVars

\* No reader gets a value that is no longer stored, between the commit of an
\* edit and its pop excepted. (Code: settings.set_setting, prewarm_cache.)
THEOREM ReadsAreCurrent == UpkeepSpec => []CacheNeverStale
<1>1. UpkeepInit => CacheNeverStale BY DEF UpkeepInit, CacheNeverStale
<1>2. UpkeepTypeOK /\ CacheNeverStale /\ [UpkeepNext]_upkeepVars => CacheNeverStale'
  BY CacheNext, UpkeepTypesSplit
<1>. QED BY <1>1, <1>2, UpkeepTypes, PTL DEF UpkeepSpec

-----------------------------------------------------------------------------
(* Pruning. *)

\* A run carries the day it began on.
RunsBegan == \A r \in Run : run[r].day <= day

LEMMA RunsBeganNext ==
  ASSUME BackupsTyped, RunsBegan, [UpkeepNext]_upkeepVars PROVE RunsBegan'
<1>. USE DEF RunsBegan, BackupsTyped, Running, Day
<1>1. CASE UNCHANGED backupVars BY <1>1 DEF backupVars
<1>2. CASE Stop BY <1>2 DEF Stop, NoRuns, NoRun
<1>3. CASE NextDay BY <1>3 DEF NextDay
<1>4. ASSUME NEW r \in Run, run_backup(r) PROVE RunsBegan' BY <1>4 DEF run_backup
<1>5. ASSUME NEW r \in Run, _run_pg_dump(r) PROVE RunsBegan' BY <1>5 DEF _run_pg_dump
<1>6. ASSUME NEW r \in Run, _tar_photos(r) PROVE RunsBegan' BY <1>6 DEF _tar_photos
<1>7. ASSUME NEW r \in Run, prune_old_backups(r) PROVE RunsBegan' BY <1>7 DEF prune_old_backups
<1>8. ASSUME NEW r \in Run, write_backup_status(r) PROVE RunsBegan'
  BY <1>8, DaysAreNumbers DEF write_backup_status, NoRun
<1>. QED
  BY <1>1, <1>2, <1>3, <1>4, <1>5, <1>6, <1>7, <1>8, Frames
  DEF UpkeepNext, BootNext, BackupNext, upkeepVars

LEMMA PruneStep ==
  ASSUME BackupsTyped, RunsBegan, UpkeepNext,
         NEW f \in Kind \X Day, file[f] # "none", file'[f] = "none"
  PROVE  day - f[2] > Retention
<1>. USE DEF BackupsTyped
<1>1. CASE UNCHANGED file BY <1>1
<1>2. ASSUME NEW r \in Run, run_backup(r) PROVE FALSE
  BY <1>2 DEF run_backup
<1>3. ASSUME NEW r \in Run, _run_pg_dump(r) PROVE FALSE
  BY <1>3 DEF _run_pg_dump, Written
<1>4. ASSUME NEW r \in Run, _tar_photos(r) PROVE FALSE
  BY <1>4 DEF _tar_photos, Written
<1>5. ASSUME NEW r \in Run, prune_old_backups(r) PROVE day - f[2] > Retention
  <2>1. f \in Outdated(run[r].day) BY <1>5 DEF prune_old_backups
  <2>2. f[2] < run[r].day - Retention /\ run[r].day <= day BY <2>1 DEF Outdated, RunsBegan
  <2>3. f[2] \in Nat /\ run[r].day \in Nat /\ day \in Nat BY DEF Running, Day
  <2>. QED BY <2>2, <2>3, DaysAreNumbers
<1>6. (Stop \/ NextDay \/ \E r \in Run : write_backup_status(r)) => UNCHANGED file
  BY DEF Stop, NextDay, write_backup_status
<1>. QED
  BY <1>1, <1>2, <1>3, <1>4, <1>5, <1>6, Frames
  DEF UpkeepNext, BootNext, BackupNext, backupVars

\* Pruning takes no file before its days are over. (Code:
\* backup.prune_old_backups.)
THEOREM PrunesOnlyOld == UpkeepSpec => PrunedOnlyOld
<1>1. UpkeepInit => RunsBegan
  BY DaysAreNumbers DEF UpkeepInit, RunsBegan, NoRuns, NoRun
<1>2. UpkeepTypeOK /\ RunsBegan /\ [UpkeepNext]_upkeepVars => RunsBegan'
  BY RunsBeganNext, UpkeepTypesSplit
<1>3. UpkeepTypeOK /\ RunsBegan /\ [UpkeepNext]_upkeepVars
        => [\A f \in Kind \X Day :
              (file[f] # "none" /\ file'[f] = "none") => day - f[2] > Retention]_upkeepVars
  BY PruneStep, UpkeepTypesSplit
<1>. QED BY <1>1, <1>2, <1>3, UpkeepTypes, PTL DEF UpkeepSpec, PrunedOnlyOld

-----------------------------------------------------------------------------
(* The status row. *)

Active(r, d) == run[r].pc # "idle" /\ run[r].day = d
Kept(d) == runs[d] = 1 /\ day - d <= Retention

\* A day's first run has its files for itself until a second one begins; its
\* status comes last.
SoleRun ==
  /\ \A d \in Day, r \in Run, q \in Run :
        runs[d] = 1 /\ Active(r, d) /\ Active(q, d) => r = q
  /\ \A d \in Day : runs[d] = 0 => /\ \A r \in Run : ~ Active(r, d)
                                   /\ \A s \in status : s.day # d
  /\ \A d \in Day, s \in status, r \in Run : runs[d] = 1 /\ s.day = d => ~ Active(r, d)

\* What a run that has not failed so far has written.
OkMeansWhole ==
  \A r \in Run : run[r].ok /\ Kept(run[r].day) =>
    /\ run[r].pc \in {"tar", "prune", "status"} => file[<<"db", run[r].day>>] = "whole"
    /\ run[r].pc \in {"prune", "status"} => file[<<"photos", run[r].day>>] = "whole"

BackupInv == SoleRun /\ OkMeansWhole /\ StatusTrue

LEMMA StatusDays == BackupsTyped => \A s \in status : s.day \in Day
  BY DEF BackupsTyped, AtMostOne

LEMMA BeginKeeps ==
  ASSUME BackupsTyped, BackupInv, NEW r \in Run, run_backup(r) PROVE BackupInv'
<1>. USE DEF BackupsTyped, BackupInv
<1>1. /\ run[r].pc = "idle" /\ UNCHANGED <<day, status>>
      /\ run' = [run EXCEPT ![r] = [pc |-> "dump", day |-> day, ok |-> TRUE]]
      /\ runs' = [runs EXCEPT ![day] = IF runs[day] < 2 THEN runs[day] + 1 ELSE 2]
      /\ file' \in {file, [file EXCEPT ![<<"db", day>>] = "partial"]}
  BY DEF run_backup
<1>2. \A q \in Run \ {r}, d \in Day : Active(q, d)' = Active(q, d) BY <1>1 DEF Active
<1>3. \A d \in Day : Active(r, d)' => d = day BY <1>1 DEF Active
<1>4. \A d \in Day \ {day} : runs'[d] = runs[d] BY <1>1
<1>5. runs'[day] # 0 /\ (runs'[day] = 1 => runs[day] = 0) BY <1>1
<1>6. \A k \in Kind, d \in Day \ {day} : file'[<<k, d>>] = file[<<k, d>>] BY <1>1 DEF Kind
<1>7. SoleRun' BY <1>1, <1>2, <1>3, <1>4, <1>5 DEF SoleRun
<1>8. OkMeansWhole'
  <2>. SUFFICES ASSUME NEW q \in Run, (run[q].ok /\ Kept(run[q].day))', run'[q].pc # "dump",
                       run'[q].pc # "idle"
                PROVE  /\ file'[<<"db", run'[q].day>>] = "whole" \/ run'[q].pc \notin {"tar", "prune", "status"}
                       /\ file'[<<"photos", run'[q].day>>] = "whole" \/ run'[q].pc \notin {"prune", "status"}
    BY DEF OkMeansWhole
  <2>1. q # r /\ run'[q] = run[q] /\ run[q].day \in Day BY <1>1 DEF Running
  <2>2. run[q].day # day BY <1>5, <2>1 DEF SoleRun, Active, Kept
  <2>3. Kept(run[q].day) BY <1>1, <1>4, <2>1, <2>2 DEF Kept
  <2>. QED BY <1>6, <2>1, <2>2, <2>3 DEF OkMeansWhole, Kind
<1>9. StatusTrue'
  <2>. SUFFICES ASSUME NEW s \in status, s.ok, runs'[s.day] = 1, day - s.day <= Retention,
                       NEW k \in Kind
                PROVE  file'[<<k, s.day>>] = "whole"
    BY <1>1 DEF StatusTrue
  <2>1. s.day \in Day BY StatusDays
  <2>2. s.day # day BY <1>5 DEF SoleRun
  <2>. QED BY <1>4, <1>6, <2>1, <2>2 DEF StatusTrue
<1>. QED BY <1>7, <1>8, <1>9

\* The steps of the run that has its day's files for itself.
LEMMA WriterKeeps ==
  ASSUME BackupsTyped, BackupInv, NEW r \in Run, NEW d \in Day, Active(r, d),
         UNCHANGED <<day, status, runs>>, run' \in [Run -> Running],
         \A q \in Run \ {r} : run'[q] = run[q],
         run'[r].pc # "idle", run'[r].day = d,
         \A f \in Kind \X Day : f[2] # d => file'[f] = file[f],
         run'[r].ok /\ Kept(d) =>
           /\ run'[r].pc \in {"tar", "prune", "status"} => file'[<<"db", d>>] = "whole"
           /\ run'[r].pc \in {"prune", "status"} => file'[<<"photos", d>>] = "whole"
  PROVE  BackupInv'
<1>. USE DEF BackupsTyped, BackupInv
<1>1. \A q \in Run, e \in Day : Active(q, e)' = Active(q, e) BY DEF Active
<1>2. SoleRun' BY <1>1 DEF SoleRun
<1>3. OkMeansWhole'
  <2>. SUFFICES ASSUME NEW q \in Run, (run[q].ok /\ Kept(run[q].day))', q # r, run[q].pc # "idle"
                PROVE  /\ file'[<<"db", run[q].day>>] = "whole" \/ run[q].pc \notin {"tar", "prune", "status"}
                       /\ file'[<<"photos", run[q].day>>] = "whole" \/ run[q].pc \notin {"prune", "status"}
    BY DEF OkMeansWhole, Kept
  <2>1. run'[q] = run[q] /\ run[q].day \in Day BY DEF Running
  <2>2. Kept(run[q].day) BY <2>1 DEF Kept
  <2>3. run[q].day # d BY <2>1, <2>2 DEF SoleRun, Active, Kept
  <2>4. \A k \in Kind : file'[<<k, run[q].day>>] = file[<<k, run[q].day>>] BY <2>1, <2>3
  <2>. QED BY <2>1, <2>2, <2>4 DEF OkMeansWhole, Kind
<1>4. StatusTrue'
  <2>. SUFFICES ASSUME NEW s \in status, s.ok, runs[s.day] = 1, day - s.day <= Retention,
                       NEW k \in Kind
                PROVE  file'[<<k, s.day>>] = "whole"
    BY DEF StatusTrue
  <2>1. s.day \in Day BY StatusDays
  <2>2. s.day # d BY <2>1 DEF SoleRun
  <2>. QED BY <2>1, <2>2 DEF StatusTrue
<1>. QED BY <1>2, <1>3, <1>4

LEMMA DumpKeeps ==
  ASSUME BackupsTyped, BackupInv, NEW r \in Run, _run_pg_dump(r) PROVE BackupInv'
<1>. DEFINE d == run[r].day
<1>1. run[r].pc = "dump" /\ d \in Day /\ UNCHANGED <<day, status, runs>>
  BY DEF _run_pg_dump, BackupsTyped, Running
<1>2. \A q \in Run : Active(q, d) /\ Kept(d) => q = r
  BY <1>1 DEF BackupInv, SoleRun, Active, Kept
<1>3. Kept(d) => Written(r, "dump") = {"whole"}
  BY <1>2 DEF Written, Alone, Active
<1>4. CASE /\ \E w \in Written(r, "dump") :
                 file' = [file EXCEPT ![<<"db", d>>] = w, ![<<"photos", d>>] = "partial"]
           /\ run' = [run EXCEPT ![r].pc = "tar"]
  <2>1. PICK w \in Written(r, "dump") :
                 file' = [file EXCEPT ![<<"db", d>>] = w, ![<<"photos", d>>] = "partial"]
    BY <1>4
  <2>2. /\ \A f \in Kind \X Day : f[2] # d => file'[f] = file[f]
        /\ Kept(d) => file'[<<"db", d>>] = "whole"
    BY <1>1, <1>3, <2>1 DEF BackupsTyped, Kind
  <2>3. run' \in [Run -> Running] BY <1>4 DEF BackupsTyped, Running
  <2>4. /\ \A q \in Run \ {r} : run'[q] = run[q]
        /\ run'[r].pc = "tar" /\ run'[r].day = d
    BY <1>4 DEF BackupsTyped, Running
  <2>. QED BY <1>1, <2>2, <2>3, <2>4, WriterKeeps DEF Active
<1>5. CASE /\ file' = [file EXCEPT ![<<"photos", d>>] = "partial"]
           /\ run' = [run EXCEPT ![r].pc = "tar", ![r].ok = FALSE]
  <2>1. \A f \in Kind \X Day : f[2] # d => file'[f] = file[f] BY <1>5 DEF BackupsTyped
  <2>2. run' \in [Run -> Running] BY <1>5 DEF BackupsTyped, Running
  <2>3. /\ \A q \in Run \ {r} : run'[q] = run[q]
        /\ run'[r].pc = "tar" /\ run'[r].day = d /\ run'[r].ok = FALSE
    BY <1>5 DEF BackupsTyped, Running
  <2>. QED BY <1>1, <2>1, <2>2, <2>3, WriterKeeps DEF Active
<1>. QED BY <1>4, <1>5 DEF _run_pg_dump

LEMMA TarKeeps ==
  ASSUME BackupsTyped, BackupInv, NEW r \in Run, _tar_photos(r) PROVE BackupInv'
<1>. DEFINE d == run[r].day
<1>1. run[r].pc = "tar" /\ d \in Day /\ UNCHANGED <<day, status, runs>>
  BY DEF _tar_photos, BackupsTyped, Running
<1>2. \A q \in Run : Active(q, d) /\ Kept(d) => q = r
  BY <1>1 DEF BackupInv, SoleRun, Active, Kept
<1>3. Kept(d) => Written(r, "tar") = {"whole"}
  BY <1>2 DEF Written, Alone, Active
<1>4. CASE /\ \E w \in Written(r, "tar") : file' = [file EXCEPT ![<<"photos", d>>] = w]
           /\ run' = [run EXCEPT ![r].pc = "prune"]
  <2>1. PICK w \in Written(r, "tar") : file' = [file EXCEPT ![<<"photos", d>>] = w]
    BY <1>4
  <2>2. /\ \A f \in Kind \X Day : f[2] # d => file'[f] = file[f]
        /\ Kept(d) => file'[<<"photos", d>>] = "whole"
        /\ file'[<<"db", d>>] = file[<<"db", d>>]
    BY <1>1, <1>3, <2>1 DEF BackupsTyped, Kind
  <2>3. run' \in [Run -> Running] BY <1>4 DEF BackupsTyped, Running
  <2>4. /\ \A q \in Run \ {r} : run'[q] = run[q]
        /\ run'[r].pc = "prune" /\ run'[r].day = d /\ run'[r].ok = run[r].ok
    BY <1>4 DEF BackupsTyped, Running
  <2>5. run[r].ok /\ Kept(d) => file[<<"db", d>>] = "whole"
    BY <1>1 DEF BackupInv, OkMeansWhole
  <2>. QED BY <1>1, <2>2, <2>3, <2>4, <2>5, WriterKeeps DEF Active
<1>5. CASE /\ file' = file
           /\ run' = [run EXCEPT ![r].pc = "prune", ![r].ok = FALSE]
  <2>1. run' \in [Run -> Running] BY <1>5 DEF BackupsTyped, Running
  <2>2. /\ \A q \in Run \ {r} : run'[q] = run[q]
        /\ run'[r].pc = "prune" /\ run'[r].day = d /\ run'[r].ok = FALSE
    BY <1>5 DEF BackupsTyped, Running
  <2>. QED BY <1>1, <1>5, <2>1, <2>2, WriterKeeps DEF Active
<1>. QED BY <1>4, <1>5 DEF _tar_photos

\* What is kept is not outdated for a run that began today or earlier.
LEMMA PruneKeeps ==
  ASSUME BackupsTyped, BackupInv, RunsBegan, NEW r \in Run, prune_old_backups(r)
  PROVE  BackupInv'
<1>. USE DEF BackupsTyped, BackupInv
<1>1. /\ UNCHANGED <<day, status, runs>> /\ run[r].pc = "prune"
      /\ run' = [run EXCEPT ![r].pc = "status"]
  BY DEF prune_old_backups
<1>2. \A k \in Kind, d \in Day : Kept(d) => file'[<<k, d>>] = file[<<k, d>>]
  <2>. SUFFICES ASSUME NEW k \in Kind, NEW d \in Day, Kept(d)
                PROVE  file'[<<k, d>>] = file[<<k, d>>]
    OBVIOUS
  <2>1. run[r].day \in Day /\ run[r].day <= day BY DEF Running, RunsBegan
  <2>2. ~ (d < run[r].day - Retention) BY <2>1, DaysAreNumbers DEF Day, Kept
  <2>3. <<k, d>> \notin Outdated(run[r].day) BY <2>2 DEF Outdated
  <2>4. PICK gone \in SUBSET Outdated(run[r].day) :
              file' = [f \in Kind \X Day |-> IF f \in gone THEN "none" ELSE file[f]]
    BY DEF prune_old_backups
  <2>. QED BY <2>3, <2>4
<1>3. \A q \in Run : /\ run'[q].day = run[q].day /\ run'[q].ok = run[q].ok
                     /\ run[q].day \in Day
                     /\ run'[q].pc = IF q = r THEN "status" ELSE run[q].pc
  BY <1>1 DEF Running
<1>4. \A d \in Day : Kept(d)' = Kept(d) BY <1>1 DEF Kept
<1>5. SoleRun' BY <1>1, <1>3 DEF SoleRun, Active
<1>6. OkMeansWhole' BY <1>1, <1>2, <1>3, <1>4 DEF OkMeansWhole, Kind
<1>7. StatusTrue' BY <1>1, <1>2, StatusDays DEF StatusTrue, Kept
<1>. QED BY <1>5, <1>6, <1>7

LEMMA StatusKeeps ==
  ASSUME BackupsTyped, BackupInv, NEW r \in Run, write_backup_status(r) PROVE BackupInv'
<1>. USE DEF BackupsTyped, BackupInv
<1>. DEFINE s == [day |-> run[r].day, ok |-> run[r].ok]
<1>1. /\ UNCHANGED <<day, file, runs>> /\ run[r].pc = "status"
      /\ run' = [run EXCEPT ![r] = NoRun] /\ run[r].day \in Day
  BY DEF write_backup_status, Running
<1>2. status' = status \/ status' = {s} BY DEF write_backup_status
<1>3. /\ \A q \in Run \ {r} : run'[q] = run[q]
      /\ run'[r].pc = "idle"
  BY <1>1 DEF NoRun
<1>4. \A d \in Day : /\ ~ Active(r, d)'
                     /\ \A q \in Run \ {r} : Active(q, d)' = Active(q, d)
  BY <1>3 DEF Active
<1>5. Active(r, run[r].day) BY <1>1 DEF Active
<1>6. SoleRun'
  <2>1. \A d \in Day, q \in Run, p \in Run :
           runs[d] = 1 /\ Active(p, d)' /\ Active(q, d)' => p = q
    BY <1>4 DEF SoleRun
  <2>2. \A d \in Day : runs[d] = 0 => /\ \A q \in Run : ~ Active(q, d)'
                                      /\ \A t \in status' : t.day # d
    BY <1>1, <1>2, <1>4, <1>5 DEF SoleRun
  <2>3. \A d \in Day, t \in status', q \in Run : runs[d] = 1 /\ t.day = d => ~ Active(q, d)'
    BY <1>1, <1>2, <1>4, <1>5 DEF SoleRun
  <2>. QED BY <1>1, <2>1, <2>2, <2>3 DEF SoleRun
<1>7. OkMeansWhole' BY <1>1, <1>3 DEF OkMeansWhole, Kept
<1>8. StatusTrue'
  <2>1. (s.ok /\ Kept(s.day)) => \A k \in Kind : file[<<k, s.day>>] = "whole"
    BY <1>1 DEF OkMeansWhole, Kind
  <2>. QED BY <1>1, <1>2, <2>1 DEF StatusTrue, Kept
<1>. QED BY <1>6, <1>7, <1>8

LEMMA BackupInvNext ==
  ASSUME BackupsTyped, RunsBegan, BackupInv, [UpkeepNext]_upkeepVars PROVE BackupInv'
<1>1. CASE UNCHANGED backupVars
  BY <1>1 DEF backupVars, BackupInv, SoleRun, OkMeansWhole, StatusTrue, Active, Kept
<1>2. CASE Stop
  <2>1. \A r \in Run : run'[r].pc = "idle" BY <1>2 DEF Stop, NoRuns, NoRun
  <2>2. UNCHANGED <<day, file, status, runs>> BY <1>2 DEF Stop
  <2>. QED BY <2>1, <2>2 DEF BackupInv, SoleRun, OkMeansWhole, StatusTrue, Active
<1>3. CASE NextDay
  <2>1. UNCHANGED <<file, run, status, runs>> /\ day' = day + 1 BY <1>3 DEF NextDay
  <2>2. \A d \in Day : Kept(d)' => Kept(d)
    BY <2>1, DaysAreNumbers DEF Kept, BackupsTyped, Day
  <2>3. \A r \in Run : run[r].day \in Day BY DEF BackupsTyped, Running
  <2>4. SoleRun' BY <2>1 DEF BackupInv, SoleRun, Active
  <2>5. OkMeansWhole' BY <2>1, <2>2, <2>3 DEF BackupInv, OkMeansWhole
  <2>6. StatusTrue' BY <2>1, <2>2, StatusDays DEF BackupInv, StatusTrue, Kept
  <2>. QED BY <2>4, <2>5, <2>6 DEF BackupInv
<1>. QED
  BY <1>1, <1>2, <1>3, BeginKeeps, DumpKeeps, TarKeeps, PruneKeeps, StatusKeeps, Frames
  DEF UpkeepNext, BootNext, BackupNext, upkeepVars

\* A day's status that says "ok" is true while that day had one run. (Code:
\* backup.run_backup.)
THEOREM StatusBelieved == UpkeepSpec => []StatusTrue
<1>1. UpkeepInit => BackupInv /\ RunsBegan
  BY DaysAreNumbers
  DEF UpkeepInit, BackupInv, RunsBegan, SoleRun, OkMeansWhole, StatusTrue, Active, NoRuns, NoRun
<1>2. UpkeepTypeOK /\ RunsBegan /\ BackupInv /\ [UpkeepNext]_upkeepVars
        => RunsBegan' /\ BackupInv'
  BY RunsBeganNext, BackupInvNext, UpkeepTypesSplit
<1>3. BackupInv => StatusTrue BY DEF BackupInv
<1>. QED BY <1>1, <1>2, <1>3, UpkeepTypes, PTL DEF UpkeepSpec

-----------------------------------------------------------------------------
(* The research leaves boot, settings, keys and backups as they are. *)

LEMMA ServerSteps == [ServerNext]_serverVars => [UpkeepNext]_upkeepVars
<1>1. Boot \/ Kill => BootNext BY DEF Boot, Kill, BootNext
<1>2. AdminNext => SettingsNext \/ KeysNext BY DEF AdminNext, SettingsNext, KeysNext
<1>3. Reconfigure => KeysNext BY DEF KeysNext
<1>. QED BY <1>1, <1>2, <1>3 DEF ServerNext, UpkeepNext, serverVars

\* The server with its research is the server without it, as far as boot,
\* settings, keys and backups go: what is proved above holds for both.
\* (Code: main.lifespan and the routers that ai_service shares the process with.)
THEOREM ResearchKeepsUpkeep == ResearchSpec => UpkeepSpec
  BY ServerSteps, PTL DEF ResearchSpec, UpkeepSpec, serverVars

-----------------------------------------------------------------------------
(* The quota. *)

Cap == Text \ Fault

\* What a boot caches parses, one value for each key.
CapsTyped ==
  /\ row \in [Key -> Text] /\ cache \in [Key -> SUBSET Cap]
  /\ \A k \in Key : \A s, t \in cache[k] : s = t

CallTyped == [pc: {"idle", "asked", "stream", "ended", "refused", "fetch"},
              who: AtMostOne(Member), topic: AtMostOne(Topic), cap: {0} \cup Cap, evicted: BOOLEAN]
CountsTyped == counted \in [Member -> [Metered -> Nat]]
CallsTyped == call \in [Call -> CallTyped]

\* A request that was let in has one member and one topic.
Placed(c) == \E m \in Member, t \in Topic : call[c].who = {m} /\ call[c].topic = {t}
Streams(c) == call[c].pc = "stream"

Within(c) == /\ call[c].cap \in Cap /\ counted[Who(c)][Bucket(c)] < call[c].cap
             /\ \A d \in Call \ {c} : Streams(d) => ~ (Who(d) = Who(c) /\ Bucket(d) = Bucket(c))
Metering ==
  \A c \in Call : /\ call[c].pc \in {"asked", "stream", "fetch"} => Placed(c)
                  /\ Streams(c) => Within(c)

Quoted == CapsTyped /\ CountsTyped /\ CallsTyped /\ Metering

LEMMA Owner ==
  ASSUME NEW c \in Call, Placed(c)
  PROVE  /\ Who(c) \in Member /\ Of(c) \in Topic /\ Bucket(c) \in Metered
         /\ call[c].who = {Who(c)} /\ call[c].topic = {Of(c)}
<1>1. PICK m \in Member, t \in Topic : call[c].who = {m} /\ call[c].topic = {t} BY DEF Placed
<1>2. Who(c) = m BY <1>1 DEF Who
<1>3. Of(c) = t BY <1>1 DEF Of
<1>. QED BY <1>1, <1>2, <1>3 DEF Bucket, KindOf, Metered

-----------------------------------------------------------------------------
(* Settings, and the life of the process. *)

LEMMA CapsStart == UpkeepInit => CapsTyped
  BY FaultsAreTexts DEF UpkeepInit, CapsTyped, Cap

LEMMA CapsKept == CapsTyped /\ [UpkeepNext]_upkeepVars => CapsTyped'
<1>. SUFFICES ASSUME CapsTyped, [UpkeepNext]_upkeepVars PROVE CapsTyped' OBVIOUS
<1>. USE DEF CapsTyped, Cap
<1>1. CASE UNCHANGED settingVars BY <1>1 DEF settingVars
<1>2. CASE prewarm_cache BY <1>2 DEF prewarm_cache
<1>3. CASE Stop BY <1>3 DEF Stop
<1>4. ASSUME NEW k \in Key, NEW t \in Text, set_setting(k, t) PROVE CapsTyped'
  BY <1>4 DEF set_setting
<1>5. CASE PopEntry BY <1>5 DEF PopEntry
<1>6. (startup_check \/ rewrap_if_needed) => UNCHANGED settingVars
  BY DEF startup_check, rewrap_if_needed
<1>. QED
  BY <1>1, <1>2, <1>3, <1>4, <1>5, <1>6, Frames
  DEF UpkeepNext, BootNext, SettingsNext, save_setting, upkeepVars

\* Steps that leave calls and counts alone.
LEMMA QuotaFrames ==
  ASSUME Quoted, UNCHANGED <<call, counted>> PROVE (CountsTyped /\ CallsTyped /\ Metering)'
<1>1. \A c \in Call : /\ Who(c)' = Who(c) /\ Of(c)' = Of(c)
                      /\ Placed(c)' = Placed(c) /\ Streams(c)' = Streams(c)
  BY DEF Who, Of, Placed, Streams
<1>2. \A c \in Call : Bucket(c)' = Bucket(c) BY <1>1 DEF Bucket
<1>3. \A c \in Call : Within(c)' = Within(c) BY <1>1, <1>2 DEF Within
<1>4. (CountsTyped /\ CallsTyped)' BY DEF Quoted, CountsTyped, CallsTyped
<1>5. Metering' BY <1>1, <1>3 DEF Quoted, Metering
<1>. QED BY <1>4, <1>5

-----------------------------------------------------------------------------
(* One request moves. *)

\* Its record becomes r, and the counts do not grow.
Moves(c, r) ==
  /\ call' = [call EXCEPT ![c] = r]
  /\ CountsTyped' /\ \A m \in Member, k \in Metered : counted'[m][k] <= counted[m][k]

LEMMA Others ==
  ASSUME NEW c, CallsTyped, NEW d \in Call \ {c}, NEW r, call' = [call EXCEPT ![c] = r]
  PROVE  /\ call'[d] = call[d] /\ Who(d)' = Who(d) /\ Of(d)' = Of(d) /\ Bucket(d)' = Bucket(d)
         /\ Placed(d)' = Placed(d) /\ Streams(d)' = Streams(d)
<1>1. call'[d] = call[d] BY DEF CallsTyped
<1>. QED BY <1>1 DEF Who, Of, Bucket, Placed, Streams

\* A request that does not become a stream.
LEMMA MovesAside ==
  ASSUME Quoted, NEW c \in Call, NEW r \in CallTyped, Moves(c, r), r.pc # "stream",
         r.pc \in {"asked", "fetch"} =>
           \E m \in Member, t \in Topic : r.who = {m} /\ r.topic = {t}
  PROVE  (CountsTyped /\ CallsTyped /\ Metering)'
<1>1. CallsTyped' BY DEF Quoted, CallsTyped, Moves
<1>2. call'[c] = r BY DEF Quoted, CallsTyped, Moves
<1>3. ASSUME NEW d \in Call, Streams(d)' PROVE Within(d)'
  <2>1. d # c BY <1>2, <1>3 DEF Streams
  <2>2. /\ call'[d] = call[d] /\ Who(d)' = Who(d) /\ Bucket(d)' = Bucket(d) /\ Streams(d)
    BY <1>3, <2>1, Others DEF Quoted, Moves
  <2>3. Within(d) /\ Placed(d) BY <2>2 DEF Quoted, Metering, Streams
  <2>4. Who(d) \in Member /\ Bucket(d) \in Metered BY <2>3, Owner
  <2>5. counted'[Who(d)][Bucket(d)] < call[d].cap
    <3>1. counted'[Who(d)][Bucket(d)] \in Nat BY <2>4 DEF Moves, CountsTyped
    <3>2. counted[Who(d)][Bucket(d)] \in Nat BY <2>4 DEF Quoted, CountsTyped
    <3>3. call[d].cap \in Nat BY <2>3, CapsAreNumbers DEF Within, Cap
    <3>. QED BY <2>3, <2>4, <3>1, <3>2, <3>3 DEF Within, Moves
  <2>6. ASSUME NEW e \in Call \ {d}, Streams(e)'
        PROVE  ~ (Who(e)' = Who(d)' /\ Bucket(e)' = Bucket(d)')
    <3>1. e # c BY <1>2, <2>6 DEF Streams
    <3>. QED BY <2>2, <2>3, <2>6, <3>1, Others DEF Quoted, Moves, Within
  <2>. QED BY <2>2, <2>3, <2>5, <2>6 DEF Within
<1>4. ASSUME NEW d \in Call, call'[d].pc \in {"asked", "stream", "fetch"} PROVE Placed(d)'
  <2>1. CASE d = c BY <1>2, <1>4, <2>1 DEF Placed, CallTyped
  <2>2. CASE d # c
    BY <1>4, <2>2, Others DEF Quoted, Moves, Metering
  <2>. QED BY <2>1, <2>2
<1>. QED BY <1>1, <1>3, <1>4 DEF Moves, Metering

-----------------------------------------------------------------------------
(* Counting, and starting. *)

LEMMA Record ==
  ASSUME CallsTyped, NEW c \in Call
  PROVE  /\ call[c] \in CallTyped
         /\ \A b \in BOOLEAN, p \in {"idle", "asked", "stream", "ended", "refused", "fetch"} :
              /\ [call[c] EXCEPT !.pc = p, !.evicted = b] \in CallTyped
              /\ [call[c] EXCEPT !.pc = p] \in CallTyped
         /\ NoCall \in CallTyped
<1>1. {} \in AtMostOne(Member) /\ {} \in AtMostOne(Topic) BY SmallSets
<1>. QED BY <1>1 DEF CallsTyped, CallTyped, NoCall

\* The stream of c ends well.
Ends(c) ==
  /\ Streams(c) /\ Count(c)
  /\ \E r \in CallTyped : r.pc = "ended" /\ call' = [call EXCEPT ![c] = r]

LEMMA EndsOk ==
  ASSUME Quoted, NEW c \in Call, Ends(c)
  PROVE  /\ (CountsTyped /\ CallsTyped /\ Metering)'
         /\ \A m \in Member, k \in Metered : counted'[m][k] > counted[m][k] =>
              Who(c) = m /\ Bucket(c) = k /\ counted'[m][k] <= call[c].cap
<1>1. Placed(c) /\ Within(c) BY DEF Ends, Quoted, Metering, Streams
<1>2. /\ Who(c) \in Member /\ Bucket(c) \in Metered BY <1>1, Owner
<1>3. PICK r \in CallTyped : r.pc = "ended" /\ call' = [call EXCEPT ![c] = r] BY DEF Ends
<1>4. CallsTyped' /\ call'[c] = r BY <1>3 DEF Quoted, CallsTyped
<1>5. /\ CountsTyped'
      /\ counted'[Who(c)][Bucket(c)] = counted[Who(c)][Bucket(c)] + 1
      /\ \A m \in Member, k \in Metered :
           m # Who(c) \/ k # Bucket(c) => counted'[m][k] = counted[m][k]
  BY <1>2 DEF Ends, Count, Quoted, CountsTyped
<1>6. counted[Who(c)][Bucket(c)] \in Nat /\ call[c].cap \in Nat
  BY <1>1, <1>2, CapsAreNumbers DEF Quoted, CountsTyped, Within, Cap
<1>7. ASSUME NEW m \in Member, NEW k \in Metered, counted'[m][k] > counted[m][k]
      PROVE  Who(c) = m /\ Bucket(c) = k /\ counted'[m][k] <= call[c].cap
  <2>1. Who(c) = m /\ Bucket(c) = k
    <3>1. counted[m][k] \in Nat BY DEF Quoted, CountsTyped
    <3>. QED BY <1>5, <1>7, <3>1
  <2>. QED BY <1>1, <1>5, <1>6, <2>1 DEF Within
<1>8. ASSUME NEW d \in Call, Streams(d)' PROVE Within(d)'
  <2>1. d # c BY <1>3, <1>4, <1>8 DEF Streams
  <2>2. /\ call'[d] = call[d] /\ Who(d)' = Who(d) /\ Bucket(d)' = Bucket(d) /\ Streams(d)
    BY <1>3, <1>8, <2>1, Others DEF Quoted
  <2>3. Within(d) /\ Placed(d) BY <2>2 DEF Quoted, Metering, Streams
  <2>4. Who(d) \in Member /\ Bucket(d) \in Metered BY <2>3, Owner
  <2>5. ~ (Who(d) = Who(c) /\ Bucket(d) = Bucket(c)) BY <1>1, <2>1, <2>2 DEF Within
  <2>6. counted'[Who(d)][Bucket(d)] = counted[Who(d)][Bucket(d)] BY <1>5, <2>4, <2>5
  <2>7. ASSUME NEW e \in Call \ {d}, Streams(e)'
        PROVE  ~ (Who(e)' = Who(d)' /\ Bucket(e)' = Bucket(d)')
    <3>1. e # c BY <1>3, <1>4, <2>7 DEF Streams
    <3>. QED BY <1>3, <2>2, <2>3, <2>7, <3>1, Others DEF Quoted, Within
  <2>. QED BY <2>2, <2>3, <2>6, <2>7 DEF Within
<1>9. ASSUME NEW d \in Call, call'[d].pc \in {"asked", "stream", "fetch"} PROVE Placed(d)'
  <2>1. d # c BY <1>3, <1>4, <1>9
  <2>. QED BY <1>3, <1>9, <2>1, Others DEF Quoted, Metering
<1>. QED BY <1>4, <1>5, <1>7, <1>8, <1>9 DEF Metering

\* A request becomes a stream below its cap, where no other stream is.
LEMMA StartOk ==
  ASSUME Quoted, NEW c \in Call, StartStream(c)
  PROVE  (CountsTyped /\ CallsTyped /\ Metering)'
<1>1. At(c, "asked") /\ Placed(c) /\ counted' = counted
  BY DEF StartStream, Admitted, At, Quoted, Metering
<1>. DEFINE m == Who(c)
            k == Bucket(c)
<1>2. m \in Member /\ k \in Metered /\ k \in Key BY <1>1, Owner, CapsAreNumbers
<1>3. PICK t \in get_quota_cap(k) :
        call' = [call EXCEPT ![c].pc = "stream", ![c].cap = t, ![c].evicted = Evicts(c)]
  BY DEF StartStream
<1>4. counted[m][k] < t
  <2>1. PICK s \in get_quota_cap(k) : s - counted[m][k] > 0
    BY DEF StartStream, Admitted, HasQuota, remaining
  <2>2. s = t /\ t \in Cap BY <1>2, <1>3, <2>1 DEF get_quota_cap, _get, Quoted, CapsTyped
  <2>3. t \in Nat /\ counted[m][k] \in Nat
    BY <1>2, <2>2, CapsAreNumbers DEF Cap, Quoted, CountsTyped
  <2>. QED BY <2>1, <2>2, <2>3
<1>5. t \in Cap BY <1>2, <1>3 DEF get_quota_cap, _get, Quoted, CapsTyped
<1>. DEFINE r == [call[c] EXCEPT !.pc = "stream", !.cap = t, !.evicted = Evicts(c)]
<1>6. call' = [call EXCEPT ![c] = r] BY <1>3
<1>7. r \in CallTyped
  <2>1. Evicts(c) \in BOOLEAN BY DEF Evicts
  <2>2. call[c] \in CallTyped BY Record DEF Quoted
  <2>. HIDE DEF m, k
  <2>. QED BY <1>5, <2>1, <2>2 DEF CallTyped
<1>8. call'[c] = r /\ CallsTyped' BY <1>6, <1>7 DEF Quoted, CallsTyped
<1>9. r.pc = "stream" /\ r.cap = t /\ r.who = call[c].who /\ r.topic = call[c].topic
  <2>1. call[c] \in CallTyped BY Record DEF Quoted
  <2>. QED BY <2>1 DEF CallTyped
<1>10. Who(c)' = m /\ Bucket(c)' = k /\ Placed(c)'
  <2>1. call'[c].who = call[c].who /\ call'[c].topic = call[c].topic BY <1>8, <1>9
  <2>2. Who(c)' = Who(c) /\ Of(c)' = Of(c) BY <2>1 DEF Who, Of
  <2>. QED BY <1>1, <2>1, <2>2 DEF Bucket, Placed
<1>11. \A d \in Call \ {c} : ~ (Streams(d) /\ Who(d) = m /\ Bucket(d) = k)
  BY DEF StartStream, Locked, Streams
<1>. HIDE DEF m, k, r
<1>12. ASSUME NEW d \in Call, Streams(d)' PROVE Within(d)'
  <2>1. CASE d = c
    <3>1. ASSUME NEW e \in Call \ {c}, Streams(e)'
          PROVE  ~ (Who(e)' = Who(c)' /\ Bucket(e)' = Bucket(c)')
      BY <1>6, <1>10, <1>11, <3>1, Others DEF Quoted
    <3>. QED BY <1>1, <1>4, <1>5, <1>8, <1>9, <1>10, <2>1, <3>1 DEF Within
  <2>2. CASE d # c
    <3>1. /\ call'[d] = call[d] /\ Who(d)' = Who(d) /\ Bucket(d)' = Bucket(d) /\ Streams(d)
      BY <1>6, <1>12, <2>2, Others DEF Quoted
    <3>2. Within(d) BY <3>1 DEF Quoted, Metering, Streams
    <3>3. ASSUME NEW e \in Call \ {d}, Streams(e)'
          PROVE  ~ (Who(e)' = Who(d)' /\ Bucket(e)' = Bucket(d)')
      <4>1. CASE e = c BY <1>10, <1>11, <2>2, <3>1, <4>1
      <4>2. CASE e # c BY <1>6, <3>1, <3>2, <3>3, <4>2, Others DEF Quoted, Within
      <4>. QED BY <4>1, <4>2
    <3>. QED BY <1>1, <3>1, <3>2, <3>3 DEF Within
  <2>. QED BY <2>1, <2>2
<1>13. ASSUME NEW d \in Call, call'[d].pc \in {"asked", "stream", "fetch"} PROVE Placed(d)'
  <2>1. CASE d = c BY <1>10, <2>1
  <2>2. CASE d # c BY <1>6, <1>13, <2>2, Others DEF Quoted, Metering
  <2>. QED BY <2>1, <2>2
<1>. QED BY <1>1, <1>8, <1>12, <1>13 DEF Quoted, CountsTyped, Metering

-----------------------------------------------------------------------------
(* Every step, and the quota. *)

LEMMA StepStay ==
  ASSUME Quoted, NEW c \in Call, NEW r \in CallTyped, call' = [call EXCEPT ![c] = r],
         UNCHANGED counted, r.pc \in {"idle", "ended", "refused"}
  PROVE  (CountsTyped /\ CallsTyped /\ Metering)'
<1>1. Moves(c, r) BY DEF Moves, Quoted, CountsTyped
<1>. QED BY <1>1, MovesAside

LEMMA AskOk ==
  ASSUME Quoted, NEW c \in Call, NEW m \in Member, NEW t \in Topic, NEW p \in {"asked", "fetch"},
         UNCHANGED counted,
         call' = [call EXCEPT ![c] = [NoCall EXCEPT !.pc = p, !.who = {m}, !.topic = {t}]]
  PROVE  (CountsTyped /\ CallsTyped /\ Metering)'
<1>. DEFINE r == [NoCall EXCEPT !.pc = p, !.who = {m}, !.topic = {t}]
<1>1. r \in CallTyped /\ r.pc = p /\ r.who = {m} /\ r.topic = {t}
  BY SmallSets DEF NoCall, CallTyped
<1>2. Moves(c, r) BY DEF Moves, Quoted, CountsTyped
<1>. HIDE DEF r
<1>. QED BY <1>1, <1>2, MovesAside

\* What a step may do to the counts: keep or lower them, or end a stream.
CountMoves == \/ \A m \in Member, k \in Metered : counted'[m][k] <= counted[m][k]
          \/ \E c \in Call : Ends(c)

LEMMA SameCounts == Quoted /\ UNCHANGED counted => CountMoves
<1>1. CountsTyped => \A m \in Member, k \in Metered : counted[m][k] <= counted[m][k]
  BY DEF CountsTyped
<1>. QED BY <1>1 DEF Quoted, CountMoves

LEMMA StreamOk ==
  ASSUME Quoted, NEW c \in Call, StreamStep(c, Member, Topic)
  PROVE  (CountsTyped /\ CallsTyped /\ Metering)' /\ CountMoves
<1>1. /\ call[c] \in CallTyped /\ NoCall \in CallTyped /\ NoCall.pc = "idle"
      /\ CallsTyped
  BY Record DEF Quoted, NoCall
<1>2. ASSUME NEW m \in Member, NEW t \in Topic, Ask(c, m, t)
      PROVE  (CountsTyped /\ CallsTyped /\ Metering)' /\ CountMoves
  BY <1>2, AskOk, SameCounts DEF Ask
<1>3. CASE call' = call /\ counted' = counted BY <1>3, QuotaFrames, SameCounts
<1>4. CASE call' = [call EXCEPT ![c] = NoCall] /\ counted' = counted
  BY <1>1, <1>4, StepStay, SameCounts
<1>5. CASE LockedOut(c)
  <2>. DEFINE r == [call[c] EXCEPT !.pc = "refused", !.evicted = Evicts(c)]
  <2>1. Evicts(c) \in BOOLEAN BY DEF Evicts
  <2>2. r \in CallTyped BY <1>1, <2>1 DEF CallTyped
  <2>3. r.pc = "refused" BY <1>1 DEF CallTyped
  <2>4. call' = [call EXCEPT ![c] = r] /\ counted' = counted BY <1>5 DEF LockedOut
  <2>. HIDE DEF r
  <2>. QED BY <2>2, <2>3, <2>4, StepStay, SameCounts
<1>6. CASE StartStream(c) BY <1>6, StartOk, SameCounts DEF StartStream
<1>7. CASE generate_coffee_research(c) \/ generate_brew_improvement(c)
  <2>1. \E r \in CallTyped : r.pc = "ended" /\ call' = [call EXCEPT ![c] = r]
    <3>1. \/ call' = [call EXCEPT ![c] = [call[c] EXCEPT !.pc = "ended", !.evicted = FALSE]]
          \/ call' = [call EXCEPT ![c] = [call[c] EXCEPT !.pc = "ended"]]
      BY <1>7 DEF generate_coffee_research, generate_brew_improvement
    <3>2. /\ [call[c] EXCEPT !.pc = "ended", !.evicted = FALSE] \in CallTyped
          /\ [call[c] EXCEPT !.pc = "ended", !.evicted = FALSE].pc = "ended"
          /\ [call[c] EXCEPT !.pc = "ended"] \in CallTyped
          /\ [call[c] EXCEPT !.pc = "ended"].pc = "ended"
      BY <1>1 DEF CallTyped
    <3>. QED BY <3>1, <3>2
  <2>2. Ends(c)
    BY <1>7, <2>1 DEF generate_coffee_research, generate_brew_improvement, Ends, Streams, At
  <2>. QED BY <2>2, EndsOk DEF CountMoves
<1>8. CASE ProviderError(c)
  <2>. DEFINE r == [call[c] EXCEPT !.pc = "ended"]
  <2>1. r \in CallTyped /\ r.pc = "ended" BY <1>1 DEF CallTyped
  <2>2. call' = [call EXCEPT ![c] = r] /\ counted' = counted BY <1>8 DEF ProviderError
  <2>. HIDE DEF r
  <2>. QED BY <2>1, <2>2, StepStay, SameCounts
<1>9. CacheHit(c) \/ NotParsed(c) \/ CloseAnswer(c)
        => call' = [call EXCEPT ![c] = NoCall] /\ counted' = counted
  BY DEF CacheHit, NotParsed, CloseAnswer
<1>10. get_cached_research(c) \/ _write_cache_row(c) => call' = call /\ counted' = counted
  BY DEF get_cached_research, _write_cache_row
<1>11. (\E m \in Member : \/ "coach" \in Topic /\ post_ai_improve_brew(c, m)
                          \/ \E p \in Topic \cap Page : post_ai_research(c, m, p))
         => \E m \in Member, t \in Topic : Ask(c, m, t)
  BY DEF post_ai_improve_brew, post_ai_research
<1>. QED BY <1>2, <1>3, <1>4, <1>5, <1>6, <1>7, <1>8, <1>9, <1>10, <1>11 DEF StreamStep

LEMMA TellOk ==
  ASSUME Quoted, TellStep(Member)
  PROVE  (CountsTyped /\ CallsTyped /\ Metering)' /\ CountMoves
<1>1. CASE UNCHANGED <<call, counted>> BY <1>1, QuotaFrames, SameCounts
<1>2. ASSUME NEW c \in Call, NEW m \in Member, post_ai_paste_rank(c, m)
      PROVE  (CountsTyped /\ CallsTyped /\ Metering)' /\ CountMoves
  <2>1. "paste" \in Topic BY DEF Topic
  <2>. QED BY <1>2, <2>1, AskOk, SameCounts DEF post_ai_paste_rank
<1>3. ASSUME NEW c \in Call, rank_pasted_coffees(c)
      PROVE  (CountsTyped /\ CallsTyped /\ Metering)' /\ CountMoves
  <2>1. NoCall \in CallTyped /\ NoCall.pc = "idle" BY SmallSets DEF NoCall, CallTyped
  <2>. QED BY <1>3, <2>1, StepStay, SameCounts DEF rank_pasted_coffees
<1>. QED
  BY <1>1, <1>2, <1>3
  DEF TellStep, post_ai_equipment, generate_equipment_rec, generate_preference_profile_prose,
      NewSignature

LEMMA TimeOk ==
  ASSUME Quoted, TimeStep(Member, Topic \cap Page)
  PROVE  (CountsTyped /\ CallsTyped /\ Metering)' /\ CountMoves
<1>1. CASE UNCHANGED <<call, counted>> BY <1>1, QuotaFrames, SameCounts
<1>2. ASSUME NEW m \in Member, NEW k \in Metered, DayPasses(m, k)
      PROVE  (CountsTyped /\ CallsTyped /\ Metering)' /\ CountMoves
  <2>1. /\ CountsTyped /\ counted[m][k] \in Nat /\ counted[m][k] > 0 /\ call' = call
        /\ counted' = [counted EXCEPT ![m][k] = @ - 1]
    BY <1>2 DEF DayPasses, Quoted, CountsTyped
  <2>2. counted'[m][k] = counted[m][k] - 1 /\ counted[m][k] - 1 \in Nat
    BY <2>1 DEF CountsTyped
  <2>3. CountsTyped' BY <2>1, <2>2 DEF CountsTyped
  <2>4. \A n \in Member, j \in Metered : counted'[n][j] <= counted[n][j]
    <3>. SUFFICES ASSUME NEW n \in Member, NEW j \in Metered PROVE counted'[n][j] <= counted[n][j]
      OBVIOUS
    <3>1. n # m \/ j # k => counted'[n][j] = counted[n][j] BY <2>1 DEF CountsTyped
    <3>2. counted[n][j] \in Nat BY <2>1 DEF CountsTyped
    <3>. QED BY <2>2, <3>1, <3>2
  <2>5. \A c \in Call : /\ Who(c)' = Who(c) /\ Of(c)' = Of(c)
                        /\ Placed(c)' = Placed(c) /\ Streams(c)' = Streams(c)
    BY <2>1 DEF Who, Of, Placed, Streams
  <2>6. \A c \in Call : Bucket(c)' = Bucket(c) BY <2>5 DEF Bucket
  <2>7. ASSUME NEW c \in Call, Streams(c)' PROVE Within(c)'
    <3>1. Within(c) /\ Placed(c) BY <2>5, <2>7 DEF Quoted, Metering, Streams
    <3>2. Who(c) \in Member /\ Bucket(c) \in Metered BY <3>1, Owner
    <3>3. counted'[Who(c)][Bucket(c)] <= counted[Who(c)][Bucket(c)] BY <2>4, <3>2
    <3>4. /\ counted'[Who(c)][Bucket(c)] \in Nat /\ counted[Who(c)][Bucket(c)] \in Nat
          /\ call[c].cap \in Nat
      BY <2>1, <2>3, <3>1, <3>2, CapsAreNumbers DEF CountsTyped, Within, Cap
    <3>5. counted'[Who(c)][Bucket(c)] < call[c].cap BY <3>1, <3>3, <3>4 DEF Within
    <3>. QED BY <2>1, <2>5, <2>6, <3>1, <3>5 DEF Within
  <2>8. (CallsTyped /\ Metering)' BY <2>1, <2>5, <2>7 DEF Quoted, CallsTyped, Metering
  <2>. QED BY <2>3, <2>4, <2>8 DEF CountMoves
<1>. QED BY <1>1, <1>2 DEF TimeStep, PageExpires, PredictionExpires

LEMMA KillOk == ASSUME Quoted, Kill PROVE (CountsTyped /\ CallsTyped /\ Metering)' /\ CountMoves
<1>1. NoCall \in CallTyped /\ NoCall.pc = "idle" BY SmallSets DEF NoCall, CallTyped
<1>2. call' = [c \in Call |-> NoCall] /\ counted' = counted BY DEF Kill
<1>. QED
  BY <1>1, <1>2, SameCounts DEF Quoted, CountsTyped, CallsTyped, Metering, Streams

LEMMA StepOk == ASSUME Quoted, [ServerNext]_serverVars PROVE Quoted' /\ CountMoves
<1>1. CapsTyped' BY CapsKept, ServerSteps DEF Quoted
<1>2. CASE UNCHANGED researchVars
  BY <1>1, <1>2, QuotaFrames, SameCounts DEF researchVars, Quoted
<1>3. CASE Kill BY <1>1, <1>3, KillOk DEF Quoted
<1>4. CASE ResearchNext(Member, Topic)
  BY <1>1, <1>4, StreamOk, TellOk, TimeOk DEF ResearchNext, Quoted
<1>. QED BY <1>2, <1>3, <1>4 DEF ServerNext, Boot, serverVars

LEMMA MeteringStart == UpkeepInit /\ ResearchInit => Quoted
<1>. SUFFICES ASSUME UpkeepInit, ResearchInit PROVE Quoted OBVIOUS
<1>1. NoCall \in CallTyped /\ NoCall.pc = "idle" BY SmallSets DEF NoCall, CallTyped
<1>2. CountsTyped /\ CallsTyped /\ Metering
  BY <1>1 DEF ResearchInit, CountsTyped, CallsTyped, Metering, Streams
<1>. QED BY <1>2, CapsStart DEF Quoted

\* However streams, failures, edits of the caps, crashes and days overlap, a
\* call is counted only within the cap its stream began under.
THEOREM QuotaIsKept == ResearchSpec => QuotaHolds
<1>1. ASSUME Quoted, [ServerNext]_serverVars
      PROVE  \A m \in Member, k \in Metered : counted'[m][k] > counted[m][k] =>
               \E c \in Call : /\ At(c, "stream") /\ Who(c) = m /\ Bucket(c) = k
                               /\ counted'[m][k] <= call[c].cap
  <2>. SUFFICES ASSUME NEW m \in Member, NEW k \in Metered, counted'[m][k] > counted[m][k]
                PROVE  \E c \in Call : /\ At(c, "stream") /\ Who(c) = m /\ Bucket(c) = k
                                       /\ counted'[m][k] <= call[c].cap
    OBVIOUS
  <2>1. Quoted' /\ CountMoves BY <1>1, StepOk
  <2>2. counted[m][k] \in Nat /\ counted'[m][k] \in Nat BY <1>1, <2>1 DEF Quoted, CountsTyped
  <2>3. PICK c \in Call : Ends(c) BY <2>1, <2>2 DEF CountMoves
  <2>. QED BY <1>1, <2>3, EndsOk DEF Ends, Streams, At
<1>2. Quoted /\ [ServerNext]_serverVars => Quoted' BY StepOk
<1>. QED BY <1>1, <1>2, MeteringStart, PTL DEF ResearchSpec, QuotaHolds, serverVars

-----------------------------------------------------------------------------
(* Types. *)

StoredTyped ==
  /\ entry \in [Page -> Life] /\ guess \in [Member -> [Page -> Life]]
  /\ told \in [Member -> SUBSET Unmetered] /\ frozen \in BOOLEAN

\* A count never passed some cap.
Bounded == \A m \in Member, k \in Metered : \E t \in Cap : counted[m][k] \in 0..t

LEMMA BoundedNext == ASSUME Quoted, Bounded, [ServerNext]_serverVars PROVE Bounded'
<1>1. Quoted' /\ CountMoves BY StepOk
<1>. SUFFICES ASSUME NEW m \in Member, NEW k \in Metered
              PROVE  \E t \in Cap : counted'[m][k] \in 0..t
  BY DEF Bounded
<1>2. counted[m][k] \in Nat /\ counted'[m][k] \in Nat BY <1>1 DEF Quoted, CountsTyped
<1>3. CASE counted'[m][k] <= counted[m][k]
  <2>1. PICK t \in Cap : counted[m][k] \in 0..t BY DEF Bounded
  <2>2. t \in Nat BY CapsAreNumbers DEF Cap
  <2>. QED BY <1>2, <1>3, <2>1, <2>2
<1>4. CASE counted'[m][k] > counted[m][k]
  <2>1. PICK c \in Call : Ends(c) BY <1>1, <1>2, <1>4 DEF CountMoves
  <2>2. counted'[m][k] <= call[c].cap BY <1>4, <2>1, EndsOk
  <2>3. call[c].cap \in Cap BY <2>1 DEF Ends, Quoted, Metering, Streams, Within
  <2>4. call[c].cap \in Nat BY <2>3, CapsAreNumbers DEF Cap
  <2>. QED BY <1>2, <2>2, <2>3, <2>4
<1>. QED BY <1>2, <1>3, <1>4

LEMMA RestNext == ASSUME Quoted, StoredTyped, [ServerNext]_serverVars PROVE StoredTyped'
<1>. USE DEF StoredTyped
<1>1. CASE UNCHANGED <<entry, guess, told, frozen>> BY <1>1
<1>2. CASE Kill BY <1>2 DEF Kill
<1>3. ASSUME NEW m \in Member, NEW p \in Page, get_or_refresh_prediction(m, p)
      PROVE  guess' \in [Member -> [Page -> Life]]
  BY <1>3 DEF get_or_refresh_prediction, Life
<1>4. ASSUME NEW c \in Call, StreamStep(c, Member, Topic) PROVE StoredTyped'
  <2>1. CASE CacheHit(c)
    <3>1. Placed(c) BY <2>1 DEF CacheHit, Admitted, At, Quoted, Metering
    <3>2. Who(c) \in Member /\ Of(c) \in Page BY <2>1, <3>1, Owner DEF CacheHit
    <3>. QED BY <1>3, <2>1, <3>2 DEF CacheHit
  <2>2. CASE get_cached_research(c) \/ _write_cache_row(c)
    BY <2>2 DEF get_cached_research, _write_cache_row
  <2>3. CASE generate_coffee_research(c)
    <3>1. Placed(c) BY <2>3 DEF generate_coffee_research, At, Quoted, Metering
    <3>2. Who(c) \in Member /\ Of(c) \in Page BY <2>3, <3>1, Owner DEF generate_coffee_research
    <3>. QED BY <1>3, <2>3, <3>2 DEF generate_coffee_research, Life
  <2>4. CASE NotParsed(c) BY <2>4 DEF NotParsed, Life
  <2>. QED
    BY <1>1, <1>4, <2>1, <2>2, <2>3, <2>4
    DEF StreamStep, post_ai_improve_brew, post_ai_research, Ask, LockedOut, StartStream,
        generate_brew_improvement, ProviderError, CloseAnswer
<1>5. CASE TellStep(Member)
  <2>1. told' \in [Member -> SUBSET Unmetered]
    <3>1. ASSUME NEW m \in Member, NEW x \in Unmetered
          PROVE  /\ [told EXCEPT ![m] = @ \cup {x}] \in [Member -> SUBSET Unmetered]
                 /\ [told EXCEPT ![m] = @ \ {x}] \in [Member -> SUBSET Unmetered]
      OBVIOUS
    <3>2. {"equipment", "paste_rank", "prose"} = Unmetered BY DEF Unmetered
    <3>3. ASSUME NEW m \in Member, post_ai_equipment(m) \/ generate_preference_profile_prose(m)
                                     \/ NewSignature(m)
          PROVE  told' \in [Member -> SUBSET Unmetered]
      BY <3>1, <3>2, <3>3
      DEF post_ai_equipment, generate_equipment_rec, generate_preference_profile_prose,
          NewSignature
    <3>4. ASSUME NEW c \in Call, rank_pasted_coffees(c)
          PROVE  told' \in [Member -> SUBSET Unmetered]
      <4>1. Placed(c) BY <3>4 DEF rank_pasted_coffees, At, Quoted, Metering
      <4>2. Who(c) \in Member BY <4>1, Owner
      <4>. QED BY <3>1, <3>2, <3>4, <4>2 DEF rank_pasted_coffees
    <3>. QED BY <1>5, <3>3, <3>4 DEF TellStep, post_ai_paste_rank
  <2>. QED
    BY <1>5, <2>1
    DEF TellStep, post_ai_equipment, generate_equipment_rec, generate_preference_profile_prose,
        NewSignature, post_ai_paste_rank, rank_pasted_coffees
<1>6. CASE TimeStep(Member, Topic \cap Page)
  BY <1>6 DEF TimeStep, DayPasses, PageExpires, PredictionExpires, Life
<1>. QED
  BY <1>1, <1>2, <1>4, <1>5, <1>6
  DEF ServerNext, Boot, ResearchNext, serverVars, researchVars

LEMMA RestStart == UpkeepInit /\ ResearchInit => StoredTyped /\ Bounded
<1>. SUFFICES ASSUME UpkeepInit, ResearchInit PROVE StoredTyped /\ Bounded OBVIOUS
<1>1. StoredTyped BY DEF ResearchInit, StoredTyped, Life
<1>2. ASSUME NEW m \in Member, NEW k \in Metered PROVE \E t \in Cap : counted[m][k] \in 0..t
  <2>1. row[k] \in Cap BY CapsAreNumbers DEF UpkeepInit, Cap
  <2>2. row[k] \in Nat BY <2>1, CapsAreNumbers DEF Cap
  <2>3. counted[m][k] = 0 BY DEF ResearchInit
  <2>. QED BY <2>1, <2>2, <2>3
<1>. QED BY <1>1, <1>2 DEF Bounded

\* Every reachable state of the research is well typed.
THEOREM ResearchTypes == ResearchSpec => []ResearchTypeOK
<1>. DEFINE Typed == Quoted /\ StoredTyped /\ Bounded
<1>1. UpkeepInit /\ ResearchInit => Typed BY MeteringStart, RestStart
<1>2. Typed /\ [ServerNext]_serverVars => Typed' BY StepOk, RestNext, BoundedNext
<1>3. Typed => ResearchTypeOK
  BY DEF Quoted, StoredTyped, Bounded, CallsTyped, CallTyped, Cap, ResearchTypeOK
<1>. QED BY <1>1, <1>2, <1>3, PTL DEF ResearchSpec, serverVars

-----------------------------------------------------------------------------
(* Why no late request takes a stored page away.  A page may be stored by a
   stream that began before another one deleted the expired row; what protects
   it is that the row stays locked, and expired, as long as its DELETE is open,
   and that only one request can have deleted it. *)

Evicting(c, p) == call[c].evicted /\ p \in call[c].topic
EvictedExpired ==
  \A c \in Call, p \in Page : Evicting(c, p) =>
     entry[p] = "expired" /\ \A d \in Call \ {c} : ~ Evicting(d, p)

PagesLast == \A p \in Page : entry[p] = "live" => entry'[p] \in {"live", "expired"}

\* A request that deletes nothing more than it did, on the pages as they are.
LEMMA EvictsNoMore ==
  ASSUME CallsTyped, EvictedExpired, UNCHANGED entry, NEW c \in Call, NEW v,
         call' = [call EXCEPT ![c] = v],
         v.evicted => call[c].evicted /\ v.topic = call[c].topic
  PROVE  EvictedExpired' /\ PagesLast
<1>1. \A d \in Call : \A p \in Page : Evicting(d, p)' => Evicting(d, p)
  BY DEF CallsTyped, Evicting
<1>. QED BY <1>1 DEF EvictedExpired, PagesLast

LEMMA PagesStream ==
  ASSUME Quoted, StoredTyped, EvictedExpired, NEW c \in Call, StreamStep(c, Member, Topic)
  PROVE  EvictedExpired' /\ PagesLast
<1>0. CallsTyped /\ entry \in [Page -> Life] BY DEF Quoted, StoredTyped
<1>1. CASE UNCHANGED <<entry, call>> BY <1>1 DEF EvictedExpired, Evicting, PagesLast
<1>2. ASSUME NEW m \in Member, NEW t \in Topic, Ask(c, m, t) PROVE EvictedExpired' /\ PagesLast
  <2>. DEFINE v == [NoCall EXCEPT !.pc = "asked", !.who = {m}, !.topic = {t}]
  <2>1. call' = [call EXCEPT ![c] = v] /\ UNCHANGED entry BY <1>2 DEF Ask
  <2>2. ~ v.evicted BY DEF NoCall
  <2>. HIDE DEF v
  <2>. QED BY <1>0, <2>1, <2>2, EvictsNoMore
<1>3. CASE CacheHit(c) \/ CloseAnswer(c)
  <2>1. call' = [call EXCEPT ![c] = NoCall] /\ UNCHANGED entry
    BY <1>3 DEF CacheHit, CloseAnswer
  <2>. QED BY <1>0, <2>1, EvictsNoMore DEF NoCall
<1>4. CASE generate_brew_improvement(c) \/ ProviderError(c)
  <2>. DEFINE v == [call[c] EXCEPT !.pc = "ended"]
  <2>1. call' = [call EXCEPT ![c] = v] /\ UNCHANGED entry
    BY <1>4 DEF generate_brew_improvement, ProviderError
  <2>2. v.evicted = call[c].evicted /\ v.topic = call[c].topic
    BY <1>0 DEF CallsTyped, CallTyped
  <2>. HIDE DEF v
  <2>. QED BY <1>0, <2>1, <2>2, EvictsNoMore
<1>5. CASE LockedOut(c) \/ StartStream(c)
  <2>1. PICK v : /\ call' = [call EXCEPT ![c] = v]
                 /\ v.topic = call[c].topic /\ v.evicted = Evicts(c)
    <3>1. CASE LockedOut(c)
      <4>. DEFINE v == [call[c] EXCEPT !.pc = "refused", !.evicted = Evicts(c)]
      <4>1. call' = [call EXCEPT ![c] = v] BY <3>1 DEF LockedOut
      <4>2. v.topic = call[c].topic /\ v.evicted = Evicts(c) BY <1>0 DEF CallsTyped, CallTyped
      <4>. HIDE DEF v
      <4>. QED BY <4>1, <4>2
    <3>2. CASE StartStream(c)
      <4>1. PICK t : call' = [call EXCEPT ![c].pc = "stream", ![c].cap = t,
                                          ![c].evicted = Evicts(c)]
        BY <3>2 DEF StartStream
      <4>. DEFINE v == [call[c] EXCEPT !.pc = "stream", !.cap = t, !.evicted = Evicts(c)]
      <4>2. call' = [call EXCEPT ![c] = v] BY <1>0, <4>1 DEF CallsTyped
      <4>3. v.topic = call[c].topic /\ v.evicted = Evicts(c) BY <1>0 DEF CallsTyped, CallTyped
      <4>. HIDE DEF v
      <4>. QED BY <4>2, <4>3
    <3>. QED BY <1>5, <3>1, <3>2
  <2>2. Admitted(c) /\ Misses(c) /\ UNCHANGED entry BY <1>5 DEF LockedOut, StartStream
  <2>3. call[c].topic = {Of(c)} BY <2>2, Owner DEF Admitted, At, Quoted, Metering
  <2>4. call'[c] = v /\ \A d \in Call : d # c => call'[d] = call[d]
    BY <1>0, <2>1 DEF CallsTyped
  <2>5. ASSUME NEW p \in Page, Evicting(c, p)'
        PROVE  entry[p] = "expired" /\ \A d \in Call : ~ Evicting(d, p)
    <3>1. p = Of(c) /\ Evicts(c) BY <2>1, <2>3, <2>4, <2>5 DEF Evicting
    <3>. QED BY <2>2, <3>1 DEF Evicts, Misses, Deleted, Evicting
  <2>6. \A d \in Call, p \in Page : d # c => (Evicting(d, p)' <=> Evicting(d, p))
    BY <2>4 DEF Evicting
  <2>7. EvictedExpired' BY <2>2, <2>5, <2>6 DEF EvictedExpired
  <2>. QED BY <2>2, <2>7 DEF PagesLast
<1>6. CASE generate_coffee_research(c)
  <2>. DEFINE v == [call[c] EXCEPT !.pc = "ended", !.evicted = FALSE]
  <2>1. call' = [call EXCEPT ![c] = v] BY <1>0, <1>6 DEF generate_coffee_research, CallsTyped
  <2>2. ~ v.evicted BY <1>0 DEF CallsTyped, CallTyped
  <2>3. call'[c] = v /\ \A d \in Call : d # c => call'[d] = call[d]
    BY <1>0, <2>1 DEF CallsTyped
  <2>4. \A d \in Call, p \in Page : Evicting(d, p)' => Evicting(d, p) /\ d # c
    BY <2>2, <2>3 DEF Evicting
  <2>5. \A d \in Call : d # c => ~ Evicting(d, Of(c))
    BY <1>6 DEF generate_coffee_research, DeletedBeside, Evicting
  <2>6. \A p \in Page : entry'[p] = IF p = Of(c) THEN "live" ELSE entry[p]
    BY <1>0, <1>6 DEF generate_coffee_research
  <2>. HIDE DEF v
  <2>. QED BY <2>4, <2>5, <2>6 DEF EvictedExpired, PagesLast
<1>7. CASE NotParsed(c)
  <2>1. call'[c] = NoCall /\ \A d \in Call : d # c => call'[d] = call[d]
    BY <1>0, <1>7 DEF NotParsed, CallsTyped
  <2>2. \A d \in Call, p \in Page : Evicting(d, p)' => Evicting(d, p) /\ d # c
    BY <2>1 DEF Evicting, NoCall
  <2>3. \A p \in Page : entry'[p] = entry[p] \/ Evicting(c, p)
    <3>1. Placed(c) BY <1>7 DEF NotParsed, At, Quoted, Metering
    <3>2. Of(c) \in call[c].topic BY <3>1, Owner
    <3>. QED BY <1>7, <3>2 DEF NotParsed, Evicting
  <2>. QED BY <2>2, <2>3 DEF EvictedExpired, PagesLast
<1>8. get_cached_research(c) \/ _write_cache_row(c) => UNCHANGED <<entry, call>>
  BY DEF get_cached_research, _write_cache_row
<1>. QED
  BY <1>1, <1>2, <1>3, <1>4, <1>5, <1>6, <1>7, <1>8
  DEF StreamStep, post_ai_improve_brew, post_ai_research

LEMMA PagesStep ==
  ASSUME Quoted, StoredTyped, EvictedExpired, [ServerNext]_serverVars
  PROVE  EvictedExpired' /\ PagesLast
<1>0. CallsTyped /\ entry \in [Page -> Life] BY DEF Quoted, StoredTyped
<1>1. CASE UNCHANGED <<entry, call>> BY <1>1 DEF EvictedExpired, Evicting, PagesLast
<1>2. CASE Kill BY <1>2 DEF Kill, EvictedExpired, Evicting, PagesLast, NoCall
<1>3. ASSUME NEW c \in Call, StreamStep(c, Member, Topic) PROVE EvictedExpired' /\ PagesLast
  BY <1>3, PagesStream
<1>4. ASSUME NEW c \in Call, NEW m \in Member, post_ai_paste_rank(c, m)
      PROVE  EvictedExpired' /\ PagesLast
  <2>. DEFINE v == [NoCall EXCEPT !.pc = "fetch", !.who = {m}, !.topic = {"paste"}]
  <2>1. call' = [call EXCEPT ![c] = v] /\ UNCHANGED entry BY <1>4 DEF post_ai_paste_rank
  <2>2. ~ v.evicted BY DEF NoCall
  <2>. HIDE DEF v
  <2>. QED BY <1>0, <2>1, <2>2, EvictsNoMore
<1>5. ASSUME NEW c \in Call, rank_pasted_coffees(c) PROVE EvictedExpired' /\ PagesLast
  <2>1. call' = [call EXCEPT ![c] = NoCall] /\ UNCHANGED entry
    BY <1>5 DEF rank_pasted_coffees
  <2>. QED BY <1>0, <2>1, EvictsNoMore DEF NoCall
<1>6. ASSUME NEW p \in Page, PageExpires(p) PROVE EvictedExpired' /\ PagesLast
  BY <1>0, <1>6 DEF PageExpires, EvictedExpired, Evicting, PagesLast
<1>7. ASSUME NEW m \in Member, post_ai_equipment(m) \/ generate_preference_profile_prose(m)
                               \/ NewSignature(m)
      PROVE  UNCHANGED <<entry, call>>
  BY <1>7 DEF post_ai_equipment, generate_equipment_rec, generate_preference_profile_prose,
              NewSignature
<1>8. TellStep(Member) => EvictedExpired' /\ PagesLast
  BY <1>1, <1>4, <1>5, <1>7 DEF TellStep
<1>9. TimeStep(Member, Topic \cap Page) => EvictedExpired' /\ PagesLast
  BY <1>1, <1>6 DEF TimeStep, DayPasses, PredictionExpires
<1>. QED
  BY <1>1, <1>2, <1>3, <1>8, <1>9
  DEF ServerNext, Boot, ResearchNext, serverVars, researchVars

\* Whatever streams, refusals, failures and disconnects overlap: a researched page
\* leaves the cache only by expiring, for any pages, members and calls.
THEOREM PagesAreKept == ResearchSpec => PagesStay
<1>. DEFINE LateKept == Quoted /\ StoredTyped /\ EvictedExpired
<1>1. UpkeepInit /\ ResearchInit => LateKept
  BY MeteringStart, RestStart DEF ResearchInit, EvictedExpired, Evicting, NoCall
<1>2. LateKept /\ [ServerNext]_serverVars => LateKept' BY StepOk, RestNext, PagesStep
<1>3. LateKept /\ [ServerNext]_serverVars => PagesLast BY PagesStep
<1>. QED BY <1>1, <1>2, <1>3, PTL DEF ResearchSpec, PagesStay, PagesLast, serverVars

-----------------------------------------------------------------------------
(* The stopped loop. *)

UnclosedPcs == {"stream", "ended", "refused"}
HolderPhase == \A c \in Call : call[c].evicted => call[c].pc \in UnclosedPcs

\* A request that deletes nothing more, or that goes on to hold what it deleted.
LEMMA HolderKeeps ==
  ASSUME CallsTyped, HolderPhase, NEW c \in Call, NEW v, call' = [call EXCEPT ![c] = v],
         v.evicted => v.pc \in UnclosedPcs
  PROVE  HolderPhase'
  BY DEF CallsTyped, HolderPhase

LEMMA HolderStream ==
  ASSUME CallsTyped, HolderPhase, NEW c \in Call, StreamStep(c, Member, Topic)
  PROVE  HolderPhase'
<1>1. CASE UNCHANGED call BY <1>1 DEF HolderPhase
<1>2. ASSUME NEW m \in Member, NEW t \in Topic, Ask(c, m, t) PROVE HolderPhase'
  <2>. DEFINE v == [NoCall EXCEPT !.pc = "asked", !.who = {m}, !.topic = {t}]
  <2>1. call' = [call EXCEPT ![c] = v] /\ ~ v.evicted BY <1>2 DEF Ask, NoCall
  <2>. HIDE DEF v
  <2>. QED BY <2>1, HolderKeeps
<1>3. CASE CacheHit(c) \/ CloseAnswer(c) \/ NotParsed(c)
  <2>1. call' = [call EXCEPT ![c] = NoCall] BY <1>3 DEF CacheHit, CloseAnswer, NotParsed
  <2>. QED BY <2>1, HolderKeeps DEF NoCall
<1>4. CASE generate_brew_improvement(c) \/ ProviderError(c)
  <2>. DEFINE v == [call[c] EXCEPT !.pc = "ended"]
  <2>1. call' = [call EXCEPT ![c] = v] BY <1>4 DEF generate_brew_improvement, ProviderError
  <2>2. v.pc \in UnclosedPcs BY DEF CallsTyped, CallTyped, UnclosedPcs
  <2>. HIDE DEF v
  <2>. QED BY <2>1, <2>2, HolderKeeps
<1>5. CASE LockedOut(c)
  <2>. DEFINE v == [call[c] EXCEPT !.pc = "refused", !.evicted = Evicts(c)]
  <2>1. call' = [call EXCEPT ![c] = v] BY <1>5 DEF LockedOut
  <2>2. v.pc \in UnclosedPcs BY DEF CallsTyped, CallTyped, UnclosedPcs
  <2>. HIDE DEF v
  <2>. QED BY <2>1, <2>2, HolderKeeps
<1>6. CASE StartStream(c)
  <2>1. PICK t : call' = [call EXCEPT ![c].pc = "stream", ![c].cap = t,
                                      ![c].evicted = Evicts(c)]
    BY <1>6 DEF StartStream
  <2>. DEFINE v == [call[c] EXCEPT !.pc = "stream", !.cap = t, !.evicted = Evicts(c)]
  <2>2. call' = [call EXCEPT ![c] = v] BY <2>1 DEF CallsTyped
  <2>3. v.pc \in UnclosedPcs BY DEF CallsTyped, CallTyped, UnclosedPcs
  <2>. HIDE DEF v
  <2>. QED BY <2>2, <2>3, HolderKeeps
<1>7. CASE generate_coffee_research(c)
  <2>. DEFINE v == [call[c] EXCEPT !.pc = "ended", !.evicted = FALSE]
  <2>1. call' = [call EXCEPT ![c] = v] BY <1>7 DEF generate_coffee_research, CallsTyped
  <2>2. v.pc \in UnclosedPcs BY DEF CallsTyped, CallTyped, UnclosedPcs
  <2>. HIDE DEF v
  <2>. QED BY <2>1, <2>2, HolderKeeps
<1>8. get_cached_research(c) \/ _write_cache_row(c) => UNCHANGED call
  BY DEF get_cached_research, _write_cache_row
<1>. QED
  BY <1>1, <1>2, <1>3, <1>4, <1>5, <1>6, <1>7, <1>8
  DEF StreamStep, post_ai_improve_brew, post_ai_research

LEMMA HolderStep == ASSUME CallsTyped, HolderPhase, [ServerNext]_serverVars PROVE HolderPhase'
<1>1. CASE UNCHANGED call BY <1>1 DEF HolderPhase
<1>2. CASE Kill BY <1>2 DEF Kill, HolderPhase, NoCall
<1>3. ASSUME NEW c \in Call, StreamStep(c, Member, Topic) PROVE HolderPhase'
  BY <1>3, HolderStream
<1>4. ASSUME NEW c \in Call, NEW m \in Member, post_ai_paste_rank(c, m) PROVE HolderPhase'
  <2>. DEFINE v == [NoCall EXCEPT !.pc = "fetch", !.who = {m}, !.topic = {"paste"}]
  <2>1. call' = [call EXCEPT ![c] = v] /\ ~ v.evicted BY <1>4 DEF post_ai_paste_rank, NoCall
  <2>. HIDE DEF v
  <2>. QED BY <2>1, HolderKeeps
<1>5. ASSUME NEW c \in Call, rank_pasted_coffees(c) PROVE HolderPhase'
  <2>1. call' = [call EXCEPT ![c] = NoCall] BY <1>5 DEF rank_pasted_coffees
  <2>. QED BY <2>1, HolderKeeps DEF NoCall
<1>6. ASSUME NEW m \in Member, post_ai_equipment(m) \/ generate_preference_profile_prose(m)
                               \/ NewSignature(m)
      PROVE  UNCHANGED call
  BY <1>6 DEF post_ai_equipment, generate_equipment_rec, generate_preference_profile_prose,
              NewSignature
<1>7. TellStep(Member) => HolderPhase' BY <1>1, <1>4, <1>5, <1>6 DEF TellStep
<1>8. TimeStep(Member, Topic \cap Page) => UNCHANGED call
  BY DEF TimeStep, DayPasses, PageExpires, PredictionExpires
<1>. QED
  BY <1>1, <1>2, <1>3, <1>7, <1>8
  DEF ServerNext, Boot, ResearchNext, serverVars, researchVars

Stands ==
  /\ frozen' /\ call' = call
  /\ \A p \in Page : entry'[p] # entry[p] => entry[p] = "live" /\ entry'[p] = "expired"

\* Every step of a request needs the loop, which is stopped.
LEMMA FrozenStep ==
  ASSUME StoredTyped, frozen, ~ Kill, [ServerNext]_serverVars PROVE Stands
<1>1. ASSUME UNCHANGED <<entry, call, frozen>> PROVE Stands BY <1>1 DEF Stands
<1>2. ASSUME NEW c \in Call, StreamStep(c, Member, Topic) PROVE FALSE
  BY <1>2
  DEF StreamStep, post_ai_improve_brew, post_ai_research, Ask, CacheHit, get_cached_research,
      LockedOut, StartStream, Admitted, _write_cache_row, generate_coffee_research,
      generate_brew_improvement, NotParsed, ProviderError, CloseAnswer, Serving
<1>3. TellStep(Member) => UNCHANGED <<entry, call, frozen>>
  BY DEF TellStep, post_ai_equipment, generate_equipment_rec, NewSignature, Serving,
         generate_preference_profile_prose, post_ai_paste_rank, rank_pasted_coffees
<1>4. ASSUME NEW p \in Page, PageExpires(p) PROVE Stands
  BY <1>4 DEF PageExpires, Stands, StoredTyped
<1>5. ASSUME NEW m \in Member, NEW k, DayPasses(m, k) PROVE Stands
  BY <1>1, <1>5 DEF DayPasses
<1>6. ASSUME NEW m \in Member, NEW p \in Page, PredictionExpires(m, p) PROVE Stands
  BY <1>1, <1>6 DEF PredictionExpires
<1>7. TimeStep(Member, Topic \cap Page) => Stands BY <1>4, <1>5, <1>6 DEF TimeStep
<1>. QED
  BY <1>1, <1>2, <1>3, <1>7 DEF ServerNext, Boot, ResearchNext, serverVars, researchVars

\* What stops the loop finds a page that another request has deleted.
LEMMA FreezeStep ==
  ASSUME StoredTyped, ~ frozen, frozen', [ServerNext]_serverVars
  PROVE  call' = call /\ \E d \in Call : call[d].evicted
<1>1. ~ UNCHANGED frozen OBVIOUS
<1>2. ~ Kill BY DEF Kill
<1>3. ASSUME NEW c \in Call, StreamStep(c, Member, Topic)
      PROVE  get_cached_research(c) \/ _write_cache_row(c)
  BY <1>1, <1>3
  DEF StreamStep, post_ai_improve_brew, post_ai_research, Ask, CacheHit, LockedOut,
      StartStream, generate_coffee_research, generate_brew_improvement, NotParsed,
      ProviderError, CloseAnswer
<1>4. ~ TellStep(Member)
  BY <1>1 DEF TellStep, post_ai_equipment, generate_equipment_rec, NewSignature,
              generate_preference_profile_prose, post_ai_paste_rank, rank_pasted_coffees
<1>5. ~ TimeStep(Member, Topic \cap Page)
  BY <1>1 DEF TimeStep, DayPasses, PageExpires, PredictionExpires
<1>6. PICK c \in Call : get_cached_research(c) \/ _write_cache_row(c)
  BY <1>1, <1>2, <1>3, <1>4, <1>5
  DEF ServerNext, Boot, ResearchNext, serverVars, researchVars
<1>. QED BY <1>6 DEF get_cached_research, Deleted, _write_cache_row, DeletedBeside

\* The lookup that stops the server waits for a request of that server, and goes
\* on waiting until the process dies, for any pages, members and calls.
THEOREM FrozenUntilRestart == ResearchSpec => []FrozenByEviction /\ FrozenForGood
<1>. DEFINE Inv == Quoted /\ StoredTyped /\ HolderPhase /\ FrozenByEviction
<1>1. UpkeepInit /\ ResearchInit => Inv
  BY MeteringStart, RestStart DEF ResearchInit, HolderPhase, FrozenByEviction, NoCall
<1>2. Inv /\ [ServerNext]_serverVars => Inv'
  <2>. SUFFICES ASSUME Inv, [ServerNext]_serverVars PROVE FrozenByEviction'
    BY StepOk, RestNext, HolderStep DEF Quoted
  <2>1. CASE frozen /\ ~ Kill BY <2>1, FrozenStep DEF Stands, FrozenByEviction
  <2>2. CASE Kill BY <2>2 DEF Kill, FrozenByEviction
  <2>3. CASE ~ frozen BY <2>3, FreezeStep DEF HolderPhase, UnclosedPcs, FrozenByEviction
  <2>. QED BY <2>1, <2>2, <2>3
<1>3. Inv /\ [ServerNext]_serverVars => (frozen /\ ~ Kill => Stands) BY FrozenStep
<1>. QED
  BY <1>1, <1>2, <1>3, PTL DEF ResearchSpec, FrozenForGood, Stands, serverVars

-----------------------------------------------------------------------------
(* The quota is a meter.  Below, what a step does to the streams under way is
   said of Spending, and Meter is opened once, at the end. *)

\* A stream is the only one of its member and flow.
LEMMA OneSpends ==
  ASSUME Quoted, NEW c \in Call, Streams(c)
  PROVE  /\ Who(c) \in Member /\ Bucket(c) \in Metered
         /\ Spending[Who(c)][Bucket(c)] = {call[c].cap}
<1>1. Placed(c) /\ Within(c) BY DEF Quoted, Metering, Streams
<1>2. Who(c) \in Member /\ Bucket(c) \in Metered BY <1>1, Owner
<1>3. {d \in Call : At(d, "stream") /\ Who(d) = Who(c) /\ Bucket(d) = Bucket(c)} = {c}
  BY <1>1 DEF Within, Streams, At
<1>. QED BY <1>2, <1>3 DEF Spending

\* Where no other request moves, the streams of the others are what they were.
LEMMA OthersSpend ==
  ASSUME CallsTyped, NEW c \in Call, NEW v, call' = [call EXCEPT ![c] = v],
         NEW m \in Member, NEW k \in Metered,
         Streams(c) => Who(c) # m \/ Bucket(c) # k,
         Streams(c)' => Who(c)' # m \/ Bucket(c)' # k
  PROVE  Spending'[m][k] = Spending[m][k]
<1>. DEFINE S == {d \in Call : At(d, "stream") /\ Who(d) = m /\ Bucket(d) = k}
<1>1. \A d \in Call \ {c} : /\ call'[d] = call[d] /\ At(d, "stream")' = At(d, "stream")
                            /\ Who(d)' = Who(d) /\ Bucket(d)' = Bucket(d)
  BY Others DEF Streams, At
<1>2. c \notin S /\ c \notin S' BY DEF Streams, At
<1>3. S' = S /\ \A d \in S : call'[d].cap = call[d].cap BY <1>1, <1>2
<1>4. Spending[m][k] = {call[d].cap : d \in S} /\ Spending'[m][k] = {call'[d].cap : d \in S'}
  BY DEF Spending
<1>. HIDE DEF S
<1>. QED BY <1>3, <1>4

SpendingTyped == Spending = [m \in Member |-> [k \in Metered |-> Spending[m][k]]]
LEMMA SpendingShape ==
  /\ SpendingTyped
  /\ Spending' = [m \in Member |-> [k \in Metered |-> Spending'[m][k]]]
  BY DEF Spending, SpendingTyped

\* A request that is no stream before or after.
LEMMA SpendsAside ==
  ASSUME CallsTyped, NEW c \in Call, NEW v, call' = [call EXCEPT ![c] = v],
         ~ Streams(c), v.pc # "stream"
  PROVE  Spending' = Spending
<1>1. ~ Streams(c)' BY DEF CallsTyped, Streams
<1>2. \A m \in Member, k \in Metered : Spending'[m][k] = Spending[m][k]
  BY <1>1, OthersSpend
<1>. QED BY <1>2, SpendingShape DEF SpendingTyped

\* A stream ends.
LEMMA SpendsNoMore ==
  ASSUME Quoted, NEW c \in Call, Streams(c), NEW v, call' = [call EXCEPT ![c] = v],
         v.pc # "stream"
  PROVE  Spending' = [Spending EXCEPT ![Who(c)][Bucket(c)] = {}]
<1>0. CallsTyped BY DEF Quoted
<1>1. ~ Streams(c)' BY <1>0 DEF CallsTyped, Streams
<1>2. \A m \in Member, k \in Metered :
        m # Who(c) \/ k # Bucket(c) => Spending'[m][k] = Spending[m][k]
  BY <1>0, <1>1, OthersSpend
<1>3. Who(c) \in Member /\ Bucket(c) \in Metered BY OneSpends
<1>4. Spending'[Who(c)][Bucket(c)] = {}
  <2>. DEFINE m == Who(c)
              k == Bucket(c)
  <2>1. \A d \in Call \ {c} : /\ At(d, "stream")' = At(d, "stream")
                              /\ Who(d)' = Who(d) /\ Bucket(d)' = Bucket(d)
    BY <1>0, Others DEF Streams, At
  <2>2. \A d \in Call \ {c} : ~ (At(d, "stream") /\ Who(d) = m /\ Bucket(d) = k)
    BY DEF Quoted, Metering, Streams, Within, At
  <2>3. \A d \in Call : ~ (At(d, "stream")' /\ Who(d)' = m /\ Bucket(d)' = k)
    BY <1>1, <2>1, <2>2 DEF Streams, At
  <2>4. m \in Member /\ k \in Metered BY <1>3
  <2>. HIDE DEF m, k
  <2>5. Spending'[m][k] = {}
    BY <2>3, <2>4 DEF Spending
  <2>. QED BY <2>5 DEF m, k
<1>. QED BY <1>2, <1>3, <1>4, SpendingShape DEF SpendingTyped

\* A stream begins where there was none.
LEMMA SpendsFirst ==
  ASSUME Quoted, NEW c \in Call, StartStream(c)
  PROVE  \E m \in Member, k \in Metered : \E t \in cache[k] :
           /\ Spending[m][k] = {} /\ counted[m][k] < t
           /\ Spending' = [Spending EXCEPT ![m][k] = {t}]
<1>0. CallsTyped /\ CallsTyped' /\ Quoted BY StartOk DEF Quoted
<1>1. At(c, "asked") /\ Placed(c) BY DEF StartStream, Admitted, At, Quoted, Metering
<1>2. PICK m \in Member, k \in Metered : m = Who(c) /\ k = Bucket(c) BY <1>1, Owner
<1>3. PICK t \in cache[k] :
        call' = [call EXCEPT ![c].pc = "stream", ![c].cap = t, ![c].evicted = Evicts(c)]
  BY <1>2 DEF StartStream, get_quota_cap, _get
<1>4. counted[m][k] < t
  <2>1. PICK s \in cache[k] : s - counted[m][k] > 0
    BY <1>2 DEF StartStream, Admitted, HasQuota, remaining, get_quota_cap, _get
  <2>2. k \in Key BY CapsAreNumbers
  <2>3. s = t /\ t \in Nat BY <2>2, CapsAreNumbers DEF Quoted, CapsTyped, Cap
  <2>4. counted[m][k] \in Nat BY DEF Quoted, CountsTyped
  <2>. QED BY <2>1, <2>3, <2>4
<1>. DEFINE v == [call[c] EXCEPT !.pc = "stream", !.cap = t, !.evicted = Evicts(c)]
<1>5. call' = [call EXCEPT ![c] = v] /\ call'[c] = v BY <1>0, <1>3 DEF CallsTyped
<1>6. v.pc = "stream" /\ v.cap = t /\ v.who = call[c].who /\ v.topic = call[c].topic
  BY <1>0 DEF CallsTyped, CallTyped
<1>. HIDE DEF v
<1>7. Who(c)' = m /\ Bucket(c)' = k /\ Streams(c)'
  <2>1. Who(c)' = Who(c) /\ Of(c)' = Of(c) BY <1>5, <1>6 DEF Who, Of
  <2>. QED BY <1>2, <1>5, <1>6, <2>1 DEF Bucket, Streams
<1>8. \A d \in Call : ~ (At(d, "stream") /\ Who(d) = m /\ Bucket(d) = k)
  BY <1>2 DEF StartStream, Locked, At
<1>9. Spending[m][k] = {} BY <1>8 DEF Spending
<1>10. Spending'[m][k] = {t}
  <2>1. \A d \in Call \ {c} : /\ At(d, "stream")' = At(d, "stream")
                              /\ Who(d)' = Who(d) /\ Bucket(d)' = Bucket(d)
    BY <1>0, <1>5, Others DEF Streams, At
  <2>2. {d \in Call : At(d, "stream")' /\ Who(d)' = m /\ Bucket(d)' = k} = {c}
    BY <1>7, <1>8, <2>1 DEF Streams, At
  <2>. QED BY <1>5, <1>6, <2>2 DEF Spending
<1>11. \A n \in Member, j \in Metered : n # m \/ j # k => Spending'[n][j] = Spending[n][j]
  BY <1>0, <1>1, <1>5, <1>7, OthersSpend DEF Streams, At
<1>12. Spending' = [Spending EXCEPT ![m][k] = {t}]
  BY <1>10, <1>11, SpendingShape DEF SpendingTyped
<1>. QED BY <1>4, <1>9, <1>12

Limits == [k \in Metered |-> cache[k]]
Ledger == <<counted, Spending, Limits>>

\* A step of the meter of one member and flow.
MeterMoves(m, k) ==
  \/ Meter!GiveUp(m, k) \/ Meter!Lapse(m, k)
  \/ \E t \in cache[k] : Meter!Begin(m, k, t)
  \/ \E t \in Spending[m][k] : Meter!Charge(m, k, t)

LEMMA CallMeters ==
  ASSUME Quoted, UNCHANGED cache, NEW c \in Call, StreamStep(c, Member, Topic)
  PROVE  UNCHANGED Ledger \/ \E m \in Member, k \in Metered : MeterMoves(m, k)
<1>0. CallsTyped /\ NoCall.pc = "idle" /\ UNCHANGED Limits
  BY DEF Quoted, NoCall, Limits
<1>1. CASE UNCHANGED <<call, counted>>
  <2>1. Spending' = Spending BY <1>1 DEF Spending, At, Who, Bucket, Of
  <2>. QED BY <1>0, <1>1, <2>1 DEF Ledger
<1>2. ASSUME NEW v, call' = [call EXCEPT ![c] = v], v.pc # "stream", UNCHANGED counted
      PROVE  UNCHANGED Ledger \/ \E m \in Member, k \in Metered : MeterMoves(m, k)
  <2>1. CASE ~ Streams(c)
    <3>1. Spending' = Spending BY <1>0, <1>2, <2>1, SpendsAside
    <3>. QED BY <1>0, <1>2, <3>1 DEF Ledger
  <2>2. CASE Streams(c)
    <3>1. PICK m \in Member, k \in Metered : m = Who(c) /\ k = Bucket(c) BY <2>2, OneSpends
    <3>2. Spending' = [Spending EXCEPT ![m][k] = {}] BY <1>2, <2>2, <3>1, SpendsNoMore
    <3>3. Meter!GiveUp(m, k) BY <1>0, <1>2, <3>2 DEF Meter!GiveUp, Limits
    <3>. QED BY <3>3 DEF MeterMoves
  <2>. QED BY <2>1, <2>2
<1>3. ASSUME NEW m \in Member, NEW t \in Topic, Ask(c, m, t)
      PROVE  UNCHANGED Ledger \/ \E n \in Member, k \in Metered : MeterMoves(n, k)
  <2>. DEFINE v == [NoCall EXCEPT !.pc = "asked", !.who = {m}, !.topic = {t}]
  <2>1. call' = [call EXCEPT ![c] = v] /\ UNCHANGED counted BY <1>3 DEF Ask
  <2>2. v.pc # "stream" BY DEF NoCall
  <2>. HIDE DEF v
  <2>. QED BY <1>2, <2>1, <2>2
<1>4. CASE CacheHit(c) \/ NotParsed(c) \/ CloseAnswer(c)
  BY <1>0, <1>2, <1>4 DEF CacheHit, NotParsed, CloseAnswer
<1>5. CASE LockedOut(c)
  <2>. DEFINE v == [call[c] EXCEPT !.pc = "refused", !.evicted = Evicts(c)]
  <2>1. call' = [call EXCEPT ![c] = v] /\ UNCHANGED counted BY <1>5 DEF LockedOut
  <2>2. v.pc # "stream" BY <1>0 DEF CallsTyped, CallTyped
  <2>. HIDE DEF v
  <2>. QED BY <1>2, <2>1, <2>2
<1>6. CASE ProviderError(c)
  <2>. DEFINE v == [call[c] EXCEPT !.pc = "ended"]
  <2>1. call' = [call EXCEPT ![c] = v] /\ UNCHANGED counted BY <1>6 DEF ProviderError
  <2>2. v.pc # "stream" BY <1>0 DEF CallsTyped, CallTyped
  <2>. HIDE DEF v
  <2>. QED BY <1>2, <2>1, <2>2
<1>7. CASE StartStream(c)
  <2>1. PICK m \in Member, k \in Metered : \E t \in cache[k] :
          /\ Spending[m][k] = {} /\ counted[m][k] < t
          /\ Spending' = [Spending EXCEPT ![m][k] = {t}]
    BY <1>7, SpendsFirst
  <2>2. PICK t \in cache[k] : /\ Spending[m][k] = {} /\ counted[m][k] < t
                              /\ Spending' = [Spending EXCEPT ![m][k] = {t}]
    BY <2>1
  <2>3. Meter!Begin(m, k, t) BY <1>0, <1>7, <2>2 DEF Meter!Begin, Limits, StartStream
  <2>. QED BY <2>3 DEF MeterMoves
<1>8. CASE generate_coffee_research(c) \/ generate_brew_improvement(c)
  <2>1. Streams(c) /\ Count(c)
    BY <1>8 DEF generate_coffee_research, generate_brew_improvement, Streams, At
  <2>2. PICK m \in Member, k \in Metered : m = Who(c) /\ k = Bucket(c) BY <2>1, OneSpends
  <2>3. \E v : call' = [call EXCEPT ![c] = v] /\ v.pc = "ended"
    <3>1. \/ call' = [call EXCEPT ![c] = [call[c] EXCEPT !.pc = "ended", !.evicted = FALSE]]
          \/ call' = [call EXCEPT ![c] = [call[c] EXCEPT !.pc = "ended"]]
      BY <1>8 DEF generate_coffee_research, generate_brew_improvement
    <3>2. /\ [call[c] EXCEPT !.pc = "ended", !.evicted = FALSE].pc = "ended"
          /\ [call[c] EXCEPT !.pc = "ended"].pc = "ended"
      BY <1>0 DEF CallsTyped, CallTyped
    <3>. QED BY <3>1, <3>2
  <2>4. Spending' = [Spending EXCEPT ![m][k] = {}] BY <2>1, <2>2, <2>3, SpendsNoMore
  <2>5. Spending[m][k] = {call[c].cap} /\ counted[m][k] < call[c].cap
    BY <2>1, <2>2, OneSpends DEF Quoted, Metering, Within
  <2>6. counted' = [counted EXCEPT ![m][k] = @ + 1] BY <2>1, <2>2 DEF Count
  <2>7. PICK t : t = call[c].cap OBVIOUS
  <2>8. Meter!Charge(m, k, t) /\ t \in Spending[m][k]
    BY <1>0, <2>4, <2>5, <2>6, <2>7 DEF Meter!Charge, Limits
  <2>. QED BY <2>8 DEF MeterMoves
<1>9. get_cached_research(c) \/ _write_cache_row(c) => UNCHANGED <<call, counted>>
  BY DEF get_cached_research, _write_cache_row
<1>. QED
  BY <1>1, <1>3, <1>4, <1>5, <1>6, <1>7, <1>8, <1>9
  DEF StreamStep, post_ai_improve_brew, post_ai_research

\* The other requests and the days.
LEMMA RestMeters ==
  ASSUME Quoted, UNCHANGED cache, TellStep(Member) \/ TimeStep(Member, Topic \cap Page)
  PROVE  UNCHANGED Ledger \/ \E m \in Member, k \in Metered : MeterMoves(m, k)
<1>0. CallsTyped /\ UNCHANGED Limits BY DEF Quoted, Limits
<1>1. UNCHANGED call => Spending' = Spending
  BY DEF Spending, At, Who, Bucket, Of
<1>2. CASE UNCHANGED <<call, counted>> BY <1>0, <1>1, <1>2 DEF Ledger
<1>3. ASSUME NEW m \in Member, NEW k \in Metered, DayPasses(m, k)
      PROVE  Meter!Lapse(m, k)
  BY <1>0, <1>1, <1>3 DEF DayPasses, Meter!Lapse, Limits
<1>4. ASSUME NEW c \in Call, NEW m \in Member, post_ai_paste_rank(c, m) PROVE UNCHANGED Ledger
  <2>. DEFINE v == [NoCall EXCEPT !.pc = "fetch", !.who = {m}, !.topic = {"paste"}]
  <2>1. call' = [call EXCEPT ![c] = v] /\ UNCHANGED counted /\ ~ Streams(c)
    BY <1>4 DEF post_ai_paste_rank, At, Streams
  <2>2. v.pc # "stream" BY DEF NoCall
  <2>. HIDE DEF v
  <2>3. Spending' = Spending BY <1>0, <2>1, <2>2, SpendsAside
  <2>. QED BY <1>0, <2>1, <2>3 DEF Ledger
<1>5. ASSUME NEW c \in Call, rank_pasted_coffees(c) PROVE UNCHANGED Ledger
  <2>1. call' = [call EXCEPT ![c] = NoCall] /\ UNCHANGED counted /\ ~ Streams(c)
    BY <1>5 DEF rank_pasted_coffees, At, Streams
  <2>2. NoCall.pc # "stream" BY DEF NoCall
  <2>3. Spending' = Spending BY <1>0, <2>1, <2>2, SpendsAside
  <2>. QED BY <1>0, <2>1, <2>3 DEF Ledger
<1>6. CASE TellStep(Member)
  BY <1>2, <1>4, <1>5, <1>6
  DEF TellStep, post_ai_equipment, generate_equipment_rec, generate_preference_profile_prose,
      NewSignature
<1>7. CASE TimeStep(Member, Topic \cap Page)
  BY <1>2, <1>3, <1>7 DEF TimeStep, PageExpires, PredictionExpires, MeterMoves
<1>. QED BY <1>6, <1>7

\* Every step of the server is one of the meters or leaves them alone.
LEMMA ServerMeters ==
  ASSUME Quoted, [ServerNext]_serverVars
  PROVE  \/ UNCHANGED Ledger \/ Meter!Reset \/ Meter!Crash
         \/ \E m \in Member, k \in Metered : MeterMoves(m, k)
<1>1. CASE UNCHANGED researchVars
  <2>1. UNCHANGED <<counted, Spending>>
    BY <1>1 DEF researchVars, Spending, At, Who, Bucket, Of
  <2>2. Limits' \in [Metered -> SUBSET Nat]
    <3>1. CapsTyped' BY StepOk DEF Quoted
    <3>. QED BY <3>1, CapsAreNumbers DEF CapsTyped, Cap, Limits
  <2>. QED BY <2>1, <2>2 DEF Meter!Reset, Limits
<1>2. CASE Kill
  <2>1. cache' = [k \in Key |-> {}] /\ call' = [c \in Call |-> NoCall] /\ UNCHANGED counted
    BY <1>2 DEF Kill, Stop
  <2>2. Spending' = [m \in Member |-> [k \in Metered |-> {}]]
    BY <2>1 DEF Spending, At, NoCall
  <2>3. Limits' = [k \in Metered |-> {}] BY <2>1, CapsAreNumbers DEF Limits
  <2>. QED BY <2>1, <2>2, <2>3 DEF Meter!Crash, Limits
<1>3. CASE ResearchNext(Member, Topic) /\ UNCHANGED upkeepVars
  <2>1. UNCHANGED cache BY <1>3 DEF upkeepVars, settingVars
  <2>. QED BY <1>3, <2>1, CallMeters, RestMeters DEF ResearchNext
<1>. QED BY <1>1, <1>2, <1>3 DEF ServerNext, Boot, serverVars

\* The server, its crashes and its admins included, spends no other way than by
\* the meters: for any members, calls, caps and edits of them, a member has one
\* call under way in each flow, begun below the cap then cached and counted
\* within it.  (Code: ai_quota, the locks of ai_research and ai_improve.)
THEOREM QuotaIsAMeter == ResearchSpec => MetersKept
<1>1. UpkeepInit /\ ResearchInit => Quoted BY MeteringStart
<1>2. UpkeepInit /\ ResearchInit => Meter!Init
  <2>. SUFFICES ASSUME UpkeepInit, ResearchInit PROVE Meter!Init OBVIOUS
  <2>1. Spending = [m \in Member |-> [k \in Metered |-> {}]]
    BY DEF ResearchInit, Spending, At, NoCall
  <2>2. Limits = [k \in Metered |-> {}] BY CapsAreNumbers DEF UpkeepInit, Limits
  <2>. QED BY <2>1, <2>2 DEF ResearchInit, Meter!Init, Limits
<1>3. Quoted /\ [ServerNext]_serverVars => Quoted' BY StepOk
<1>4. ASSUME Quoted, [ServerNext]_serverVars
      PROVE  [Meter!Next]_<<counted, Spending, [k \in Metered |-> cache[k]]>>
  <2>1. ASSUME NEW m \in Member, NEW k \in Metered, MeterMoves(m, k) PROVE Meter!Next
    <3>1. cache[k] = [j \in Metered |-> cache[j]][k] OBVIOUS
    <3>. QED BY <2>1, <3>1 DEF MeterMoves, Meter!Next
  <2>2. Meter!Reset \/ Meter!Crash => Meter!Next BY DEF Meter!Next
  <2>. QED BY <1>4, <2>1, <2>2, ServerMeters DEF Ledger, Limits
<1>. QED
  BY <1>1, <1>2, <1>3, <1>4, PTL DEF ResearchSpec, MetersKept, Meter!Spec, serverVars
=============================================================================
