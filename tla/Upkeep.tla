------------------------------- MODULE Upkeep -------------------------------
(***************************************************************************)
(* Boot, settings, provider keys and backups of the one server process.    *)
(*                                                                         *)
(* The lifespan checks the encryption keys, rewraps the provider keys in   *)
(* one transaction, reads every setting into memory and starts the         *)
(* scheduler.  An admin edits settings and provider keys while it serves;  *)
(* the operator changes APP_ENCRYPTION_KEY while it is down.  Backups run  *)
(* in the thread pool: the nightly job, and runs an admin asks for, write  *)
(* the same two files of a day.  A crash may fall anywhere; memory goes,   *)
(* rows and files stay.                                                    *)
(*                                                                         *)
(* "Nothing" is the empty set: an entry that is not cached, a key that is  *)
(* not set, a status never written.                                        *)
(***************************************************************************)
EXTENDS Integers, FiniteSets

CONSTANTS Key,          \* editable app_settings keys
          Text,         \* stored values
          Fault,        \* the values that do not parse as their key's value_type
          EncKey,       \* Fernet keys
          Provider,
          Run,          \* backups that may run together
          MaxDay, Retention

ASSUME FaultsAreTexts == Fault \subseteq Text
ASSUME DaysAreNumbers == MaxDay \in Nat \ {0} /\ Retention \in Nat

VARIABLES
  up,         \* where the process is
  row,        \* app_settings.value of each key
  cache,      \* settings._cache
  popping,    \* keys whose UPDATE is committed and whose entry is not popped yet
  ring,       \* APP_ENCRYPTION_KEY: the primary and the others
  cred,       \* api_credentials: the key the ciphertext is under, is_enabled
  fp,         \* the encryption_key_primary_fingerprint row
  cachedFp,   \* its cache entry
  day, file, run, status,
  runs        \* history: backups begun on each day, 2 standing for more

settingVars == <<row, cache, popping>>
keyVars == <<ring, cred, fp, cachedFp>>
backupVars == <<day, file, run, status, runs>>
upkeepVars == <<up, settingVars, keyVars, backupVars>>

Day == 1..MaxDay
Kind == {"db", "photos"}
AtMostOne(S) == {s \in SUBSET S : Cardinality(s) <= 1}
Ring == ring.first \cup ring.rest
NoRun == [pc |-> "idle", day |-> 1, ok |-> TRUE]
NoRuns == [r \in Run |-> NoRun]

UpkeepTypeOK ==
  /\ up \in {"down", "rewrap", "prewarm", "up"}
  /\ row \in [Key -> Text] /\ cache \in [Key -> AtMostOne(Text)] /\ popping \subseteq Key
  /\ ring \in [first: AtMostOne(EncKey), rest: SUBSET EncKey]
  /\ cred \in [Provider -> [key: AtMostOne(EncKey), on: BOOLEAN]]
  /\ fp \in AtMostOne(EncKey) /\ cachedFp \in AtMostOne(AtMostOne(EncKey))
  /\ day \in Day
  /\ file \in [Kind \X Day -> {"none", "partial", "whole"}]
  /\ run \in [Run -> [pc: {"idle", "dump", "tar", "prune", "status"}, day: Day, ok: BOOLEAN]]
  /\ status \in AtMostOne([day: Day, ok: BOOLEAN])
  /\ runs \in [Day -> 0..2]

\* A migrated database: the seeded settings parse, no provider has a key.
UpkeepInit ==
  /\ up = "down"
  /\ row \in [Key -> Text \ Fault] /\ cache = [k \in Key |-> {}] /\ popping = {}
  /\ ring \in [first: {{e} : e \in EncKey}, rest: {{}}]
  /\ cred = [p \in Provider |-> [key |-> {}, on |-> FALSE]]
  /\ fp = {} /\ cachedFp = {}
  /\ day = 1 /\ file = [f \in Kind \X Day |-> "none"]
  /\ run = NoRuns /\ status = {} /\ runs = [d \in Day |-> 0]

-----------------------------------------------------------------------------
(* Boot. *)

\* An empty or malformed key list fails the import or the round trip.
startup_check ==
  /\ up = "down" /\ ring.first # {}
  /\ up' = "rewrap"
  /\ UNCHANGED <<settingVars, keyVars, backupVars>>

\* Mutant: the fingerprint is read from its row.
StoredInRow == fp
\* settings.get_str(fingerprint), where an entry that is not cached and a null
\* row both count as none.  A fresh process has nothing cached.
StoredFingerprint == UNION cachedFp

\* A credential as the rewrap leaves it.
Rewrapped(c) ==
  IF c.key # {} /\ c.key \subseteq Ring THEN [c EXCEPT !.key = ring.first] ELSE c

rewrap_if_needed ==
  /\ up = "rewrap" /\ up' = "prewarm"
  /\ IF \/ StoredFingerprint = ring.first
        \/ StoredFingerprint = {} /\ \A p \in Provider : cred[p].key = {}
     THEN UNCHANGED keyVars
     ELSE /\ cred' = [p \in Provider |-> Rewrapped(cred[p])]
          /\ fp' = ring.first /\ cachedFp' = {}
          /\ UNCHANGED ring
  /\ UNCHANGED <<settingVars, backupVars>>

\* One value that does not parse ends the boot.
prewarm_cache ==
  /\ up = "prewarm"
  /\ IF \E k \in Key : row[k] \in Fault
     THEN up' = "down" /\ UNCHANGED <<cache, cachedFp>>
     ELSE /\ up' = "up"
          /\ cache' = [k \in Key |-> {row[k]}]
          /\ cachedFp' = {fp}
  /\ UNCHANGED <<row, popping, ring, cred, fp, backupVars>>

\* The process is stopped or dies, at any point.
Stop ==
  /\ up # "down" /\ up' = "down"
  /\ cache' = [k \in Key |-> {}] /\ cachedFp' = {} /\ popping' = {}
  /\ run' = NoRuns
  /\ UNCHANGED <<row, ring, cred, fp, day, file, status, runs>>

\* The operator edits APP_ENCRYPTION_KEY.
Reconfigure ==
  /\ up = "down"
  /\ ring' \in [first: AtMostOne(EncKey), rest: SUBSET EncKey]
  /\ UNCHANGED <<up, settingVars, cred, fp, cachedFp, backupVars>>

BootNext == startup_check \/ rewrap_if_needed \/ prewarm_cache \/ Stop

-----------------------------------------------------------------------------
(* Settings. *)

\* The typed accessors: what is not cached raises SettingNotFoundError.
_get(k) == cache[k]

\* The editor stores any text for an editable key; the entry is popped after
\* the commit, and nothing fills it again before the next boot.
set_setting(k, t) ==
  /\ up = "up" /\ popping = {}
  /\ row' = [row EXCEPT ![k] = t]
  /\ popping' = {k}
  /\ UNCHANGED <<up, cache, keyVars, backupVars>>

\* Mutant: the entry is left.
PopNothing ==
  /\ popping # {}
  /\ popping' = {}
  /\ UNCHANGED <<up, row, cache, keyVars, backupVars>>

PopEntry ==
  /\ popping # {}
  /\ cache' = [k \in Key |-> IF k \in popping THEN {} ELSE cache[k]]
  /\ popping' = {}
  /\ UNCHANGED <<up, row, keyVars, backupVars>>

save_setting(k) == \E t \in Text : set_setting(k, t)

SettingsNext == PopEntry \/ \E k \in Key : save_setting(k)

-----------------------------------------------------------------------------
(* Provider keys. *)

\* A disabled provider, a missing key and a ciphertext that no key of the ring
\* opens are all "not configured".
get_provider_credential(p) ==
  cred[p].on /\ cred[p].key # {} /\ cred[p].key \subseteq Ring

\* With a key; a model name alone changes nothing that is modelled here.
set_provider_credential(p) ==
  /\ up = "up"
  /\ cred' = [cred EXCEPT ![p] = [key |-> ring.first, on |-> TRUE]]
  /\ fp' = ring.first /\ cachedFp' = {}
  /\ UNCHANGED <<up, settingVars, ring, backupVars>>

set_provider_enabled(p, b) ==
  /\ up = "up"
  /\ cred' = [cred EXCEPT ![p].on = b]
  /\ UNCHANGED <<up, settingVars, ring, fp, cachedFp, backupVars>>

KeysNext ==
  \/ Reconfigure
  \/ \E p \in Provider : set_provider_credential(p) \/ \E b \in BOOLEAN : set_provider_enabled(p, b)

-----------------------------------------------------------------------------
(* Backups. *)

NextDay ==
  /\ day < MaxDay /\ day' = day + 1
  /\ UNCHANGED <<up, settingVars, keyVars, file, run, status, runs>>

\* The nightly job or the admin's button: each in a thread of its own, with no
\* lock between them.  The day is read once.  pg_dump opens its file when it has connected.
run_backup(r) ==
  /\ up = "up" /\ run[r].pc = "idle"
  /\ run' = [run EXCEPT ![r] = [pc |-> "dump", day |-> day, ok |-> TRUE]]
  /\ runs' = [runs EXCEPT ![day] = IF @ < 2 THEN @ + 1 ELSE 2]
  /\ file' \in {file, [file EXCEPT ![<<"db", day>>] = "partial"]}
  /\ UNCHANGED <<up, settingVars, keyVars, day, status>>

Alone(r, pc) == \A q \in Run \ {r} : ~ (run[q].pc = pc /\ run[q].day = run[r].day)

\* What a writer that succeeded leaves: the whole file, unless another one is
\* writing it too.
Written(r, pc) == IF Alone(r, pc) THEN {"whole"} ELSE {"partial", "whole"}

\* The dump ends, well or not, and the tarball is opened.
_run_pg_dump(r) ==
  LET d == run[r].day IN
  /\ run[r].pc = "dump"
  /\ \/ /\ \E w \in Written(r, "dump") :
             file' = [file EXCEPT ![<<"db", d>>] = w, ![<<"photos", d>>] = "partial"]
        /\ run' = [run EXCEPT ![r].pc = "tar"]
     \/ /\ file' = [file EXCEPT ![<<"photos", d>>] = "partial"]
        /\ run' = [run EXCEPT ![r].pc = "tar", ![r].ok = FALSE]
  /\ UNCHANGED <<up, settingVars, keyVars, day, status, runs>>

\* Mutant: a failed tarball does not count.
TarFailureIgnored(r) ==
  /\ run[r].pc = "tar"
  /\ \/ \E w \in Written(r, "tar") : file' = [file EXCEPT ![<<"photos", run[r].day>>] = w]
     \/ file' = file
  /\ run' = [run EXCEPT ![r].pc = "prune"]
  /\ UNCHANGED <<up, settingVars, keyVars, day, status, runs>>

_tar_photos(r) ==
  /\ run[r].pc = "tar"
  /\ \/ /\ \E w \in Written(r, "tar") : file' = [file EXCEPT ![<<"photos", run[r].day>>] = w]
        /\ run' = [run EXCEPT ![r].pc = "prune"]
     \/ /\ file' = file
        /\ run' = [run EXCEPT ![r].pc = "prune", ![r].ok = FALSE]
  /\ UNCHANGED <<up, settingVars, keyVars, day, status, runs>>

\* Mutant: a file is outdated on the last day it should be kept.
OutdatedEarly(today) == {f \in Kind \X Day : file[f] # "none" /\ f[2] <= today - Retention}
Outdated(today) == {f \in Kind \X Day : file[f] # "none" /\ f[2] < today - Retention}

\* A file that cannot be unlinked is logged and stays.
prune_old_backups(r) ==
  /\ run[r].pc = "prune"
  /\ \E gone \in SUBSET Outdated(run[r].day) :
       file' = [f \in Kind \X Day |-> IF f \in gone THEN "none" ELSE file[f]]
  /\ run' = [run EXCEPT ![r].pc = "status"]
  /\ UNCHANGED <<up, settingVars, keyVars, day, status, runs>>

\* Or the UPDATE fails, and the run ends without a status.
write_backup_status(r) ==
  /\ run[r].pc = "status"
  /\ status' \in {status, {[day |-> run[r].day, ok |-> run[r].ok]}}
  /\ run' = [run EXCEPT ![r] = NoRun]
  /\ UNCHANGED <<up, settingVars, keyVars, day, file, runs>>

BackupNext ==
  \/ NextDay
  \/ \E r \in Run : \/ run_backup(r) \/ _run_pg_dump(r) \/ _tar_photos(r)
                    \/ prune_old_backups(r) \/ write_backup_status(r)

UpkeepNext == BootNext \/ SettingsNext \/ KeysNext \/ BackupNext
UpkeepSpec == UpkeepInit /\ [][UpkeepNext]_upkeepVars

-----------------------------------------------------------------------------
\* While the server serves, every provider key that it can open is under the
\* primary key, and the fingerprint row says so: after one start with a new
\* primary the old keys may be dropped, whatever keys were dropped, put back or
\* reordered before and wherever an earlier boot died. (Code:
\* credentials.rewrap_if_needed, set_provider_credential.)
RotationDone ==
  up \in {"prewarm", "up"} =>
    \A p \in Provider : (cred[p].key # {} /\ cred[p].key \subseteq Ring) =>
      cred[p].key = ring.first /\ fp = ring.first

\* A reader never gets a value that is no longer the stored one, except between
\* the commit of an edit and the pop that follows it. (Code: settings.set_setting,
\* prewarm_cache.)
CacheNeverStale ==
  \A k \in Key \ popping : cache[k] \subseteq {row[k]}

\* When the panel says the last backup is fine, both of its files are there and
\* whole, provided no second run has written that day's files: two runs share
\* their names. (Code: backup.run_backup.)
StatusTrue ==
  \A s \in status :
    (s.ok /\ runs[s.day] = 1 /\ day - s.day <= Retention) =>
      \A k \in Kind : file[<<k, s.day>>] = "whole"

\* Pruning takes no file before its days are over, however late a run gets to
\* it. (Code: backup.prune_old_backups.)
PrunedOnlyOld ==
  [][\A f \in Kind \X Day :
       (file[f] # "none" /\ file'[f] = "none") => day - f[2] > Retention]_upkeepVars
=============================================================================
