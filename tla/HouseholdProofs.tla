--------------------------- MODULE HouseholdProofs ---------------------------
(***************************************************************************)
(* What the household runs explore are behaviours of the components.       *)
(*                                                                         *)
(* The runs narrow the inputs to a focus.  Here it is shown that each of   *)
(* their behaviours is one of every component's own specification, so that *)
(* what the runs check and what is proved speak of the same systems, and   *)
(* everything proved of a component holds of the household.                *)
(***************************************************************************)
EXTENDS MCHousehold, CatalogProofs, PhotosProofs, BrewingProofs, ServerProofs

householdVars == <<libraryVars, upkeepVars, researchVars, focus>>

LEMMA OneIsOf == ASSUME NEW S, S # {} PROVE One(S) \subseteq S
  BY DEF One

-----------------------------------------------------------------------------
(* The library. *)

LEMMA CatalogSteps == [HouseholdNext]_householdVars => [CatalogNext]_catalogVars
<1>1. CatalogOn => CatalogNext
  <2>1. One(Client) \subseteq Client BY Populated, OneIsOf
  <2>. QED BY <2>1 DEF CatalogOn, CatalogNext
<1>. QED BY <1>1 DEF HouseholdNext, UpkeepOn, householdVars, libraryVars

LEMMA PhotosSteps == [HouseholdNext]_householdVars => [PhotosNext]_photoVars
  BY DEF HouseholdNext, UpkeepOn, householdVars, libraryVars

LEMMA DraftsSteps == [HouseholdNext]_householdVars => [DraftsNext]_draftVars
  BY DEF HouseholdNext, DraftsOn, UpkeepOn, householdVars, libraryVars

\* Fewer coffees, setups, notes, times and members allow fewer steps.
LEMMA FewerSteps ==
  ASSUME NEW C \in SUBSET Brewed, NEW K \in SUBSET Setups, NEW N \in SUBSET Tasted,
         NEW T \in SUBSET Time, NEW U \in SUBSET User, JournalStep(C, K, N, T, U)
  PROVE  JournalNext
<1>1. \A New : [New -> CsvRow(C, K, N, T)] \subseteq [New -> CsvRow(Brewed, Setups, Tasted, Time)]
  <2>1. CsvRow(C, K, N, T) \subseteq CsvRow(Brewed, Setups, Tasted, Time) BY DEF CsvRow
  <2>. QED BY <2>1
<1>2. SUBSET N \subseteq SUBSET Tasted OBVIOUS
<1>. QED BY <1>1, <1>2 DEF JournalStep, JournalNext

LEMMA JournalSteps == [HouseholdNext]_householdVars => [JournalNext]_journalVars
<1>1. JournalOn => JournalNext
  <2>1. /\ One(Brewed) \subseteq Brewed /\ One(Time) \subseteq Time /\ One(User) \subseteq User
    BY Populated, OneIsOf
  <2>2. Kits \subseteq Setups /\ {Bare} \subseteq Setups BY BareIsSetup DEF Kits
  <2>. QED BY <2>1, <2>2, FewerSteps DEF JournalOn
<1>. QED BY <1>1 DEF HouseholdNext, UpkeepOn, householdVars, libraryVars

-----------------------------------------------------------------------------
(* The server.  Where nothing is researched a stop is one without requests. *)

Unused == focus \notin {"research", "quota"} =>
            call = [c \in Call |-> NoCall] /\ frozen = FALSE

LEMMA UnusedNext == Unused /\ [HouseholdNext]_householdVars => Unused'
<1>. SUFFICES ASSUME Unused, [HouseholdNext]_householdVars PROVE Unused' OBVIOUS
<1>1. CASE UNCHANGED <<researchVars, focus>> BY <1>1 DEF Unused, researchVars
<1>2. CASE focus \in {"research", "quota"} /\ UNCHANGED focus BY <1>2 DEF Unused
<1>. QED
  BY <1>1, <1>2
  DEF HouseholdNext, CatalogOn, JournalOn, DraftsOn, UpkeepOn, On, householdVars

LEMMA ServerKeeps == ASSUME Unused, [HouseholdNext]_householdVars PROVE [ServerNext]_serverVars
<1>1. CASE UNCHANGED <<upkeepVars, researchVars>> BY <1>1 DEF serverVars
<1>2. CASE On("settings") /\ (BootNext \/ SettingsNext) /\ UNCHANGED researchVars
  <2>1. frozen = FALSE BY <1>2 DEF Unused, On
  <2>2. SettingsNext => AdminNext BY <2>1 DEF SettingsNext, AdminNext
  <2>3. BootNext => Boot \/ Kill BY <1>2 DEF BootNext, Boot, Kill, Unused, On, researchVars
  <2>. QED BY <1>2, <2>2, <2>3 DEF ServerNext
<1>3. CASE On("keys") /\ (BootNext \/ KeysNext) /\ UNCHANGED researchVars
  <2>1. frozen = FALSE BY <1>3 DEF Unused, On
  <2>2. KeysNext => AdminNext \/ Reconfigure BY <2>1 DEF KeysNext, AdminNext
  <2>3. BootNext => Boot \/ Kill BY <1>3 DEF BootNext, Boot, Kill, Unused, On, researchVars
  <2>. QED BY <1>3, <2>2, <2>3 DEF ServerNext
<1>4. CASE On("backup") /\ (BootNext \/ BackupNext) /\ UNCHANGED researchVars
  <2>1. BootNext => Boot \/ Kill BY <1>4 DEF BootNext, Boot, Kill, Unused, On, researchVars
  <2>. QED BY <1>4, <2>1 DEF ServerNext
<1>5. ASSUME NEW K \in SUBSET Key, NEW V \in SUBSET Provider, NEW W \in SUBSET Provider,
             AdminStep(K, V, W)
      PROVE  ServerNext
  BY <1>5 DEF AdminStep, EditCap, EnterKey, Toggle, AdminNext, ServerNext
<1>6. One(Provider) \subseteq Provider /\ One(Member) \subseteq Member BY Populated, OneIsOf
<1>7. ASSUME NEW M \in SUBSET Member, NEW T \in SUBSET Topic
      PROVE  /\ \A c \in Call : StreamStep(c, M, T) => StreamStep(c, Member, Topic)
             /\ TellStep(M) => TellStep(Member)
             /\ TimeStep(M, T \cap Page) => TimeStep(Member, Topic \cap Page)
  BY DEF StreamStep, TellStep, TimeStep
<1>8. CASE On("research") /\ \/ Boot \/ Kill \/ AdminStep({}, One(Provider), {})
                             \/ /\ \/ \E c \in Call : StreamStep(c, Member, Page)
                                   \/ TimeStep(Member, Page)
                                /\ UNCHANGED upkeepVars
  <2>1. Page \in SUBSET Topic /\ Page \cap Page = Page BY DEF Topic
  <2>2. (\E c \in Call : StreamStep(c, Member, Page)) \/ TimeStep(Member, Page)
          => ResearchNext(Member, Topic)
    BY <1>7, <2>1 DEF ResearchNext
  <2>. QED BY <1>5, <1>6, <1>8, <2>2 DEF ServerNext
<1>9. CASE On("quota") /\ \/ Boot \/ Kill
                          \/ AdminStep({"improve"}, One(Provider), One(Provider))
                          \/ ResearchNext(One(Member), {"coach"}) /\ UNCHANGED upkeepVars
  <2>1. "improve" \in Key BY CapsAreNumbers DEF Metered
  <2>2. {"coach"} \in SUBSET Topic BY DEF Topic
  <2>3. ResearchNext(One(Member), {"coach"}) => ResearchNext(Member, Topic)
    BY <1>6, <1>7, <2>2 DEF ResearchNext
  <2>. QED BY <1>5, <1>6, <1>9, <2>1, <2>3 DEF ServerNext
<1>. QED BY <1>1, <1>2, <1>3, <1>4, <1>8, <1>9 DEF HouseholdNext, UpkeepOn, householdVars

-----------------------------------------------------------------------------
\* A behaviour of the runs is a behaviour of every component: narrowing the
\* inputs to a focus adds nothing the code does not do.
THEOREM RunsAreComponents ==
  HouseholdSpec => CatalogSpec /\ PhotosSpec /\ JournalSpec /\ DraftsSpec /\ ResearchSpec
<1>1. HouseholdInit => /\ CatalogInit /\ PhotosInit /\ JournalInit /\ DraftsInit
                       /\ UpkeepInit /\ ResearchInit /\ Unused
  BY DEF HouseholdInit, ResearchInit, Unused
<1>2. [HouseholdNext]_householdVars => /\ [CatalogNext]_catalogVars /\ [PhotosNext]_photoVars
                                       /\ [JournalNext]_journalVars /\ [DraftsNext]_draftVars
  BY CatalogSteps, PhotosSteps, JournalSteps, DraftsSteps
<1>3. Unused /\ [HouseholdNext]_householdVars => Unused' /\ [ServerNext]_serverVars
  BY UnusedNext, ServerKeeps
<1>. QED
  BY <1>1, <1>2, <1>3, PTL
  DEF HouseholdSpec, CatalogSpec, PhotosSpec, JournalSpec, DraftsSpec, ResearchSpec,
      householdVars, serverVars

\* Every reachable state of the household is well typed, with the sweep run
\* while nothing is served, as its script says.
THEOREM HouseholdTypes == ASSUME SweepOnline = FALSE PROVE HouseholdSpec => []HouseholdTypeOK
<1>1. ResearchSpec => []UpkeepTypeOK BY ResearchKeepsUpkeep, UpkeepTypes, PTL
<1>2. PhotosSpec => []PhotosTypeOK BY PhotosTypes
<1>3. CatalogTypeOK /\ PhotosTypeOK /\ JournalTypeOK /\ DraftsTypeOK /\ UpkeepTypeOK
        /\ ResearchTypeOK => HouseholdTypeOK
  BY DEF HouseholdTypeOK
<1>. QED
  BY <1>1, <1>2, <1>3, RunsAreComponents, CatalogTypes, JournalTypes, DraftTypes,
     ResearchTypes, PTL

\* Everything the household run checks holds of every household: of all
\* numbers of members, devices, tabs, rows, settings, keys, days and requests.
THEOREM HouseholdHolds ==
  ASSUME SweepOnline = FALSE
  PROVE  HouseholdSpec =>
           /\ [](LoadedIsCurrent /\ RowsHaveFiles /\ PhotosNotShared
                 /\ OrphansAccounted /\ UsageExact /\ FilesDontRepeat /\ DraftGoneOnceSaved
                 /\ NewestTypingShown /\ RotationDone /\ CacheNeverStale /\ StatusTrue)
           /\ BookKept /\ ArchiveSticks /\ SavedAsSubmitted /\ ChipsNotStolen
           /\ SavesAreOwn /\ PrunedOnlyOld /\ MetersKept /\ PagesStay
<1>1. CatalogSpec => /\ []LoadedIsCurrent /\ ArchiveSticks
                     /\ SavedAsSubmitted
  BY LoadsStayFresh, ArchivedForGood, SavesAsSubmitted
<1>2. PhotosSpec => /\ []RowsHaveFiles /\ []PhotosNotShared /\ []OrphansAccounted
                    /\ BookKept
  BY PhotosSafe, PhotosApart, PhotosAccounted, PicturesByTheBook
<1>3. JournalSpec => []UsageExact /\ []FilesDontRepeat /\ ChipsNotStolen /\ SavesAreOwn
  BY CountersExact, ImportsOnce, ChipsStay, SessionsStayOwn
<1>4. DraftsSpec => []DraftGoneOnceSaved /\ []NewestTypingShown BY SavedDraftsGo, TypingWins
<1>5. UpkeepSpec => []RotationDone /\ []CacheNeverStale /\ []StatusTrue /\ PrunedOnlyOld
  BY RotationCompletes, ReadsAreCurrent, StatusBelieved, PrunesOnlyOld
<1>. QED
  BY <1>1, <1>2, <1>3, <1>4, <1>5, RunsAreComponents, ResearchKeepsUpkeep, QuotaIsAMeter,
     PagesAreKept, PTL
=============================================================================
