---------------------------- MODULE MCHousehold ----------------------------
(***************************************************************************)
(* Small instances of the catalog, the photos, the journal, the drafts,    *)
(* the upkeep and the research.  Their states are disjoint, so a behaviour *)
(* moves one of them: the focus chosen in the initial state.  Some are     *)
(* looked at several times, with the inputs that matter to one question.   *)
(***************************************************************************)
EXTENDS Catalog, Photos, Journal, Drafts, Research, TLC

VARIABLE focus

ASSUME Populated == {} \notin {Client, Brewed, Time, User, Member, Provider}

One(S) == {CHOOSE x \in S : TRUE}

\* One brewer alone, or one as brewer and the other as grinder: an edit can
\* change one slot, both, or re-point both so that a counter nets to zero.
Kits == {k \in Setups : /\ k["brewer"] # None
                        /\ k["grinder"] = None <=> k["brewer"] \in One(Kit)}
UsageCounts == -1..2

On(topic) == focus = topic /\ UNCHANGED focus

CatalogOn ==
  \/ On("coffees") /\ \E u \in Client : CoffeeNext(u) \/ VarietalNext(u)
  \/ On("roasters") /\ \E u \in One(Client) : CoffeeNext(u) \/ RoasterNext(u)
  \/ On("notes") /\ \E u \in One(Client) : CoffeeNext(u) \/ NoteNext(u)
  \/ On("tables") /\ (WaterNext \/ GearNext \/ RecipeNext)

JournalOn ==
  \/ On("usage") /\ JournalStep(One(Brewed), Kits, {}, One(Time), One(User))
  \/ On("chips") /\ JournalStep(Brewed, {Bare}, Tasted, One(Time), One(User))
  \/ On("files") /\ JournalStep(One(Brewed), {Bare}, {}, Time, User)

MaxSent == 3   \* drafts: requests under way
MaxBusy == 1   \* picks: devices with a page, a copy or a request

Busy == {d \in Device : \/ screen[d].pc # "closed" \/ local[d] # NoDraft
                        \/ \E m \in net : m.from = d}

\* Two devices without chips, or one at a time with them.
DraftsOn ==
  \/ On("drafts") /\ DraftsNext /\ Cardinality(net') <= MaxSent
                  /\ \A d \in Device : ~ screen'[d].chips
  \/ On("picks") /\ DraftsNext /\ Cardinality(net') < MaxSent /\ Cardinality(Busy') <= MaxBusy

\* The first value of every setting, and the first key.
Plain == row = [k \in Key |-> CHOOSE t \in Text \ Fault : TRUE] /\ ring.first = One(EncKey)

UpkeepOn ==
  \/ On("settings") /\ (BootNext \/ SettingsNext) /\ UNCHANGED researchVars
  \/ On("keys") /\ (BootNext \/ KeysNext) /\ UNCHANGED researchVars
  \/ On("backup") /\ (BootNext \/ BackupNext) /\ UNCHANGED researchVars
  \/ On("research") /\ \/ Boot \/ Kill \/ AdminStep({}, One(Provider), {})
                       \/ /\ \/ \E c \in Call : StreamStep(c, Member, Page)
                             \/ TimeStep(Member, Page)
                          /\ UNCHANGED upkeepVars
  \/ On("quota") /\ \/ Boot \/ Kill \/ AdminStep({"improve"}, One(Provider), One(Provider))
                    \/ ResearchNext(One(Member), {"coach"}) /\ UNCHANGED upkeepVars

HouseholdInit ==
  /\ CatalogInit /\ PhotosInit /\ JournalInit /\ DraftsInit /\ UpkeepInit /\ ResearchInit
  /\ focus \in {"coffees", "roasters", "notes", "tables", "photos", "usage", "chips", "files",
                "drafts", "picks", "settings", "keys", "backup", "research", "quota"}
  /\ focus # "picks" => ~ advertises
  /\ focus # "settings" => Plain
  /\ focus # "research" => \A p \in Page : entry[p] = "none"

libraryVars == <<catalogVars, photoVars, journalVars, draftVars>>

HouseholdNext ==
  \/ /\ UNCHANGED <<upkeepVars, researchVars>>
     /\ \/ CatalogOn /\ UNCHANGED <<photoVars, journalVars, draftVars>>
        \/ JournalOn /\ UNCHANGED <<catalogVars, photoVars, draftVars>>
        \/ On("photos") /\ PhotosNext /\ UNCHANGED <<catalogVars, journalVars, draftVars>>
        \/ DraftsOn /\ UNCHANGED <<catalogVars, photoVars, journalVars>>
  \/ UpkeepOn /\ UNCHANGED libraryVars

HouseholdSpec ==
  HouseholdInit /\ [][HouseholdNext]_<<libraryVars, upkeepVars, researchVars, focus>>

\* Every component's variables keep their types.
HouseholdTypeOK ==
  /\ CatalogTypeOK /\ PhotosTypeOK /\ JournalTypeOK
  /\ DraftsTypeOK /\ UpkeepTypeOK /\ ResearchTypeOK

\* What is interchangeable, exchanged at once: since a behaviour moves one
\* component, that costs no reduction and spares every state the permutations
\* of all the others.
Exchange(sets) ==
  [x \in UNION sets |-> CHOOSE y \in CHOOSE S \in sets : x \in S : y # x]
Mirror == Exchange({Session, Device, Req, Run, Call})
Turn == Exchange({Tab, Photo \ One(Photo)})
Symmetry == {Mirror} \cup {Turn} \cup {Mirror @@ Turn}
=============================================================================
