------------------------------ MODULE Catalog ------------------------------
(***************************************************************************)
(* The shared catalog: roasters, flavor notes, varietals, water profiles,  *)
(* equipment, recipes and coffees, and the coffee forms that members have  *)
(* open in their browsers.                                                 *)
(*                                                                         *)
(* A row is its name, or "no row yet"; rows are archived and never         *)
(* deleted.  Names of roasters, flavor notes, varietals and water profiles *)
(* are unique in the database; those of coffees, equipment and recipes are *)
(* not.  Bad stands for whatever a form schema refuses.                    *)
(*                                                                         *)
(* A coffee form is filled from the row when it is opened and sent as a    *)
(* whole.  POST /coffees/{id} loads the row, waits for the body, and then  *)
(* saves.  Scalars and origins are overwritten by one UPDATE; the varietal *)
(* association is a difference against the collection loaded before the    *)
(* wait, because the identity map still holds that object.                 *)
(***************************************************************************)
EXTENDS Naturals, FiniteSets

CONSTANTS Roaster, Note, Varietal, Water, Gear, Recipe, Coffee,  \* row ids
          Name, Bad, Client

\* The ids of two tables are different things.
ASSUME TablesAreApart ==
  /\ Roaster \cap (Note \cup Varietal \cup Water \cup Gear \cup Recipe \cup Coffee) = {}
  /\ Note \cap (Varietal \cup Water \cup Gear \cup Recipe \cup Coffee) = {}
  /\ Varietal \cap (Water \cup Gear \cup Recipe \cup Coffee) = {}
  /\ Water \cap (Gear \cup Recipe \cup Coffee) = {}

VARIABLES
  name,       \* name[x]: {} when there is no row x, else one name
  archived,   \* rows with archived = true
  maker,      \* coffees.roaster_id, {} or one roaster
  grown,      \* the varietals associated with each coffee
  chips,      \* coffees.advertised_flavor_note_ids
  page        \* the coffee form each client has open

catalogVars == <<name, archived, maker, grown, chips, page>>

Row == Roaster \cup Note \cup Varietal \cup Water \cup Gear \cup Recipe \cup Coffee
Typed == Name \cup {Bad}
Exists(x) == name[x] # {}
Titled(K, n) == {x \in K : name[x] = {n}}

Closed == [pc |-> "none", row |-> {}, maker |-> {}, grown |-> {}, chips |-> {},
           old |-> {}, alone |-> TRUE]

CatalogTypeOK ==
  /\ name \in [Row -> SUBSET Name] /\ \A x \in Row : Cardinality(name[x]) <= 1
  /\ archived \subseteq {x \in Row : Exists(x)}
  /\ maker \in [Coffee -> SUBSET Roaster]
  /\ grown \in [Coffee -> SUBSET Varietal]
  /\ chips \in [Coffee -> SUBSET Note]
  /\ page \in [Client -> [pc: {"none", "new", "edit", "sent"}, row: SUBSET Coffee,
                          maker: SUBSET Roaster, grown: SUBSET Varietal,
                          chips: SUBSET Note, old: SUBSET Varietal, alone: BOOLEAN]]

CatalogInit ==
  /\ name = [x \in Row |-> {}] /\ archived = {}
  /\ maker = [c \in Coffee |-> {}] /\ grown = [c \in Coffee |-> {}]
  /\ chips = [c \in Coffee |-> {}]
  /\ page = [u \in Client |-> Closed]

-----------------------------------------------------------------------------
(* What every kind shares: INSERT, UPDATE of the name, archived = true. *)

\* Mutant: the name reaches the row without the schema's checks.
InsertUnchecked(K, x, n) ==
  /\ x \in K /\ ~ Exists(x)
  /\ name' = [name EXCEPT ![x] = {n}]
  /\ UNCHANGED <<archived, maker, grown, chips>>

Insert(K, x, n) ==
  /\ x \in K /\ ~ Exists(x) /\ n # Bad
  /\ name' = [name EXCEPT ![x] = {n}]
  /\ UNCHANGED <<archived, maker, grown, chips>>

Rename(K, x, n) ==
  /\ x \in K /\ Exists(x) /\ n # Bad
  /\ name' = [name EXCEPT ![x] = {n}]
  /\ UNCHANGED <<archived, maker, grown, chips, page>>

Archive(K, x) ==
  /\ x \in K /\ Exists(x)
  /\ archived' = archived \cup {x}
  /\ UNCHANGED <<name, maker, grown, chips, page>>

Listed(K, all) == {x \in K : Exists(x) /\ (all \/ x \notin archived)}

\* What a client may type matches by prefix; the exact name decides whether
\* the menu offers to create it.
Offered(K, n) == {x \in Titled(K, n) : x \notin archived}

-----------------------------------------------------------------------------
(* Roasters: CITEXT unique; a duplicate is an IntegrityError, rolled back. *)

roasters_create(x, n) == Insert(Roaster, x, n) /\ Titled(Roaster, n) = {}
roasters_update(x, n) == Rename(Roaster, x, n) /\ Titled(Roaster, n) \subseteq {x}

list_roasters(all) == Listed(Roaster, all)
roaster_autocomplete(n) == Offered(Roaster, n)

\* From the catalog page, or as a modal over a coffee form that then selects it.
create_roaster(u, x, n) ==
  /\ roasters_create(x, n)
  /\ \/ UNCHANGED page
     \/ /\ page[u].pc \in {"new", "edit"}
        /\ page' = [page EXCEPT ![u].maker = {x}]
update_roaster_handler(x, n) == roasters_update(x, n)
archive_roaster_handler(x) == Archive(Roaster, x)

SelectRoaster(u, x) ==
  /\ page[u].pc \in {"new", "edit"}
  /\ \E n \in Name : x \in roaster_autocomplete(n)
  /\ page' = [page EXCEPT ![u].maker = {x}]
  /\ UNCHANGED <<name, archived, maker, grown, chips>>

RoasterNext(u) == \E x \in Roaster, n \in Typed :
  \/ create_roaster(u, x, n) \/ update_roaster_handler(x, n)
  \/ archive_roaster_handler(x) \/ SelectRoaster(u, x)

-----------------------------------------------------------------------------
(* Flavor notes: the same, and the list counts the live coffees of a note. *)

notes_create(x, n) == Insert(Note, x, n) /\ Titled(Note, n) = {}
notes_update(x, n) == Rename(Note, x, n) /\ Titled(Note, n) \subseteq {x}

list_flavor_notes(all) ==
  {<<x, Cardinality({c \in Coffee \ archived : x \in chips[c]})>> : x \in Listed(Note, all)}
flavor_note_autocomplete(n) == Offered(Note, n)

create_flavor_note(u, x, n) ==
  /\ notes_create(x, n)
  /\ \/ UNCHANGED page
     \/ /\ page[u].pc \in {"new", "edit"}
        /\ page' = [page EXCEPT ![u].chips = @ \cup {x}]
update_flavor_note_handler(x, n) == notes_update(x, n)
archive_flavor_note_handler(x) == Archive(Note, x)

ToggleNote(u, x) ==
  /\ page[u].pc \in {"new", "edit"}
  /\ \/ /\ \E n \in Name : x \in flavor_note_autocomplete(n)
        /\ page' = [page EXCEPT ![u].chips = @ \cup {x}]
     \/ /\ x \in page[u].chips
        /\ page' = [page EXCEPT ![u].chips = @ \ {x}]
  /\ UNCHANGED <<name, archived, maker, grown, chips>>

NoteNext(u) == \E x \in Note, n \in Typed :
  \/ create_flavor_note(u, x, n) \/ update_flavor_note_handler(x, n)
  \/ archive_flavor_note_handler(x) \/ ToggleNote(u, x)

-----------------------------------------------------------------------------
(* Varietals are created on the fly only; water profiles are never edited. *)

varietals_create(x, n) == Insert(Varietal, x, n) /\ Titled(Varietal, n) = {}
varietal_autocomplete(n) == Titled(Varietal, n)

\* A name that is taken is selected by ILIKE: the same row, or an error when
\* a pattern character in it makes the answer ambiguous.
create_varietal_on_the_fly(u, x, n) ==
  /\ page[u].pc \in {"new", "edit"}
  /\ \/ varietals_create(x, n)
     \/ x \in Titled(Varietal, n) /\ UNCHANGED <<name, archived, maker, grown, chips>>
  /\ page' = [page EXCEPT ![u].grown = @ \cup {x}]

ToggleVarietal(u, x) ==
  /\ page[u].pc \in {"new", "edit"}
  /\ \/ /\ \E n \in Name : x \in varietal_autocomplete(n)
        /\ page' = [page EXCEPT ![u].grown = @ \cup {x}]
     \/ page' = [page EXCEPT ![u].grown = @ \ {x}]
  /\ UNCHANGED <<name, archived, maker, grown, chips>>

VarietalNext(u) == \E x \in Varietal, n \in Name :
  create_varietal_on_the_fly(u, x, n) \/ ToggleVarietal(u, x)

waters_create(x, n) == Insert(Water, x, n) /\ Titled(Water, n) = {}
list_water_profiles == Listed(Water, TRUE)
create_water_profile(x, n) == waters_create(x, n) /\ UNCHANGED page
WaterNext == \E x \in Water, n \in Typed : create_water_profile(x, n)

-----------------------------------------------------------------------------
(* Equipment and recipes: names are free.  A recipe can be duplicated. *)

list_equipment(all) == Listed(Gear, all)
create_equipment(x, n) == Insert(Gear, x, n) /\ UNCHANGED page
update_equipment_handler(x, n) == Rename(Gear, x, n)
archive_equipment_handler(x) == Archive(Gear, x)

GearNext == \E x \in Gear, n \in Typed :
  create_equipment(x, n) \/ update_equipment_handler(x, n) \/ archive_equipment_handler(x)

\* Mutant: the whole row is rebuilt from the form, with archived at its default.
RecipeRevived(x, n) ==
  /\ x \in Recipe /\ Exists(x) /\ n # Bad
  /\ name' = [name EXCEPT ![x] = {n}] /\ archived' = archived \ {x}
  /\ UNCHANGED <<maker, grown, chips, page>>

recipes_create(x, n) == Insert(Recipe, x, n)
recipes_update(x, n) == Rename(Recipe, x, n)

list_recipes(all) == Listed(Recipe, all)
create_recipe(x, n) == recipes_create(x, n) /\ UNCHANGED page
update_recipe_handler(x, n) == recipes_update(x, n)
archive_recipe_handler(x) == Archive(Recipe, x)

\* The copy is titled after the source and is live even when that is archived.
duplicate_recipe(src, x, copyOf) ==
  /\ src \in Recipe /\ Exists(src)
  /\ recipes_create(x, copyOf) /\ UNCHANGED page

RecipeNext == \E x \in Recipe, n \in Typed :
  \/ create_recipe(x, n) \/ update_recipe_handler(x, n) \/ archive_recipe_handler(x)
  \/ \E src \in Recipe : duplicate_recipe(src, x, n)

-----------------------------------------------------------------------------
(* Coffees. *)

list_coffees(roaster, gone) ==
  {c \in Coffee : Exists(c) /\ (c \in archived <=> gone) /\ roaster \subseteq maker[c]}

new_coffee_form(u) ==
  /\ page[u].pc = "none"
  /\ page' = [page EXCEPT ![u].pc = "new"]
  /\ UNCHANGED <<name, archived, maker, grown, chips>>

\* The form carries a copy of the row; it may be old when it is sent.
edit_coffee_form(u, c) ==
  /\ page[u].pc = "none" /\ Exists(c)
  /\ page' = [page EXCEPT ![u] = [pc |-> "edit", row |-> {c}, maker |-> maker[c],
                                  grown |-> grown[c], chips |-> chips[c],
                                  old |-> {}, alone |-> TRUE]]
  /\ UNCHANGED <<name, archived, maker, grown, chips>>

\* The row, its origins and its varietals: one transaction.
coffees_create(c, n, form) ==
  /\ c \in Coffee /\ ~ Exists(c) /\ n # Bad
  /\ name' = [name EXCEPT ![c] = {n}]
  /\ maker' = [maker EXCEPT ![c] = form.maker]
  /\ chips' = [chips EXCEPT ![c] = form.chips]
  /\ grown' = [grown EXCEPT ![c] = form.grown]
  /\ UNCHANGED archived

create_coffee(u, c, n) ==
  /\ page[u].pc = "new" /\ coffees_create(c, n, page[u])
  /\ page' = [page EXCEPT ![u] = Closed]

\* Without an origin, or with a field the schema refuses, the form comes back
\* with what was typed -- but without the varietals, which neither the raw
\* view nor the error context carries.
FormRefused(u) ==
  /\ page[u].pc \in {"new", "sent"}
  /\ page' = [page EXCEPT ![u].pc = IF @ = "new" THEN "new" ELSE "edit",
                          ![u].grown = {}, ![u].old = {}, ![u].alone = TRUE]
  /\ UNCHANGED <<name, archived, maker, grown, chips>>

\* Mutant: the form's varietals are taken for the stored ones.
LoadsTheForm(u) ==
  /\ page[u].pc = "edit"
  /\ page' = [page EXCEPT ![u].pc = "sent", ![u].old = page[u].grown, ![u].alone = TRUE]
  /\ UNCHANGED <<name, archived, maker, grown, chips>>

\* The row is loaded with its varietals, and the body awaited.
update_coffee_handler(u) ==
  /\ page[u].pc = "edit"
  /\ \E c \in page[u].row :
       page' = [page EXCEPT ![u].pc = "sent", ![u].old = grown[c], ![u].alone = TRUE]
  /\ UNCHANGED <<name, archived, maker, grown, chips>>

\* Mutant: varietals are only ever added.
AddsOnly(u) == [add |-> page[u].grown \ page[u].old, del |-> {}]

\* The associations the unit of work inserts and deletes.  One that is already
\* there breaks the primary key; one that is no longer there may be reported
\* as stale or go unnoticed, which is up to the driver.  A failed flush rolls
\* everything back and the form stays open.
VarietalDelta(u) == [add |-> page[u].grown \ page[u].old, del |-> page[u].old \ page[u].grown]

update_coffee(u, n) ==
  /\ page[u].pc = "sent" /\ n # Bad
  /\ LET d == VarietalDelta(u) IN
     \E c \in page[u].row :
       \/ /\ d.add \cap grown[c] = {}
          /\ name' = [name EXCEPT ![c] = {n}]
          /\ maker' = [maker EXCEPT ![c] = page[u].maker]
          /\ chips' = [chips EXCEPT ![c] = page[u].chips]
          /\ grown' = [grown EXCEPT ![c] = (@ \ d.del) \cup d.add]
          /\ page' = [v \in Client |->
               IF v = u THEN Closed
               ELSE [page[v] EXCEPT !.alone = @ /\ page[v].row # {c}]]
       \/ /\ d.add \cap grown[c] # {} \/ ~ (d.del \subseteq grown[c])
          /\ page' = [page EXCEPT ![u].pc = "edit", ![u].old = {}, ![u].alone = TRUE]
          /\ UNCHANGED <<name, maker, grown, chips>>
  /\ UNCHANGED archived

archive_coffee_handler(c) == Archive(Coffee, c)

CloseForm(u) ==
  /\ page[u].pc \in {"new", "edit"}
  /\ page' = [page EXCEPT ![u] = Closed]
  /\ UNCHANGED <<name, archived, maker, grown, chips>>

CoffeeNext(u) ==
  \/ new_coffee_form(u) \/ update_coffee_handler(u) \/ FormRefused(u) \/ CloseForm(u)
  \/ \E c \in Coffee : \/ edit_coffee_form(u, c) \/ archive_coffee_handler(c)
                       \/ \E n \in Typed : create_coffee(u, c, n)
  \/ \E n \in Typed : update_coffee(u, n)

CatalogNext ==
  \/ \E u \in Client : \/ RoasterNext(u) \/ NoteNext(u) \/ VarietalNext(u) \/ CoffeeNext(u)
  \/ WaterNext \/ GearNext \/ RecipeNext

CatalogSpec == CatalogInit /\ [][CatalogNext]_catalogVars

-----------------------------------------------------------------------------
\* Archiving is for good: no edit that was opened, loaded or waiting while the
\* row was archived brings it back to a default list. (Code: the update
\* services name their columns; archived is not one of them.)
Shown == list_roasters(FALSE) \cup {p[1] : p \in list_flavor_notes(FALSE)}
         \cup list_equipment(FALSE) \cup list_recipes(FALSE) \cup list_coffees({}, FALSE)
ArchiveSticks == [][\A x \in archived : x \notin Shown']_catalogVars

\* A coffee save that met no other save of the same coffee between its load
\* and its commit stores exactly its form: roaster, chips and varietals; and
\* it is never refused. (Code: coffees.update_coffee.)
Saved(u) == page[u].pc = "sent" /\ page'[u].pc = "none"
SavedAsSubmitted ==
  [][\A u \in Client : (Saved(u) /\ page[u].alone) =>
       \A c \in page[u].row : /\ grown'[c] = page[u].grown
                              /\ chips'[c] = page[u].chips
                              /\ maker'[c] = page[u].maker]_catalogVars

\* Until some save overlapped, what a waiting save loaded is what is stored:
\* an undisturbed save cannot fail. (Code: routers/coffees.update_coffee_handler.)
LoadedIsCurrent ==
  \A u \in Client : (page[u].pc = "sent" /\ page[u].alone) =>
    \A c \in page[u].row : page[u].old = grown[c]
=============================================================================
