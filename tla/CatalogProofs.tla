--------------------------- MODULE CatalogProofs ---------------------------
(***************************************************************************)
(* Why archiving is for good, and why a coffee save that nothing           *)
(* overlapped stores exactly its form.                                     *)
(*                                                                         *)
(* The strengthening is Opened: a form that edits or waits belongs to one  *)
(* coffee that exists, so a new coffee is never the one it waits for.      *)
(***************************************************************************)
EXTENDS Catalog, FiniteSetTheorems, TLAPS

NamesTyped == name \in [Row -> SUBSET Name]
OneNameEach == \A x \in Row : Cardinality(name[x]) <= 1
ArchivedTyped == archived \subseteq {x \in Row : Exists(x)}
CoffeesTyped ==
  /\ maker \in [Coffee -> SUBSET Roaster]
  /\ grown \in [Coffee -> SUBSET Varietal]
  /\ chips \in [Coffee -> SUBSET Note]
Form == [pc: {"none", "new", "edit", "sent"}, row: SUBSET Coffee, maker: SUBSET Roaster,
         grown: SUBSET Varietal, chips: SUBSET Note, old: SUBSET Varietal, alone: BOOLEAN]
PagesTyped == page \in [Client -> Form]

LEMMA CatalogTypesSplit ==
  CatalogTypeOK <=> NamesTyped /\ OneNameEach /\ ArchivedTyped /\ CoffeesTyped /\ PagesTyped
  BY DEF CatalogTypeOK, NamesTyped, OneNameEach, ArchivedTyped, CoffeesTyped, PagesTyped, Form

LEMMA TypesSplitNext ==
  CatalogTypeOK' <=> (NamesTyped /\ OneNameEach /\ ArchivedTyped /\ CoffeesTyped /\ PagesTyped)'
  BY DEF CatalogTypeOK, NamesTyped, OneNameEach, ArchivedTyped, CoffeesTyped, PagesTyped, Form,
     Exists

-----------------------------------------------------------------------------
(* What a step does to a name, to the archive, and to an open form. *)

\* One row gets a name.
Names(x, n) == name' = [name EXCEPT ![x] = {n}]

\* Forms are typed into and nothing is saved.
Types(u, m, g, k) ==
  /\ page[u].pc \in {"new", "edit"}
  /\ page' = [page EXCEPT ![u] = [@ EXCEPT !.maker = m, !.grown = g, !.chips = k]]

FormStays ==
  /\ UNCHANGED <<maker, grown, chips>>
  /\ \/ UNCHANGED page
     \/ \E u \in Client, m \in SUBSET Roaster, g \in SUBSET Varietal, k \in SUBSET Note :
          Types(u, m, g, k)

NameStays == name' = name \/ \E x \in Row, n \in Name : Names(x, n)
ArchiveStays == archived' = archived \/ \E x \in Row : Exists(x) /\ archived' = archived \cup {x}

LEMMA OneNamed ==
  ASSUME NEW x \in Row, NEW n \in Typed, n # Bad, name' = [name EXCEPT ![x] = {n}]
  PROVE  NameStays
  BY DEF NameStays, Names, Typed

LEMMA RoasterSteps ==
  ASSUME PagesTyped, NEW u \in Client, RoasterNext(u)
  PROVE  NameStays /\ ArchiveStays /\ FormStays
<1>1. ASSUME NEW x \in Roaster, NEW n \in Typed, create_roaster(u, x, n)
      PROVE  NameStays /\ ArchiveStays /\ FormStays
  <2>1. NameStays
    BY <1>1, OneNamed DEF Row, create_roaster, roasters_create, Insert
  <2>2. ArchiveStays BY <1>1 DEF ArchiveStays, create_roaster, roasters_create, Insert
  <2>3. UNCHANGED <<maker, grown, chips>> BY <1>1 DEF create_roaster, roasters_create, Insert
  <2>4. UNCHANGED page \/ Types(u, {x}, page[u].grown, page[u].chips)
    BY <1>1 DEF create_roaster, Types, PagesTyped, Form
  <2>5. page[u].grown \in SUBSET Varietal /\ page[u].chips \in SUBSET Note
    BY DEF PagesTyped, Form
  <2>. QED BY <2>1, <2>2, <2>3, <2>4, <2>5 DEF FormStays
<1>2. ASSUME NEW x \in Roaster, NEW n \in Typed, update_roaster_handler(x, n)
      PROVE  NameStays /\ ArchiveStays /\ FormStays
  <2>1. NameStays
    BY <1>2, OneNamed DEF Row, update_roaster_handler, roasters_update, Rename
  <2>. QED
    BY <1>2, <2>1 DEF ArchiveStays, FormStays, update_roaster_handler, roasters_update, Rename
<1>3. ASSUME NEW x \in Roaster, archive_roaster_handler(x)
      PROVE  NameStays /\ ArchiveStays /\ FormStays
  BY <1>3 DEF NameStays, ArchiveStays, FormStays, archive_roaster_handler, Archive, Row
<1>4. ASSUME NEW x \in Roaster, SelectRoaster(u, x)
      PROVE  NameStays /\ ArchiveStays /\ FormStays
  <2>1. Types(u, {x}, page[u].grown, page[u].chips)
    BY <1>4 DEF SelectRoaster, Types, PagesTyped, Form
  <2>2. page[u].grown \in SUBSET Varietal /\ page[u].chips \in SUBSET Note
    BY DEF PagesTyped, Form
  <2>. QED BY <1>4, <2>1, <2>2 DEF NameStays, ArchiveStays, FormStays, SelectRoaster
<1>. QED BY <1>1, <1>2, <1>3, <1>4 DEF RoasterNext

LEMMA NoteSteps ==
  ASSUME PagesTyped, NEW u \in Client, NoteNext(u)
  PROVE  NameStays /\ ArchiveStays /\ FormStays
<1>. /\ page[u].grown \in SUBSET Varietal /\ page[u].maker \in SUBSET Roaster
     /\ page[u].chips \in SUBSET Note
  BY DEF PagesTyped, Form
<1>1. ASSUME NEW x \in Note, NEW n \in Typed, create_flavor_note(u, x, n)
      PROVE  NameStays /\ ArchiveStays /\ FormStays
  <2>1. NameStays
    BY <1>1, OneNamed DEF Row, create_flavor_note, notes_create, Insert
  <2>2. ArchiveStays BY <1>1 DEF ArchiveStays, create_flavor_note, notes_create, Insert
  <2>3. UNCHANGED <<maker, grown, chips>> BY <1>1 DEF create_flavor_note, notes_create, Insert
  <2>4. UNCHANGED page \/ Types(u, page[u].maker, page[u].grown, page[u].chips \cup {x})
    BY <1>1 DEF create_flavor_note, Types, PagesTyped, Form
  <2>. QED BY <2>1, <2>2, <2>3, <2>4 DEF FormStays
<1>2. ASSUME NEW x \in Note, NEW n \in Typed, update_flavor_note_handler(x, n)
      PROVE  NameStays /\ ArchiveStays /\ FormStays
  <2>1. NameStays
    BY <1>2, OneNamed DEF Row, update_flavor_note_handler, notes_update, Rename
  <2>. QED
    BY <1>2, <2>1 DEF ArchiveStays, FormStays, update_flavor_note_handler, notes_update, Rename
<1>3. ASSUME NEW x \in Note, archive_flavor_note_handler(x)
      PROVE  NameStays /\ ArchiveStays /\ FormStays
  BY <1>3 DEF NameStays, ArchiveStays, FormStays, archive_flavor_note_handler, Archive, Row
<1>4. ASSUME NEW x \in Note, ToggleNote(u, x) PROVE NameStays /\ ArchiveStays /\ FormStays
  <2>1. \E k \in SUBSET Note : Types(u, page[u].maker, page[u].grown, k)
    <3>1. \/ Types(u, page[u].maker, page[u].grown, page[u].chips \cup {x})
          \/ Types(u, page[u].maker, page[u].grown, page[u].chips \ {x})
      BY <1>4 DEF ToggleNote, Types, PagesTyped, Form
    <3>. QED BY <3>1
  <2>. QED BY <1>4, <2>1 DEF NameStays, ArchiveStays, FormStays, ToggleNote
<1>. QED BY <1>1, <1>2, <1>3, <1>4 DEF NoteNext

LEMMA VarietalSteps ==
  ASSUME PagesTyped, NEW u \in Client, VarietalNext(u)
  PROVE  NameStays /\ ArchiveStays /\ FormStays
<1>. /\ page[u].grown \in SUBSET Varietal /\ page[u].maker \in SUBSET Roaster
     /\ page[u].chips \in SUBSET Note
  BY DEF PagesTyped, Form
<1>1. ASSUME NEW x \in Varietal, NEW n \in Name, create_varietal_on_the_fly(u, x, n)
      PROVE  NameStays /\ ArchiveStays /\ FormStays
  <2>1. NameStays
    BY <1>1, OneNamed
    DEF Row, Typed, NameStays, create_varietal_on_the_fly, varietals_create, Insert
  <2>2. Types(u, page[u].maker, page[u].grown \cup {x}, page[u].chips)
    BY <1>1 DEF create_varietal_on_the_fly, Types, PagesTyped, Form
  <2>. QED
    BY <1>1, <2>1, <2>2
    DEF ArchiveStays, FormStays, create_varietal_on_the_fly, varietals_create, Insert
<1>2. ASSUME NEW x \in Varietal, ToggleVarietal(u, x)
      PROVE  NameStays /\ ArchiveStays /\ FormStays
  <2>1. \/ Types(u, page[u].maker, page[u].grown \cup {x}, page[u].chips)
        \/ Types(u, page[u].maker, page[u].grown \ {x}, page[u].chips)
    BY <1>2 DEF ToggleVarietal, Types, PagesTyped, Form
  <2>. QED BY <1>2, <2>1 DEF NameStays, ArchiveStays, FormStays, ToggleVarietal
<1>. QED BY <1>1, <1>2 DEF VarietalNext

LEMMA TableSteps ==
  ASSUME WaterNext \/ GearNext \/ RecipeNext
  PROVE  NameStays /\ ArchiveStays /\ FormStays
<1>1. ASSUME NEW x \in Water, NEW n \in Typed, create_water_profile(x, n)
      PROVE  NameStays /\ ArchiveStays /\ FormStays
  <2>. USE <1>1 DEF create_water_profile, waters_create, Insert
  <2>1. NameStays BY OneNamed DEF Row
  <2>. QED BY <2>1 DEF ArchiveStays, FormStays
<1>2. ASSUME NEW x \in Gear \cup Recipe, NEW n \in Typed,
             NEW K \in {Gear, Recipe},
             (Insert(K, x, n) /\ UNCHANGED page) \/ Rename(K, x, n) \/ Archive(K, x)
      PROVE  NameStays /\ ArchiveStays /\ FormStays
  <2>1. NameStays BY <1>2, OneNamed DEF Row, NameStays, Insert, Rename, Archive
  <2>2. ArchiveStays BY <1>2 DEF ArchiveStays, Insert, Rename, Archive, Row
  <2>3. FormStays BY <1>2 DEF FormStays, Insert, Rename, Archive
  <2>. QED BY <2>1, <2>2, <2>3
<1>3. CASE WaterNext BY <1>1, <1>3 DEF WaterNext
<1>4. CASE GearNext
  BY <1>2, <1>4
  DEF GearNext, create_equipment, update_equipment_handler, archive_equipment_handler
<1>5. CASE RecipeNext
  BY <1>2, <1>5
  DEF RecipeNext, create_recipe, recipes_create, update_recipe_handler, recipes_update,
      archive_recipe_handler, duplicate_recipe
<1>. QED BY <1>3, <1>4, <1>5

LEMMA CoffeeNames ==
  ASSUME PagesTyped, NEW u \in Client, CoffeeNext(u)
  PROVE  NameStays /\ ArchiveStays
<1>1. ASSUME NEW c \in Coffee, NEW n \in Typed, create_coffee(u, c, n)
      PROVE  NameStays /\ ArchiveStays
  <2>. USE <1>1 DEF create_coffee, coffees_create
  <2>1. NameStays BY OneNamed DEF Row
  <2>. QED BY <2>1 DEF ArchiveStays
<1>2. ASSUME NEW n \in Typed, update_coffee(u, n)
      PROVE  NameStays /\ ArchiveStays
  <2>1. archived' = archived /\ n # Bad BY <1>2 DEF update_coffee
  <2>2. name' = name \/ \E c \in page[u].row : name' = [name EXCEPT ![c] = {n}]
    BY <1>2 DEF update_coffee
  <2>3. page[u].row \subseteq Coffee BY DEF PagesTyped, Form
  <2>4. NameStays BY <2>1, <2>2, <2>3, OneNamed DEF Row, NameStays
  <2>. QED BY <2>1, <2>4 DEF ArchiveStays
<1>3. ASSUME NEW c \in Coffee, archive_coffee_handler(c) PROVE NameStays /\ ArchiveStays
  BY <1>3 DEF archive_coffee_handler, Archive, NameStays, ArchiveStays, Row
<1>4. ASSUME UNCHANGED <<name, archived>> PROVE NameStays /\ ArchiveStays
  BY <1>4 DEF NameStays, ArchiveStays
<1>. QED
  BY <1>1, <1>2, <1>3, <1>4
  DEF CoffeeNext, new_coffee_form, edit_coffee_form, update_coffee_handler, FormRefused,
      CloseForm
-----------------------------------------------------------------------------
(* Coffee forms. *)

\* A form that edits, or whose save waits, is of one coffee, which exists.
OneCoffee(p) == \E c \in Coffee : p.row = {c} /\ Exists(c)
Opened == \A u \in Client : page[u].pc \in {"edit", "sent"} => OneCoffee(page[u])

Catalogued == CatalogTypeOK /\ Opened

\* One client's form becomes p; coffees keep what is saved.
PageMoves(u, p) ==
  /\ UNCHANGED <<name, archived, maker, grown, chips>>
  /\ page' = [page EXCEPT ![u] = p]

LEMMA NameKept ==
  ASSUME CatalogTypeOK, NameStays
  PROVE  /\ NamesTyped' /\ OneNameEach'
         /\ \A x \in Row : Exists(x) => Exists(x)'
<1>. USE CatalogTypesSplit, FS_Singleton, FS_EmptySet DEF NamesTyped, OneNameEach, Exists
<1>1. CASE name' = name BY <1>1
<1>2. ASSUME NEW x \in Row, NEW n \in Name, Names(x, n)
      PROVE  /\ NamesTyped' /\ OneNameEach'
             /\ \A y \in Row : Exists(y) => Exists(y)'
  <2>1. name' = [name EXCEPT ![x] = {n}] BY <1>2 DEF Names
  <2>2. name'[x] = {n} /\ \A y \in Row \ {x} : name'[y] = name[y] BY <2>1
  <2>3. NamesTyped' BY <2>1
  <2>4. Cardinality({n}) = 1 BY FS_Singleton
  <2>5. OneNameEach' BY <2>2, <2>4
  <2>. QED BY <2>2, <2>3, <2>5
<1>. QED BY <1>1, <1>2 DEF NameStays

LEMMA ArchiveKept ==
  ASSUME CatalogTypeOK, NameStays, ArchiveStays
  PROVE  ArchivedTyped' /\ archived \subseteq archived'
<1>1. archived \subseteq {x \in Row : Exists(x)} BY CatalogTypesSplit DEF ArchivedTyped
<1>2. archived' \subseteq {x \in Row : Exists(x)} BY <1>1 DEF ArchiveStays
<1>3. \A x \in Row : Exists(x) => Exists(x)' BY NameKept
<1>. QED BY <1>1, <1>2, <1>3 DEF ArchiveStays, ArchivedTyped

LEMMA FormStaysTyped ==
  ASSUME CatalogTypeOK, Opened, NameStays, FormStays
  PROVE  CoffeesTyped' /\ PagesTyped' /\ Opened'
<1>1. CoffeesTyped /\ PagesTyped /\ Coffee \subseteq Row BY CatalogTypesSplit DEF Row
<1>2. CoffeesTyped' BY <1>1 DEF FormStays, CoffeesTyped
<1>3. \A c \in Coffee : Exists(c) => Exists(c)' BY <1>1, NameKept
<1>4. CASE UNCHANGED page BY <1>1, <1>2, <1>3, <1>4 DEF PagesTyped, Opened, OneCoffee
<1>5. ASSUME NEW u \in Client, NEW m \in SUBSET Roaster, NEW g \in SUBSET Varietal,
             NEW k \in SUBSET Note, Types(u, m, g, k)
      PROVE  PagesTyped' /\ Opened'
  <2>1. /\ \A v \in Client \ {u} : page'[v] = page[v]
        /\ page'[u] = [page[u] EXCEPT !.maker = m, !.grown = g, !.chips = k]
    BY <1>1, <1>5 DEF Types, PagesTyped
  <2>2. PagesTyped' BY <1>1, <1>5 DEF Types, PagesTyped, Form
  <2>3. \A v \in Client : page'[v].pc = page[v].pc /\ page'[v].row = page[v].row
    <3>1. page[u].pc = page'[u].pc /\ page[u].row = page'[u].row
      BY <1>1, <2>1 DEF PagesTyped, Form
    <3>. QED BY <2>1, <3>1
  <2>4. ASSUME NEW v \in Client, page'[v].pc \in {"edit", "sent"} PROVE OneCoffee(page[v])'
    <3>1. PICK c \in Coffee : page[v].row = {c} /\ Exists(c)
      BY <2>3, <2>4 DEF Opened, OneCoffee
    <3>. QED BY <1>3, <2>3, <3>1 DEF OneCoffee
  <2>. QED BY <2>2, <2>4 DEF Opened
<1>. QED BY <1>2, <1>4, <1>5 DEF FormStays

LEMMA FormMovesTyped ==
  ASSUME CatalogTypeOK, Opened, NEW u \in Client, NEW p \in Form, PageMoves(u, p),
         p.pc \in {"edit", "sent"} => OneCoffee(p)
  PROVE  CatalogTypeOK' /\ Opened'
<1>1. CatalogTypeOK' BY DEF CatalogTypeOK, PageMoves, Form, Exists
<1>2. Opened'
  BY CatalogTypesSplit DEF PageMoves, Opened, OneCoffee, Exists, PagesTyped
<1>. QED BY <1>1, <1>2

\* Whatever moves one client's form only.
LEMMA CoffeeForms ==
  ASSUME CatalogTypeOK, Opened, NEW u \in Client,
         \/ new_coffee_form(u) \/ update_coffee_handler(u) \/ FormRefused(u) \/ CloseForm(u)
         \/ \E c \in Coffee : edit_coffee_form(u, c)
  PROVE  CatalogTypeOK' /\ Opened'
<1>. page \in [Client -> Form] /\ page[u] \in Form BY CatalogTypesSplit DEF PagesTyped
<1>. /\ Closed \in Form /\ Closed.pc = "none" BY DEF Closed, Form
<1>1. CASE new_coffee_form(u)
  BY <1>1, FormMovesTyped DEF new_coffee_form, PageMoves, Form
<1>2. CASE update_coffee_handler(u)
  <2>1. PICK c \in page[u].row :
          PageMoves(u, [page[u] EXCEPT !.pc = "sent", !.old = grown[c], !.alone = TRUE])
    BY <1>2 DEF update_coffee_handler, PageMoves
  <2>2. page[u].pc = "edit" /\ OneCoffee(page[u]) BY <1>2 DEF update_coffee_handler, Opened
  <2>3. grown[c] \in SUBSET Varietal BY CatalogTypesSplit, <2>2 DEF CoffeesTyped, OneCoffee
  <2>. DEFINE p == [page[u] EXCEPT !.pc = "sent", !.old = grown[c], !.alone = TRUE]
  <2>4. p \in Form /\ OneCoffee(p) BY <2>2, <2>3 DEF Form, OneCoffee
  <2>. QED BY <2>1, <2>4, FormMovesTyped
<1>3. CASE FormRefused(u)
  <2>. DEFINE p == [page[u] EXCEPT !.pc = IF @ = "new" THEN "new" ELSE "edit",
                                   !.grown = {}, !.old = {}, !.alone = TRUE]
  <2>1. PageMoves(u, p) BY <1>3 DEF FormRefused, PageMoves
  <2>2. p \in Form BY DEF Form
  <2>3. p.pc = "edit" => OneCoffee(p) BY <1>3 DEF FormRefused, Opened, OneCoffee, Form
  <2>4. p.pc \in {"new", "edit"} BY <2>2 DEF Form
  <2>. HIDE DEF p
  <2>. QED BY <2>1, <2>2, <2>3, <2>4, FormMovesTyped
<1>4. CASE CloseForm(u) BY <1>4, FormMovesTyped DEF CloseForm, PageMoves
<1>5. ASSUME NEW c \in Coffee, edit_coffee_form(u, c) PROVE CatalogTypeOK' /\ Opened'
  <2>. DEFINE p == [pc |-> "edit", row |-> {c}, maker |-> maker[c], grown |-> grown[c],
                    chips |-> chips[c], old |-> {}, alone |-> TRUE]
  <2>1. PageMoves(u, p) /\ Exists(c) BY <1>5 DEF edit_coffee_form, PageMoves
  <2>2. p \in Form BY CatalogTypesSplit DEF Form, CoffeesTyped
  <2>3. OneCoffee(p) BY <2>1 DEF OneCoffee
  <2>. QED BY <2>1, <2>2, <2>3, FormMovesTyped
<1>. QED BY <1>1, <1>2, <1>3, <1>4, <1>5

LEMMA CreateCoffee ==
  ASSUME CatalogTypeOK, Opened, NEW u \in Client, NEW c \in Coffee, NEW n \in Typed,
         create_coffee(u, c, n)
  PROVE  CoffeesTyped' /\ PagesTyped' /\ Opened'
<1>. USE DEF create_coffee, coffees_create
<1>1. /\ page \in [Client -> Form] /\ page[u] \in Form /\ Closed \in Form
      /\ Closed.pc = "none" /\ Coffee \subseteq Row
  BY CatalogTypesSplit DEF PagesTyped, Closed, Form, Row
<1>2. \A d \in Coffee : Exists(d) => Exists(d)'
  <2>1. NameStays BY OneNamed DEF Row
  <2>. QED BY <1>1, <2>1, NameKept
<1>3. CoffeesTyped' BY <1>1, CatalogTypesSplit DEF CoffeesTyped, Form
<1>4. PagesTyped' BY <1>1 DEF PagesTyped
<1>5. Opened' BY <1>1, <1>2 DEF Opened, OneCoffee
<1>. QED BY <1>3, <1>4, <1>5

\* A save that goes through, and one that is refused.
Saves(u, c) ==
  /\ VarietalDelta(u).add \cap grown[c] = {}
  /\ maker' = [maker EXCEPT ![c] = page[u].maker]
  /\ chips' = [chips EXCEPT ![c] = page[u].chips]
  /\ grown' = [grown EXCEPT ![c] = (@ \ VarietalDelta(u).del) \cup VarietalDelta(u).add]
  /\ page' = [v \in Client |-> IF v = u THEN Closed
                               ELSE [page[v] EXCEPT !.alone = @ /\ page[v].row # {c}]]

Refuses(u, c) ==
  /\ VarietalDelta(u).add \cap grown[c] # {} \/ ~ (VarietalDelta(u).del \subseteq grown[c])
  /\ PageMoves(u, [page[u] EXCEPT !.pc = "edit", !.old = {}, !.alone = TRUE])

LEMMA Waiting ==
  ASSUME CatalogTypeOK, Opened, NEW u \in Client, NEW n \in Typed, update_coffee(u, n)
  PROVE  /\ page[u].pc = "sent"
         /\ \E c \in Coffee : /\ page[u].row = {c} /\ Exists(c)
                              /\ Saves(u, c) \/ Refuses(u, c)
<1>1. PICK c \in Coffee : page[u].row = {c} /\ Exists(c)
  BY DEF update_coffee, Opened, OneCoffee
<1>2. Saves(u, c) \/ Refuses(u, c) BY <1>1 DEF update_coffee, Saves, Refuses, PageMoves
<1>. QED BY <1>1, <1>2 DEF update_coffee

LEMMA UpdateCoffee ==
  ASSUME CatalogTypeOK, Opened, NEW u \in Client, NEW n \in Typed, update_coffee(u, n)
  PROVE  CoffeesTyped' /\ PagesTyped' /\ Opened'
<1>1. /\ page \in [Client -> Form] /\ page[u] \in Form /\ Closed \in Form
      /\ Closed.pc = "none" /\ Coffee \subseteq Row
  BY CatalogTypesSplit DEF PagesTyped, Closed, Form, Row
<1>2. CoffeeNext(u) /\ PagesTyped BY CatalogTypesSplit DEF CoffeeNext
<1>3. \A d \in Coffee : Exists(d) => Exists(d)' BY <1>1, <1>2, CoffeeNames, NameKept
<1>4. PICK c \in Coffee : /\ page[u].row = {c} /\ Exists(c)
                          /\ Saves(u, c) \/ Refuses(u, c)
  BY Waiting
<1>5. CASE Saves(u, c)
  <2>. USE <1>5 DEF Saves
  <2>1. CoffeesTyped' BY <1>1, CatalogTypesSplit DEF CoffeesTyped, Form, VarietalDelta
  <2>2. \A v \in Client \ {u} : /\ page'[v] = [page[v] EXCEPT !.alone = @ /\ page[v].row # {c}]
                                /\ page[v] \in Form
    BY <1>1
  <2>3. \A v \in Client : page'[v] \in Form
    <3>1. ASSUME NEW v \in Client \ {u} PROVE page'[v] \in Form
      <4>1. (page[v].alone /\ page[v].row # {c}) \in BOOLEAN OBVIOUS
      <4>. QED BY <2>2, <4>1 DEF Form
    <3>2. page'[u] \in Form BY <1>1
    <3>. QED BY <3>1, <3>2
  <2>4. PagesTyped' BY <2>3 DEF PagesTyped
  <2>5. \A v \in Client \ {u} : page'[v].pc = page[v].pc /\ page'[v].row = page[v].row
    BY <2>2 DEF Form
  <2>6. ASSUME NEW v \in Client, page'[v].pc \in {"edit", "sent"} PROVE OneCoffee(page[v])'
    <3>1. v # u BY <1>1, <2>6
    <3>2. PICK d \in Coffee : page[v].row = {d} /\ Exists(d)
      BY <2>5, <2>6, <3>1 DEF Opened, OneCoffee
    <3>. QED BY <1>3, <2>5, <3>1, <3>2 DEF OneCoffee
  <2>. QED BY <2>1, <2>4, <2>6 DEF Opened
<1>6. CASE Refuses(u, c)
  <2>. DEFINE p == [page[u] EXCEPT !.pc = "edit", !.old = {}, !.alone = TRUE]
  <2>1. p \in Form /\ OneCoffee(p) BY <1>1, <1>4 DEF Form, OneCoffee
  <2>2. PageMoves(u, p) BY <1>6 DEF Refuses
  <2>. HIDE DEF p
  <2>. QED BY <2>1, <2>2, FormMovesTyped, TypesSplitNext
<1>. QED BY <1>4, <1>5, <1>6

-----------------------------------------------------------------------------
(* Every step. *)

LEMMA StepNames ==
  ASSUME PagesTyped, [CatalogNext]_catalogVars PROVE NameStays /\ ArchiveStays
<1>1. CASE UNCHANGED catalogVars BY <1>1 DEF catalogVars, NameStays, ArchiveStays
<1>2. ASSUME NEW u \in Client,
             RoasterNext(u) \/ NoteNext(u) \/ VarietalNext(u) \/ CoffeeNext(u)
      PROVE  NameStays /\ ArchiveStays
  BY <1>2, RoasterSteps, NoteSteps, VarietalSteps, CoffeeNames
<1>. QED BY <1>1, <1>2, TableSteps DEF CatalogNext

LEMMA ArchiveCoffee ==
  ASSUME NEW c, archive_coffee_handler(c) PROVE FormStays
  BY DEF archive_coffee_handler, Archive, FormStays

LEMMA StepForms ==
  ASSUME Catalogued, [CatalogNext]_catalogVars
  PROVE  CoffeesTyped' /\ PagesTyped' /\ Opened'
<1>1. CatalogTypeOK /\ Opened /\ PagesTyped /\ NameStays BY StepNames, CatalogTypesSplit DEF Catalogued
<1>2. CASE FormStays BY <1>1, <1>2, FormStaysTyped
<1>3. CASE UNCHANGED catalogVars BY <1>2, <1>3 DEF catalogVars, FormStays
<1>4. ASSUME NEW u \in Client, CoffeeNext(u) PROVE CoffeesTyped' /\ PagesTyped' /\ Opened'
  BY <1>1, <1>2, <1>4, CoffeeForms, CreateCoffee, UpdateCoffee, ArchiveCoffee,
     TypesSplitNext
  DEF CoffeeNext
<1>. QED
  BY <1>1, <1>2, <1>3, <1>4, RoasterSteps, NoteSteps, VarietalSteps, TableSteps
  DEF CatalogNext

LEMMA StepTyped == Catalogued /\ [CatalogNext]_catalogVars => Catalogued'
<1>. SUFFICES ASSUME Catalogued, [CatalogNext]_catalogVars PROVE Catalogued' OBVIOUS
<1>1. CatalogTypeOK /\ PagesTyped BY CatalogTypesSplit DEF Catalogued
<1>2. NameStays /\ ArchiveStays BY <1>1, StepNames
<1>3. NamesTyped' /\ OneNameEach' /\ ArchivedTyped' BY <1>1, <1>2, NameKept, ArchiveKept
<1>. QED BY <1>3, StepForms, TypesSplitNext DEF Catalogued

LEMMA StartTyped == CatalogInit => Catalogued
<1>. SUFFICES ASSUME CatalogInit PROVE Catalogued OBVIOUS
<1>1. Closed \in Form /\ Closed.pc = "none" BY DEF Closed, Form
<1>2. PagesTyped /\ Opened BY <1>1 DEF CatalogInit, PagesTyped, Opened
<1>3. NamesTyped /\ OneNameEach /\ ArchivedTyped /\ CoffeesTyped
  BY FS_EmptySet DEF CatalogInit, NamesTyped, OneNameEach, ArchivedTyped, CoffeesTyped
<1>. QED BY <1>2, <1>3, CatalogTypesSplit DEF Catalogued

\* Every reachable state of the catalog is well typed, with at most one name to a row.
THEOREM CatalogTypes == CatalogSpec => []CatalogTypeOK
<1>1. Catalogued => CatalogTypeOK BY DEF Catalogued
<1>. QED BY <1>1, StartTyped, StepTyped, PTL DEF CatalogSpec

-----------------------------------------------------------------------------
(* The theorems. *)

\* An archived row is in no default list again, through every edit.
THEOREM ArchivedForGood == CatalogSpec => ArchiveSticks
<1>1. ASSUME Catalogued, [CatalogNext]_catalogVars
      PROVE  \A x \in archived : x \notin Shown'
  <2>1. CatalogTypeOK /\ PagesTyped BY <1>1, CatalogTypesSplit DEF Catalogued
  <2>2. archived \subseteq archived' BY <1>1, <2>1, StepNames, ArchiveKept
  <2>3. Shown' \cap archived' = {}
    <3>1. \A K : Listed(K, FALSE)' \cap archived' = {} BY DEF Listed
    <3>2. {p[1] : p \in list_flavor_notes(FALSE)}' \subseteq Listed(Note, FALSE)'
      <4>. SUFFICES ASSUME NEW p \in list_flavor_notes(FALSE)' PROVE p[1] \in Listed(Note, FALSE)'
        OBVIOUS
      <4>1. PICK x \in Listed(Note, FALSE)' :
              p = <<x, Cardinality({c \in Coffee \ archived' : x \in chips'[c]})>>
        BY DEF list_flavor_notes
      <4>. QED BY <4>1
    <3>3. list_coffees({}, FALSE)' \cap archived' = {} BY DEF list_coffees
    <3>. QED
      BY <3>1, <3>2, <3>3 DEF Shown, list_roasters, list_equipment, list_recipes
  <2>. QED BY <2>2, <2>3
<1>. QED BY <1>1, StartTyped, StepTyped, PTL DEF CatalogSpec, ArchiveSticks

\* What one waiting form loaded is what is stored, unless another save came between.
LoadedFresh(p) == (p.pc = "sent" /\ p.alone) => \A c \in p.row : p.old = grown[c]

LEMMA FormMovesFresh ==
  ASSUME CatalogTypeOK, LoadedIsCurrent, NEW u \in Client, NEW p, PageMoves(u, p), LoadedFresh(p)
  PROVE  LoadedIsCurrent'
<1>1. page \in [Client -> Form] BY CatalogTypesSplit DEF PagesTyped
<1>2. page'[u] = p /\ grown' = grown /\ \A v \in Client \ {u} : page'[v] = page[v]
  BY <1>1 DEF PageMoves
<1>. QED BY <1>2 DEF LoadedIsCurrent, LoadedFresh

LEMMA FormStaysFresh ==
  ASSUME CatalogTypeOK, LoadedIsCurrent, FormStays PROVE LoadedIsCurrent'
<1>1. page \in [Client -> Form] BY CatalogTypesSplit DEF PagesTyped
<1>2. CASE UNCHANGED page BY <1>2 DEF FormStays, LoadedIsCurrent
<1>3. ASSUME NEW u \in Client, NEW m, NEW g, NEW k, Types(u, m, g, k) PROVE LoadedIsCurrent'
  <2>1. page'[u].pc # "sent" /\ \A v \in Client \ {u} : page'[v] = page[v]
    BY <1>1, <1>3 DEF Types, Form
  <2>. QED BY <2>1 DEF FormStays, LoadedIsCurrent
<1>. QED BY <1>2, <1>3 DEF FormStays

LEMMA CoffeeFresh ==
  ASSUME Catalogued, LoadedIsCurrent, NEW u \in Client, CoffeeNext(u) PROVE LoadedIsCurrent'
<1>1. /\ page \in [Client -> Form] /\ page[u] \in Form /\ grown \in [Coffee -> SUBSET Varietal]
      /\ CatalogTypeOK /\ Opened /\ Closed.pc = "none"
  BY CatalogTypesSplit DEF Catalogued, PagesTyped, CoffeesTyped, Closed
<1>2. CASE new_coffee_form(u)
  BY <1>1, <1>2, FormMovesFresh DEF new_coffee_form, PageMoves, LoadedFresh, Form
<1>3. CASE update_coffee_handler(u)
  <2>1. PICK c \in Coffee : page[u].row = {c}
    BY <1>1, <1>3 DEF update_coffee_handler, Opened, OneCoffee
  <2>. DEFINE p == [page[u] EXCEPT !.pc = "sent", !.old = grown[c], !.alone = TRUE]
  <2>2. PageMoves(u, p) BY <1>3, <2>1 DEF update_coffee_handler, PageMoves
  <2>3. LoadedFresh(p) BY <1>1, <2>1 DEF LoadedFresh, Form
  <2>. HIDE DEF p
  <2>. QED BY <1>1, <2>2, <2>3, FormMovesFresh
<1>4. CASE FormRefused(u)
  <2>. DEFINE p == [page[u] EXCEPT !.pc = IF @ = "new" THEN "new" ELSE "edit",
                                   !.grown = {}, !.old = {}, !.alone = TRUE]
  <2>1. PageMoves(u, p) BY <1>4 DEF FormRefused, PageMoves
  <2>2. p.pc # "sent" BY <1>1 DEF Form
  <2>. HIDE DEF p
  <2>. QED BY <1>1, <2>1, <2>2, FormMovesFresh DEF LoadedFresh
<1>5. CASE CloseForm(u)
  BY <1>1, <1>5, FormMovesFresh DEF CloseForm, PageMoves, LoadedFresh
<1>6. ASSUME NEW c \in Coffee, edit_coffee_form(u, c) PROVE LoadedIsCurrent'
  BY <1>1, <1>6, FormMovesFresh DEF edit_coffee_form, PageMoves, LoadedFresh
<1>7. ASSUME NEW c \in Coffee, NEW n \in Typed, create_coffee(u, c, n) PROVE LoadedIsCurrent'
  <2>1. /\ ~ Exists(c) /\ page'[u].pc = "none"
        /\ \A v \in Client \ {u} : page'[v] = page[v]
        /\ \A d \in Coffee \ {c} : grown'[d] = grown[d]
    BY <1>1, <1>7 DEF create_coffee, coffees_create
  <2>2. \A v \in Client : page[v].pc = "sent" => page[v].row \subseteq Coffee \ {c}
    BY <1>1, <2>1 DEF Opened, OneCoffee
  <2>. QED BY <2>1, <2>2 DEF LoadedIsCurrent
<1>8. ASSUME NEW n \in Typed, update_coffee(u, n) PROVE LoadedIsCurrent'
  <2>1. PICK c \in Coffee : page[u].row = {c} /\ (Saves(u, c) \/ Refuses(u, c))
    BY <1>1, <1>8, Waiting
  <2>2. CASE Refuses(u, c)
    <3>. DEFINE p == [page[u] EXCEPT !.pc = "edit", !.old = {}, !.alone = TRUE]
    <3>1. PageMoves(u, p) /\ p.pc # "sent" BY <1>1, <2>2 DEF Refuses, Form
    <3>. HIDE DEF p
    <3>. QED BY <1>1, <3>1, FormMovesFresh DEF LoadedFresh
  <2>3. CASE Saves(u, c)
    <3>1. /\ page'[u].pc = "none" /\ \A d \in Coffee \ {c} : grown'[d] = grown[d]
      BY <1>1, <2>3 DEF Saves
    <3>2. ASSUME NEW v \in Client, page'[v].pc = "sent", page'[v].alone
          PROVE  \A d \in page'[v].row : page'[v].old = grown'[d]
      <4>1. v # u BY <3>1, <3>2
      <4>2. page'[v] = [page[v] EXCEPT !.alone = @ /\ page[v].row # {c}]
        BY <2>3, <4>1 DEF Saves
      <4>3. /\ page[v].pc = "sent" /\ page[v].alone /\ page[v].row # {c}
            /\ page'[v].row = page[v].row /\ page'[v].old = page[v].old
        BY <1>1, <3>2, <4>2 DEF Form
      <4>4. PICK d \in Coffee : page[v].row = {d} BY <1>1, <4>3 DEF Opened, OneCoffee
      <4>. QED BY <3>1, <4>3, <4>4 DEF LoadedIsCurrent
    <3>. QED BY <3>2 DEF LoadedIsCurrent
  <2>. QED BY <2>1, <2>2, <2>3
<1>9. ASSUME NEW c \in Coffee, archive_coffee_handler(c) PROVE LoadedIsCurrent'
  BY <1>1, <1>9, ArchiveCoffee, FormStaysFresh
<1>. QED BY <1>2, <1>3, <1>4, <1>5, <1>6, <1>7, <1>8, <1>9 DEF CoffeeNext

LEMMA StepFresh == Catalogued /\ LoadedIsCurrent /\ [CatalogNext]_catalogVars => LoadedIsCurrent'
<1>. SUFFICES ASSUME Catalogued, LoadedIsCurrent, [CatalogNext]_catalogVars
              PROVE  LoadedIsCurrent'
  OBVIOUS
<1>1. CatalogTypeOK /\ PagesTyped BY CatalogTypesSplit DEF Catalogued
<1>2. CASE UNCHANGED catalogVars BY <1>2 DEF catalogVars, LoadedIsCurrent
<1>. QED
  BY <1>1, <1>2, CoffeeFresh, FormStaysFresh, RoasterSteps, NoteSteps, VarietalSteps, TableSteps
  DEF CatalogNext

LEMMA StartFresh == CatalogInit => LoadedIsCurrent
  BY DEF CatalogInit, LoadedIsCurrent, Closed

\* A save that no other save of its coffee overlapped works on what is stored.
THEOREM LoadsStayFresh == CatalogSpec => []LoadedIsCurrent
  BY StartTyped, StepTyped, StartFresh, StepFresh, PTL DEF CatalogSpec

LEMMA SavesItsForm ==
  ASSUME Catalogued, LoadedIsCurrent, CatalogNext, NEW u \in Client, Saved(u), page[u].alone
  PROVE  \A c \in page[u].row : /\ grown'[c] = page[u].grown
                                /\ chips'[c] = page[u].chips
                                /\ maker'[c] = page[u].maker
<1>1. /\ page \in [Client -> Form] /\ CatalogTypeOK /\ PagesTyped
      /\ grown \in [Coffee -> SUBSET Varietal] /\ maker \in [Coffee -> SUBSET Roaster]
      /\ chips \in [Coffee -> SUBSET Note]
  BY CatalogTypesSplit DEF Catalogued, PagesTyped, CoffeesTyped
<1>2. page[u].pc = "sent" /\ page'[u].pc = "none" BY DEF Saved
<1>3. ~ FormStays
  <2>1. UNCHANGED page => FALSE BY <1>2
  <2>2. ASSUME NEW v \in Client, NEW m, NEW g, NEW k, Types(v, m, g, k) PROVE FALSE
    BY <1>1, <1>2, <2>2 DEF Types, Form
  <2>. QED BY <2>1, <2>2 DEF FormStays
<1>4. PICK v \in Client : CoffeeNext(v)
  BY <1>1, <1>3, RoasterSteps, NoteSteps, VarietalSteps, TableSteps DEF CatalogNext
<1>5. v = u /\ \E n \in Typed : update_coffee(u, n)
  <2>1. page[v].pc # "sent" /\ (\A w \in Client \ {v} : page'[w] = page[w]) => FALSE BY <1>2
  <2>2. CASE \/ new_coffee_form(v) \/ update_coffee_handler(v) \/ CloseForm(v)
             \/ \E c \in Coffee : edit_coffee_form(v, c) \/ \E n \in Typed : create_coffee(v, c, n)
    BY <1>1, <2>1, <2>2
    DEF new_coffee_form, update_coffee_handler, CloseForm, edit_coffee_form, create_coffee
  <2>3. CASE FormRefused(v) BY <1>1, <1>2, <2>3 DEF FormRefused, Form
  <2>4. CASE \E c \in Coffee : archive_coffee_handler(c) BY <1>3, <2>4, ArchiveCoffee
  <2>5. CASE \E n \in Typed : update_coffee(v, n)
    <3>1. PICK c \in Coffee : Saves(v, c) \/ Refuses(v, c)
      BY <1>1, <2>5, Waiting DEF Catalogued
    <3>2. ~ Refuses(v, c) BY <1>1, <1>2 DEF Refuses, PageMoves, Form
    <3>3. v = u BY <1>1, <1>2, <3>1, <3>2 DEF Saves, Form
    <3>. QED BY <2>5, <3>3
  <2>. QED BY <1>4, <2>2, <2>3, <2>4, <2>5 DEF CoffeeNext
<1>6. PICK c \in Coffee : page[u].row = {c} /\ (Saves(u, c) \/ Refuses(u, c))
  BY <1>1, <1>5, Waiting DEF Catalogued
<1>7. Saves(u, c) BY <1>1, <1>2, <1>6 DEF Refuses, PageMoves, Form
<1>8. page[u].old = grown[c] BY <1>2, <1>6 DEF LoadedIsCurrent
<1>9. /\ grown'[c] = (grown[c] \ VarietalDelta(u).del) \cup VarietalDelta(u).add
      /\ chips'[c] = page[u].chips /\ maker'[c] = page[u].maker
  BY <1>1, <1>7 DEF Saves
<1>10. grown'[c] = page[u].grown BY <1>8, <1>9 DEF VarietalDelta
<1>. QED BY <1>6, <1>9, <1>10

\* An undisturbed save stores its form: roaster, chips and varietals.
THEOREM SavesAsSubmitted == CatalogSpec => SavedAsSubmitted
<1>1. ASSUME Catalogued, LoadedIsCurrent, [CatalogNext]_catalogVars
      PROVE  \A u \in Client : (Saved(u) /\ page[u].alone) =>
               \A c \in page[u].row : /\ grown'[c] = page[u].grown
                                      /\ chips'[c] = page[u].chips
                                      /\ maker'[c] = page[u].maker
  <2>1. CASE UNCHANGED catalogVars BY <2>1 DEF catalogVars, Saved
  <2>. QED BY <1>1, <2>1, SavesItsForm
<1>. QED BY <1>1, StartTyped, StepTyped, StartFresh, StepFresh, PTL
     DEF CatalogSpec, SavedAsSubmitted
=============================================================================
