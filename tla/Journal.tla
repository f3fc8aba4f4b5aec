------------------------------ MODULE Journal ------------------------------
(***************************************************************************)
(* The brew journal: sessions, the equipment usage counter, the notes a    *)
(* coffee advertises, and CSV import.                                      *)
(*                                                                         *)
(* A tab opens the brew form prefilled from an earlier session and from    *)
(* the coffee's chips, or filled from the session it edits.  POST          *)
(* /brew/{id} loads the session, waits for the body and then saves; what   *)
(* it believes to be the old equipment and the old notes is what it loaded *)
(* before the wait, since the identity map keeps that object.  Saves run   *)
(* on the event loop and commit once, so a save is one step.               *)
(*                                                                         *)
(* No form sends bag_id, so sessions carry no bag.  A form never names one *)
(* piece of equipment in two slots: each select lists one type.            *)
(* delete_brew_session has no route and no action here.                    *)
(***************************************************************************)
EXTENDS Integers, FiniteSets

CONSTANTS Session, Tab, User, Brewed, Tasted, Kit, Slot, Time, None, Counts
          \* Brewed: coffees; Tasted: flavor notes; Kit: equipment; Time: brewed_at
          \* Counts: the usage counts considered (overlapping edits can make
          \* the counter drift without end; a run bounds it here)

ASSUME CountsAreIntegers == Counts \subseteq Int /\ 0 \in Counts
ASSUME NoneIsNothing == None \notin User \cup Kit \cup Time
ASSUME SetsAreFinite == IsFiniteSet(Slot) /\ IsFiniteSet(Session)

VARIABLES
  sess,       \* brew_sessions, NoSession for an id not used yet
  usage,      \* equipment.usage_count
  advert,     \* coffees.advertised_flavor_note_ids
  form,       \* the brew form of each tab, and the edit it has sent
  imports,    \* CSV files imported so far
  skewed      \* history: equipment of imported sessions and of overlapping edits

journalVars == <<sess, usage, advert, form, imports, skewed>>

MaxImports == 2
NoSession == [user |-> None]
Bare == [sl \in Slot |-> None]
Setups == {k \in [Slot -> Kit \cup {None}] :
             \A a, b \in Slot : a # b => k[a] = None \/ k[a] # k[b]}
\* born: the files imported when the session was logged, its own included.
SessionRow == [user: User, coffee: Brewed, kit: Setups, notes: SUBSET Tasted, at: Time,
               born: 0..MaxImports, imported: BOOLEAN, edited: BOOLEAN]
Shut == [pc |-> "none", user |-> None, row |-> {}, coffee |-> None, kit |-> Bare,
         notes |-> {}, oldKit |-> Bare, oldNotes |-> {}, alone |-> TRUE]

Logged == {s \in Session : sess[s] # NoSession}
Own(u) == {s \in Logged : sess[s].user = u}
UsedIn(k) == {k[sl] : sl \in Slot} \ {None}

JournalTypeOK ==
  /\ sess \in [Session -> SessionRow \cup {NoSession}]
  /\ usage \in [Kit -> Counts]
  /\ advert \in [Brewed -> SUBSET Tasted]
  /\ form \in [Tab -> [pc: {"none", "new", "edit", "sent"}, user: User \cup {None},
                       row: SUBSET Session, coffee: Brewed \cup {None},
                       kit: Setups, notes: SUBSET Tasted,
                       oldKit: Setups, oldNotes: SUBSET Tasted, alone: BOOLEAN]]
  /\ imports \in 0..MaxImports
  /\ skewed \subseteq Kit

JournalInit ==
  /\ sess = [s \in Session |-> NoSession]
  /\ usage = [g \in Kit |-> 0]
  /\ advert = [c \in Brewed |-> {}]
  /\ form = [t \in Tab |-> Shut]
  /\ imports = 0 /\ skewed = {}

-----------------------------------------------------------------------------
(* Helpers of services/brew_sessions.py. *)

\* Mutant: the equipment that is no longer used keeps its count.
IncrementsOnly(old, new) ==
  [g \in Kit |-> Cardinality({sl \in Slot : new[sl] = g /\ old[sl] # g})]

\* Each slot that changed counts -1 for the old id and +1 for the new one.
_equipment_deltas_for_change(old, new) ==
  [g \in Kit |-> Cardinality({sl \in Slot : new[sl] = g /\ old[sl] # g})
                 - Cardinality({sl \in Slot : old[sl] = g /\ new[sl] # g})]

\* UPDATE ... SET usage_count = usage_count + delta
_adjust_usage_counts(delta) ==
  /\ \A g \in Kit : usage[g] + delta[g] \in Counts
  /\ usage' = [g \in Kit |-> usage[g] + delta[g]]

\* Mutant: the session's notes replace the coffee's.
SyncReplaces(c, old, new) == advert' = [advert EXCEPT ![c] = new]

_sync_coffee_flavor_notes(c, old, new) ==
  advert' = [advert EXCEPT ![c] = (@ \cup (new \ old)) \ (old \ new)]

\* brewed_at DESC LIMIT 1; equal times are broken either way.
latest_session(u, c) ==
  {s \in Own(u) : /\ sess[s].coffee = c
                  /\ \A r \in Own(u) : sess[r].coffee = c => sess[r].at <= sess[s].at}

\* The setup a new form starts from: that of the session to repeat, or of the
\* latest one with this coffee; a session of someone else counts as none.
resolve_prefill(u, c, from) ==
  LET source == IF from # {} THEN from \cap Own(u) ELSE latest_session(u, c)
  IN  IF source = {} THEN {Bare} ELSE {sess[s].kit : s \in source}

-----------------------------------------------------------------------------
(* The form. *)

new_brew_form(t, u, c, from) ==
  /\ form[t].pc = "none" /\ Cardinality(from) <= 1 /\ from \subseteq Logged
  /\ \E k \in resolve_prefill(u, c, from) :
       form' = [form EXCEPT ![t] = [Shut EXCEPT !.pc = "new", !.user = u, !.coffee = c,
                                                !.kit = k, !.notes = advert[c]]]
  /\ UNCHANGED <<sess, usage, advert, imports, skewed>>

\* Another coffee in the select swaps the prefilled fields in; the chips stay.
prefill_fragment(t, c) ==
  /\ form[t].pc = "new"
  /\ \E k \in resolve_prefill(form[t].user, c, {}) :
       form' = [form EXCEPT ![t].coffee = c, ![t].kit = k]
  /\ UNCHANGED <<sess, usage, advert, imports, skewed>>

edit_brew_form(t, s) ==
  /\ form[t].pc = "none" /\ s \in Logged
  /\ form' = [form EXCEPT ![t] = [Shut EXCEPT !.pc = "edit", !.user = sess[s].user,
                !.row = {s}, !.coffee = sess[s].coffee, !.kit = sess[s].kit,
                !.notes = sess[s].notes]]
  /\ UNCHANGED <<sess, usage, advert, imports, skewed>>

Fill(t, c, k, ns) ==
  /\ form[t].pc \in {"new", "edit"}
  /\ form' = [form EXCEPT ![t].coffee = c, ![t].kit = k, ![t].notes = ns]
  /\ UNCHANGED <<sess, usage, advert, imports, skewed>>

Leave(t) ==
  /\ form[t].pc \in {"new", "edit"}
  /\ form' = [form EXCEPT ![t] = Shut]
  /\ UNCHANGED <<sess, usage, advert, imports, skewed>>

\* Another member logs in on the browser that shows the form.
SwitchMember(t, u) ==
  /\ form[t].pc \in {"new", "edit"} /\ form[t].user # u
  /\ form' = [form EXCEPT ![t].user = u]
  /\ UNCHANGED <<sess, usage, advert, imports, skewed>>

\* The schema refuses a field: the page comes back with what was typed.
_render_form_error(t) ==
  /\ form[t].pc = "sent"
  /\ form' = [form EXCEPT ![t].pc = "edit", ![t].oldKit = Bare, ![t].oldNotes = {},
                          ![t].alone = TRUE]
  /\ UNCHANGED <<sess, usage, advert, imports, skewed>>

-----------------------------------------------------------------------------
(* Saves. *)

\* POST /brew: the row, the counters and the chips in one commit.
create_brew_session(t, s, at) ==
  /\ form[t].pc = "new" /\ s \in Session \ Logged
  /\ LET f == form[t] IN
       /\ sess' = [sess EXCEPT ![s] = [user |-> f.user, coffee |-> f.coffee, kit |-> f.kit,
                     notes |-> f.notes, at |-> at, born |-> imports,
                     imported |-> FALSE, edited |-> FALSE]]
       /\ _adjust_usage_counts(_equipment_deltas_for_change(Bare, f.kit))
       /\ _sync_coffee_flavor_notes(f.coffee, {}, f.notes)
  /\ form' = [form EXCEPT ![t] = Shut]
  /\ UNCHANGED <<imports, skewed>>

\* Mutant: the session is loaded by its id alone.
UpdateBrewOfAnyone(t) ==
  /\ form[t].pc = "edit"
  /\ \E s \in form[t].row :
       form' = [form EXCEPT ![t].pc = "sent", ![t].oldKit = sess[s].kit,
                            ![t].oldNotes = sess[s].notes, ![t].alone = TRUE]
  /\ UNCHANGED <<sess, usage, advert, imports, skewed>>

\* POST /brew/{id}: the session is loaded, 404 unless it is the member's own,
\* and the body awaited.
update_brew(t) ==
  /\ form[t].pc = "edit"
  /\ \E s \in form[t].row \cap Own(form[t].user) :
       form' = [form EXCEPT ![t].pc = "sent", ![t].oldKit = sess[s].kit,
                            ![t].oldNotes = sess[s].notes, ![t].alone = TRUE]
  /\ UNCHANGED <<sess, usage, advert, imports, skewed>>

\* The UPDATE also sets coffee_id on the loaded object, so the chips that are
\* synchronised are those of the coffee the session has been moved to.
update_brew_session(t, at) ==
  /\ form[t].pc = "sent"
  /\ LET f == form[t] IN \E s \in f.row :
       /\ sess' = [sess EXCEPT ![s] = [@ EXCEPT !.coffee = f.coffee, !.kit = f.kit,
                                          !.notes = f.notes, !.at = at, !.edited = TRUE]]
       /\ _adjust_usage_counts(_equipment_deltas_for_change(f.oldKit, f.kit))
       /\ _sync_coffee_flavor_notes(f.coffee, f.oldNotes, f.notes)
       /\ skewed' = IF f.alone THEN skewed
                    ELSE skewed \cup UsedIn(f.oldKit) \cup UsedIn(sess[s].kit) \cup UsedIn(f.kit)
       /\ form' = [o \in Tab |->
            IF o = t THEN Shut
            ELSE [form[o] EXCEPT !.alone = @ /\ ~ (form[o].pc = "sent" /\ s \in form[o].row)]]
  /\ UNCHANGED imports

\* The coffee form replaces the chips by the ones it carries.
update_coffee_chips(c, ns) ==
  /\ advert' = [advert EXCEPT ![c] = ns]
  /\ UNCHANGED <<sess, usage, form, imports, skewed>>

-----------------------------------------------------------------------------
(* CSV import: the rows that name a known coffee and parse. *)

\* Mutant: times are compared with < where they should be equal.
ExistsBefore(u, c, at) == \E s \in Own(u) : sess[s].coffee = c /\ sess[s].at < at

_session_exists(u, c, at) ==
  \E s \in Own(u) : sess[s].coffee = c /\ sess[s].at = at

\* A row without a time gets the time at which it is read.
_parse_brewed_at(raw, now) == IF raw = None THEN now ELSE raw

\* New gets a row each; a row that is in the table already is skipped, while
\* two equal rows of one file are both new.  Equipment is resolved and stored
\* but not counted.  The chips follow in a transaction of their own, whose
\* failure is only logged.
import_brews(u, New, rows, now) ==
  LET at == [s \in New |-> _parse_brewed_at(rows[s].at, now[s])] IN
  /\ imports < MaxImports /\ New # {} /\ New \cap Logged = {}
  /\ \A s \in New : ~ _session_exists(u, rows[s].coffee, at[s])
  /\ imports' = imports + 1
  /\ sess' = [s \in Session |->
       IF s \in New THEN [user |-> u, coffee |-> rows[s].coffee, kit |-> rows[s].kit,
                          notes |-> rows[s].notes, at |-> at[s], born |-> imports + 1,
                          imported |-> TRUE, edited |-> FALSE]
       ELSE sess[s]]
  /\ skewed' = skewed \cup UNION {UsedIn(rows[s].kit) : s \in New}
  /\ advert' \in {advert, [c \in Brewed |->
       advert[c] \cup UNION {rows[s].notes : s \in {x \in New : rows[x].coffee = c}}]}
  /\ UNCHANGED <<usage, form>>

CsvRow(C, K, N, T) == [coffee: C, kit: K, notes: SUBSET N, at: T \cup {None}]

\* The steps when coffees, setups, notes, times and members are drawn from
\* C, K, N, T and U.
JournalStep(C, K, N, T, U) ==
  \/ \E t \in Tab, u \in U, c \in C, from \in SUBSET Logged : new_brew_form(t, u, c, from)
  \/ \E t \in Tab, c \in C : prefill_fragment(t, c)
  \/ \E t \in Tab, s \in Session : edit_brew_form(t, s)
  \/ \E t \in Tab, u \in U : SwitchMember(t, u)
  \/ \E t \in Tab, c \in C, k \in K, ns \in SUBSET N : Fill(t, c, k, ns)
  \/ \E t \in Tab, s \in Session, at \in T : create_brew_session(t, s, at)
  \/ \E t \in Tab : Leave(t) \/ _render_form_error(t) \/ update_brew(t)
  \/ \E t \in Tab, at \in T : update_brew_session(t, at)
  \/ \E c \in C, ns \in SUBSET N : update_coffee_chips(c, ns)
  \/ \E u \in U, New \in SUBSET Session :
       \E rows \in [New -> CsvRow(C, K, N, T)], now \in [New -> T] :
         import_brews(u, New, rows, now)

JournalNext == JournalStep(Brewed, Setups, Tasted, Time, User)
JournalSpec == JournalInit /\ [][JournalNext]_journalVars

-----------------------------------------------------------------------------
\* The number of session slots that hold a piece of equipment.
InUse(g) == Cardinality({p \in Logged \X Slot : sess[p[1]].kit[p[2]] = g})

\* The denormalised counter is exact for every piece of equipment that was
\* never part of an imported session nor of two edits of one session that
\* overlapped: whatever is created, re-pointed, swapped between slots or
\* removed in between, by whichever tab. (Code: brew_sessions._adjust_usage_counts
\* and its callers.)
UsageExact == \A g \in Kit \ skewed : usage[g] = InUse(g)

\* An import adds no session where the member had one of the same coffee and
\* time before, logged by the form or by an earlier file: rows that give their
\* time, as every row of an export does, add nothing when they are imported
\* again, unless the session has been edited since. A row without a time is of
\* the time of its import, and comes in anew with each. (Code:
\* csv_io._session_exists, _parse_brewed_at.)
SameKey(r, s) ==
  sess[r].user = sess[s].user /\ sess[r].coffee = sess[s].coffee /\ sess[r].at = sess[s].at
Untouched(s) == s \in Logged /\ ~ sess[s].edited
FilesDontRepeat ==
  \A r, s \in Session : Untouched(r) /\ Untouched(s) /\ sess[s].imported /\ SameKey(r, s)
                          => sess[r].born >= sess[s].born

\* Saving a brew takes a chip off a coffee only when that very session listed
\* the note before; logging and importing take nothing off. Holds for every
\* save that met no other save of its session. (Code: brew_sessions._sync_coffee_flavor_notes.)
Dropped(c) == advert[c] \ advert'[c]
Overlapped == \E t \in Tab : form[t].pc = "sent" /\ form'[t].pc = "none" /\ ~ form[t].alone
ChipsNotStolen ==
  [][(sess' # sess /\ ~ Overlapped) =>
       \A c \in Brewed : \A n \in Dropped(c) :
         \E s \in Logged : n \in sess[s].notes \ sess'[s].notes /\ sess'[s].edited]_journalVars

\* Nobody's session ever changes hands, and a save touches no session but its
\* own. (Code: the user_id predicate of every brew_sessions query.)
SavesAreOwn ==
  [][\A s \in Logged : sess'[s] # sess[s] =>
       /\ sess'[s].user = sess[s].user
       /\ \E t \in Tab : form[t].user = sess[s].user /\ form[t].row = {s}]_journalVars
=============================================================================
