--------------------------- MODULE BrewingProofs ---------------------------
(***************************************************************************)
(* Why a draft is gone once it is saved and never hides what was typed     *)
(* last, why the usage counter of equipment is exact where it is, why      *)
(* files import once, and why sessions stay with their members.            *)
(***************************************************************************)
EXTENDS Journal, Drafts, FiniteSetTheorems, TLAPS

-----------------------------------------------------------------------------
(* Drafts: types. *)

\* No version is shown, stored, sent or saved before it is typed.
ScreenUpTo == {s \in Screen : s.ver <= typed}
CopyUpTo == {c \in Copy : c.ver <= typed}
SentUpTo == {m \in Request : m.ver <= typed}
VersionsTyped ==
  /\ typed \in Version
  /\ screen \in [Device -> ScreenUpTo] /\ local \in [Device -> CopyUpTo]
  /\ draft \in CopyUpTo /\ net \subseteq SentUpTo
  /\ advertises \in BOOLEAN
  /\ saved \subseteq 1..typed /\ returned \subseteq saved

\* What the steps put on a screen, into a copy or into a request.
LEMMA NothingTyped == typed \in Version => NoDraft \in CopyUpTo /\ Blank \in ScreenUpTo
  BY VersionsAreNumbers DEF NoDraft, Blank, CopyUpTo, ScreenUpTo, Copy, Screen, Version

LEMMA ScreenTurns ==
  ASSUME NEW s \in ScreenUpTo PROVE \A p \in {"open", "posting"} : [s EXCEPT !.pc = p] \in ScreenUpTo
  BY DEF ScreenUpTo, Screen

LEMMA FormSent ==
  ASSUME NEW d \in Device, NEW c, c \in ScreenUpTo \/ c \in CopyUpTo,
         NEW kind \in {"autosave", "submit", "clear"}
  PROVE  Send(kind, d, c) \in SentUpTo
  BY DEF Send, SentUpTo, Request, ScreenUpTo, CopyUpTo, Screen, Copy

LEMMA DraftTypesNext ==
  ASSUME VersionsTyped, [DraftsNext]_draftVars PROVE VersionsTyped'
<1>1. /\ typed \in Version
      /\ screen \in [Device -> ScreenUpTo] /\ local \in [Device -> CopyUpTo]
      /\ draft \in CopyUpTo /\ net \subseteq SentUpTo
      /\ advertises \in BOOLEAN
      /\ saved \subseteq 1..typed /\ returned \subseteq saved
  BY DEF VersionsTyped
<1>2. NoDraft \in CopyUpTo /\ Blank \in ScreenUpTo BY <1>1, NothingTyped
<1>3. \A m \in net : m.from \in Device /\ m.ver \in 0..typed /\ m.chips \in BOOLEAN
  BY <1>1 DEF SentUpTo, Request, Version
\* a step that types nothing
<1>4. ASSUME UNCHANGED typed, screen' \in [Device -> ScreenUpTo], local' \in [Device -> CopyUpTo],
             draft' \in CopyUpTo, net' \subseteq SentUpTo, advertises' \in BOOLEAN,
             saved' \subseteq 1..typed, returned' \subseteq saved'
      PROVE  VersionsTyped'
  BY <1>1, <1>4 DEF VersionsTyped, ScreenUpTo, CopyUpTo, SentUpTo
<1>5. ASSUME NEW d \in Device, UNCHANGED <<typed, local, draft, net, advertises, saved, returned>>,
             NEW s \in ScreenUpTo, screen' = [screen EXCEPT ![d] = s]
      PROVE  VersionsTyped'
  BY <1>1, <1>4, <1>5
<1>6. CASE UNCHANGED draftVars BY <1>1, <1>4, <1>6 DEF draftVars
<1>7. ASSUME NEW d \in Device, OpenPage(d) PROVE VersionsTyped'
  <2>1. PICK seeded \in BOOLEAN : new_brew_page(d, seeded) BY <1>7 DEF OpenPage
  <2>. DEFINE v == IF local[d].ver # 0 THEN local[d].ver ELSE draft.ver
              s == IF Unites THEN [Blank EXCEPT !.pc = "error"]
                   ELSE [pc |-> "open", chips |-> seeded, ver |-> v]
  <2>2. v \in Version /\ v <= typed BY <1>1 DEF CopyUpTo, Copy
  <2>3. s \in ScreenUpTo BY <1>1, <1>2, <2>2 DEF ScreenUpTo, Screen, Blank
  <2>4. screen' = [screen EXCEPT ![d] = s] BY <2>1 DEF new_brew_page
  <2>. QED BY <1>5, <1>7, <2>3, <2>4 DEF OpenPage
<1>8. ASSUME NEW d \in Device, _writeLocal(d) PROVE VersionsTyped'
  <2>1. typed' = typed + 1 /\ typed' \in Version
    BY <1>1, <1>8, VersionsAreNumbers DEF _writeLocal, Version
  <2>2. ScreenUpTo \subseteq ScreenUpTo' /\ CopyUpTo \subseteq CopyUpTo' /\ SentUpTo \subseteq SentUpTo'
    BY <1>1, <2>1 DEF ScreenUpTo, CopyUpTo, SentUpTo, Screen, Copy, Request, Version
  <2>3. [screen[d] EXCEPT !.ver = typed'] \in ScreenUpTo' BY <1>1, <2>1 DEF ScreenUpTo, Screen, Version
  <2>4. [ver |-> typed', chips |-> screen[d].chips] \in CopyUpTo'
    BY <1>1, <2>1 DEF ScreenUpTo, Screen, CopyUpTo, Copy, Version
  <2>5. screen' \in [Device -> ScreenUpTo'] /\ local' \in [Device -> CopyUpTo']
    BY <1>1, <1>8, <2>1, <2>2, <2>3, <2>4 DEF _writeLocal
  <2>6. saved' \subseteq 1..typed' BY <1>1, <1>8, <2>1 DEF _writeLocal, Version
  <2>. QED BY <1>1, <1>8, <2>1, <2>2, <2>5, <2>6 DEF _writeLocal, VersionsTyped
<1>9. ASSUME NEW d \in Device, PickChips(d) PROVE VersionsTyped'
  <2>1. [screen[d] EXCEPT !.chips = ~ @] \in ScreenUpTo BY <1>1 DEF ScreenUpTo, Screen
  <2>. QED BY <1>5, <1>9, <2>1 DEF PickChips
<1>10. ASSUME NEW d \in Device, _autosave(d) PROVE VersionsTyped'
  <2>1. Send("autosave", d, screen[d]) \in SentUpTo BY <1>1, FormSent
  <2>2. returned' \subseteq saved' BY <1>1, <1>10 DEF _autosave
  <2>. QED BY <1>1, <1>4, <1>10, <2>1, <2>2 DEF _autosave
<1>11. ASSUME NEW d \in Device, Submit(d) PROVE VersionsTyped'
  <2>1. Send("submit", d, screen[d]) \in SentUpTo BY <1>1, FormSent
  <2>2. [screen[d] EXCEPT !.pc = "posting"] \in ScreenUpTo BY <1>1, ScreenTurns
  <2>. QED BY <1>1, <1>2, <1>4, <1>11, <2>1, <2>2 DEF Submit
<1>12. ASSUME NEW d \in Device, discard(d) \/ discardAndLeave(d) PROVE VersionsTyped'
  <2>1. Send("clear", d, NoDraft) \in SentUpTo BY <1>2, FormSent
  <2>2. [screen[d] EXCEPT !.ver = 0] \in ScreenUpTo
    BY <1>1, VersionsAreNumbers DEF ScreenUpTo, Screen, Version
  <2>. QED
    BY <1>1, <1>2, <1>4, <1>12, <2>1, <2>2 DEF discard, discardAndLeave, _clearServerDraft
<1>13. ASSUME NEW d \in Device, ClosePage(d) PROVE VersionsTyped'
  BY <1>2, <1>5, <1>13 DEF ClosePage
<1>14. ASSUME NEW d \in Device, Evict(d) PROVE VersionsTyped'
  BY <1>1, <1>2, <1>4, <1>14 DEF Evict
<1>15. ASSUME NEW m \in net, save_draft(m) PROVE VersionsTyped'
  <2>1. _read_draft_payload(m) \in CopyUpTo
    BY <1>1 DEF _read_draft_payload, SentUpTo, Request, CopyUpTo, Copy
  <2>. QED BY <1>1, <1>4, <1>15, <2>1 DEF save_draft
<1>16. ASSUME NEW m \in net, create_brew(m) PROVE VersionsTyped'
  <2>1. saved' \subseteq 1..typed BY <1>1, <1>3, <1>16 DEF create_brew
  <2>2. returned' \subseteq saved' BY <1>1, <1>16 DEF create_brew
  <2>3. [m EXCEPT !.kind = "logged"] \in SentUpTo BY <1>1 DEF SentUpTo, Request
  <2>4. advertises' \in BOOLEAN BY <1>1, <1>3, <1>16 DEF create_brew
  <2>. QED BY <1>1, <1>4, <1>16, <2>1, <2>2, <2>3, <2>4 DEF create_brew
<1>17. ASSUME NEW m \in net, ClearAfterCreate(m) \/ ClearFails(m) \/ SubmitFailed(m)
       PROVE  VersionsTyped'
  <2>1. [screen[m.from] EXCEPT !.pc = "open"] \in ScreenUpTo BY <1>1, <1>3, ScreenTurns
  <2>2. [screen[m.from] EXCEPT !.pc = screen[m.from].pc] \in ScreenUpTo
    BY <1>1, <1>3 DEF ScreenUpTo, Screen
  <2>3. screen' \in [Device -> ScreenUpTo]
    BY <1>1, <1>2, <1>3, <1>17, <2>1, <2>2
    DEF ClearAfterCreate, ClearFails, SubmitFailed, Answered
  <2>4. draft' \in CopyUpTo /\ returned' \subseteq saved'
    BY <1>1, <1>2, <1>17 DEF ClearAfterCreate, ClearFails, SubmitFailed
  <2>. QED BY <1>1, <1>4, <1>17, <2>3, <2>4 DEF ClearAfterCreate, ClearFails, SubmitFailed
<1>18. ASSUME NEW m \in net, clear_draft(m) PROVE VersionsTyped'
  BY <1>1, <1>2, <1>4, <1>18 DEF clear_draft
<1>19. ASSUME NEW m \in net, Lose(m) PROVE VersionsTyped'
  BY <1>1, <1>4, <1>19 DEF Lose
<1>. QED
  BY <1>6, <1>7, <1>8, <1>9, <1>10, <1>11, <1>12, <1>13, <1>14, <1>15, <1>16, <1>17, <1>18,
     <1>19 DEF DraftsNext

LEMMA DraftTypesInit == DraftsInit => VersionsTyped
<1>1. DraftsInit => typed \in Version BY VersionsAreNumbers DEF DraftsInit, Version
<1>. QED BY <1>1, NothingTyped DEF DraftsInit, VersionsTyped

\* Every reachable state of the drafts is well typed.
THEOREM DraftTypes == DraftsSpec => []DraftsTypeOK
<1>1. VersionsTyped => DraftsTypeOK
  BY DEF VersionsTyped, DraftsTypeOK, ScreenUpTo, CopyUpTo, SentUpTo
<1>. QED BY <1>1, DraftTypesInit, DraftTypesNext, PTL DEF DraftsSpec

-----------------------------------------------------------------------------
(* Drafts: gone once saved. *)

\* An autosave under way that would bring a saved version back is accounted
\* for, one create at a time is between its commits, and a saved version that
\* is the draft unaccounted for is the one that create has logged.
ReturnsCounted ==
  /\ \A m, n \in Sent("logged") : m = n
  /\ draft.ver \in saved => \/ draft.ver \in returned
                            \/ \E m \in Sent("logged") : m.ver = draft.ver
  /\ \A m \in Sent("autosave") : m.ver \in saved => m.ver \in returned

LEMMA ReturnsCountedNext ==
  ASSUME VersionsTyped, ReturnsCounted, [DraftsNext]_draftVars PROVE ReturnsCounted'
<1>1. saved \subseteq 1..typed /\ net \subseteq Request
  BY DEF VersionsTyped, SentUpTo
<1>2. 0 \notin saved BY <1>1
<1>. USE DEF ReturnsCounted, Sent
<1>3. CASE UNCHANGED <<draft, net, saved, returned>> BY <1>3
<1>4. ASSUME NEW d \in Device, _autosave(d) PROVE ReturnsCounted'
  BY <1>4 DEF _autosave, Send
<1>5. ASSUME NEW d \in Device, Submit(d) PROVE ReturnsCounted' BY <1>5 DEF Submit, Send
<1>6. ASSUME NEW d \in Device, discard(d) \/ discardAndLeave(d) PROVE ReturnsCounted'
  BY <1>6 DEF discard, discardAndLeave, _clearServerDraft, Send
<1>7. ASSUME NEW m \in net, save_draft(m) PROVE ReturnsCounted'
  BY <1>7 DEF save_draft, _read_draft_payload
<1>8. ASSUME NEW m \in net, create_brew(m) PROVE ReturnsCounted'
  <2>. DEFINE logged == [m EXCEPT !.kind = "logged"]
  <2>1. logged.kind = "logged" /\ logged.ver = m.ver BY <1>1, <1>8 DEF Request
  <2>2. Sent("logged")' = {logged} BY <1>8, <2>1 DEF create_brew, BetweenCommits
  <2>3. \A n \in Sent("autosave")' : n \in Sent("autosave") BY <1>8, <2>1 DEF create_brew
  <2>4. \A v \in saved' : v \in saved \/ v = m.ver BY <1>8 DEF create_brew
  <2>5. draft.ver \in saved => draft.ver \in returned BY <1>8 DEF create_brew, BetweenCommits
  <2>6. \A n \in Sent("autosave")' : n.ver \in saved' => n.ver \in returned'
    BY <1>8, <2>3, <2>4 DEF create_brew
  <2>7. draft' = draft /\ returned \subseteq returned' BY <1>8 DEF create_brew
  <2>. QED BY <2>1, <2>2, <2>4, <2>5, <2>6, <2>7
<1>9. ASSUME NEW m \in net, ClearAfterCreate(m) PROVE ReturnsCounted'
  BY <1>2, <1>9 DEF ClearAfterCreate, NoDraft
<1>10. ASSUME NEW m \in net, ClearFails(m) PROVE ReturnsCounted'
  BY <1>10 DEF ClearFails
<1>11. ASSUME NEW m \in net, SubmitFailed(m) \/ Lose(m) PROVE ReturnsCounted'
  BY <1>11 DEF SubmitFailed, Lose
<1>12. ASSUME NEW m \in net, clear_draft(m) PROVE ReturnsCounted'
  BY <1>2, <1>12 DEF clear_draft, NoDraft
<1>13. ASSUME NEW d \in Device,
              OpenPage(d) \/ _writeLocal(d) \/ PickChips(d) \/ ClosePage(d) \/ Evict(d)
       PROVE  UNCHANGED <<draft, net, saved, returned>>
  BY <1>13 DEF OpenPage, _writeLocal, PickChips, ClosePage, Evict
<1>. QED
  BY <1>3, <1>4, <1>5, <1>6, <1>7, <1>8, <1>9, <1>10, <1>11, <1>12, <1>13
  DEF DraftsNext, draftVars

\* A brew that was logged does not come back as a draft, but by an autosave
\* that raced or followed its submit, or a second commit of create_brew that
\* has not come yet or never came. (Code: routers/brew.create_brew, save_draft.)
THEOREM SavedDraftsGo == DraftsSpec => []DraftGoneOnceSaved
<1>1. DraftsInit => ReturnsCounted
  BY DEF DraftsInit, ReturnsCounted, Sent
<1>2. ReturnsCounted => DraftGoneOnceSaved
  BY DEF ReturnsCounted, DraftGoneOnceSaved, BetweenCommits
<1>. QED
  BY <1>1, <1>2, DraftTypesInit, DraftTypesNext, ReturnsCountedNext, PTL DEF DraftsSpec

-----------------------------------------------------------------------------
(* Drafts: the newest typing. *)

\* It holds while a submit is under way too: its answer may reopen the form.
LocalShown ==
  \A d \in Device : (screen[d].pc \in {"open", "posting"} /\ local[d].ver # 0)
                      => screen[d].ver = local[d].ver

LEMMA LocalShownNext ==
  ASSUME VersionsTyped, LocalShown, [DraftsNext]_draftVars PROVE LocalShown'
<1>. USE DEF LocalShown
<1>1. screen \in [Device -> Screen] /\ local \in [Device -> Copy] /\ net \subseteq Request
  BY DEF VersionsTyped, ScreenUpTo, CopyUpTo, SentUpTo
<1>2. CASE UNCHANGED <<screen, local>> BY <1>2
<1>3. ASSUME NEW d \in Device, OpenPage(d) PROVE LocalShown'
  BY <1>1, <1>3 DEF OpenPage, new_brew_page, Blank
<1>4. ASSUME NEW d \in Device, _writeLocal(d) PROVE LocalShown'
  BY <1>1, <1>4 DEF _writeLocal, Screen, Copy
<1>5. ASSUME NEW d \in Device, PickChips(d) PROVE LocalShown'
  BY <1>1, <1>5 DEF PickChips, Screen
<1>6. ASSUME NEW d \in Device, Submit(d) \/ discard(d) \/ discardAndLeave(d) PROVE LocalShown'
  BY <1>1, <1>6 DEF Submit, discard, discardAndLeave, Screen, Copy, NoDraft
<1>7. ASSUME NEW d \in Device, ClosePage(d) \/ Evict(d) PROVE LocalShown'
  BY <1>1, <1>7 DEF ClosePage, Evict, Blank, NoDraft
<1>8. ASSUME NEW m \in net, ClearAfterCreate(m) \/ ClearFails(m) \/ SubmitFailed(m)
      PROVE  LocalShown'
  <2>. DEFINE d == m.from
  <2>1. d \in Device /\ UNCHANGED local
    BY <1>1, <1>8 DEF ClearAfterCreate, ClearFails, SubmitFailed, Request
  <2>2. \/ screen' = [screen EXCEPT ![d] = Blank]
        \/ screen' = [screen EXCEPT ![d].pc = IF screen[d].pc = "posting" THEN "open"
                                              ELSE screen[d].pc]
    BY <1>8 DEF ClearAfterCreate, ClearFails, SubmitFailed, Answered
  <2>. QED BY <1>1, <2>1, <2>2 DEF Blank, Screen
<1>9. (\E d \in Device : _autosave(d)) => UNCHANGED <<screen, local>> BY DEF _autosave
<1>10. (\E m \in net : save_draft(m) \/ create_brew(m) \/ clear_draft(m) \/ Lose(m))
         => UNCHANGED <<screen, local>>
  BY DEF save_draft, create_brew, clear_draft, Lose
<1>. QED
  BY <1>2, <1>3, <1>4, <1>5, <1>6, <1>7, <1>8, <1>9, <1>10 DEF DraftsNext, draftVars

\* What was typed last on a device is what its fields show, the chips
\* excepted, whatever the server's copy holds. (Code: brew-draft.js init.)
THEOREM TypingWins == DraftsSpec => []NewestTypingShown
<1>1. DraftsInit => LocalShown BY DEF DraftsInit, LocalShown, Blank
<1>2. LocalShown => NewestTypingShown BY DEF LocalShown, NewestTypingShown
<1>. QED
  BY <1>1, <1>2, DraftTypesInit, DraftTypesNext, LocalShownNext, PTL DEF DraftsSpec

-----------------------------------------------------------------------------
(* Journal: what a form knows. *)

FormOf == [pc: {"none", "new", "edit", "sent"}, user: User \cup {None},
           row: SUBSET Session, coffee: Brewed \cup {None},
           kit: Setups, notes: SUBSET Tasted,
           oldKit: Setups, oldNotes: SUBSET Tasted, alone: BOOLEAN]

\* An open form has a member and a coffee, an edit one logged session, and a
\* save under way a session of its own member; what it loaded is what is
\* stored until another save of that session overlaps.
Sound(f) ==
  /\ f \in FormOf
  /\ f.pc # "none" => f.user \in User /\ f.coffee \in Brewed
  /\ f.pc \in {"edit", "sent"} => \E s \in Logged : f.row = {s}
  /\ f.pc = "sent" => f.row \subseteq Own(f.user)
  /\ f.pc = "sent" /\ f.alone =>
       \A s \in f.row : f.oldKit = sess[s].kit /\ f.oldNotes = sess[s].notes

SessTyped == sess \in [Session -> SessionRow \cup {NoSession}]
RestTyped == /\ usage \in [Kit -> Counts] /\ advert \in [Brewed -> SUBSET Tasted]
             /\ imports \in 0..MaxImports /\ skewed \subseteq Kit
FormsSound == form \in [Tab -> FormOf] /\ \A t \in Tab : Sound(form[t])

Knows == SessTyped /\ RestTyped /\ FormsSound

LEMMA RowsAreRows == \A x \in SessionRow : x # NoSession /\ x.user \in User
  BY NoneIsNothing DEF SessionRow, NoSession

LEMMA LoggedRows == SessTyped => \A s \in Logged : sess[s] \in SessionRow
  BY DEF SessTyped, Logged

LEMMA BareIsSetup == Bare \in Setups
  BY DEF Bare, Setups

LEMMA ShutSound == Sound(Shut)
  BY BareIsSetup DEF Shut, Sound, FormOf

LEMMA PrefillTyped ==
  ASSUME SessTyped, NEW u, NEW c, NEW from PROVE resolve_prefill(u, c, from) \subseteq Setups
<1>1. \A s \in Logged : sess[s].kit \in Setups BY LoggedRows DEF SessionRow
<1>2. from \cap Own(u) \subseteq Logged /\ latest_session(u, c) \subseteq Logged
  BY DEF Own, latest_session
<1>. QED BY <1>1, <1>2, BareIsSetup DEF resolve_prefill

\* A step that moves one form and nothing else.
LEMMA FormMoves ==
  ASSUME Knows, NEW t \in Tab, NEW f, Sound(f), form' = [form EXCEPT ![t] = f],
         UNCHANGED <<sess, usage, advert, imports, skewed>>
  PROVE  Knows'
<1>1. SessTyped' /\ RestTyped' BY DEF Knows, SessTyped, RestTyped
<1>2. form' \in [Tab -> FormOf] BY DEF Knows, FormsSound, Sound
<1>3. \A g \in FormOf : Sound(g) => Sound(g)' BY DEF Sound, Logged, Own
<1>4. \A o \in Tab : Sound(form'[o]) BY DEF Knows, FormsSound
<1>. QED BY <1>1, <1>2, <1>3, <1>4 DEF Knows, FormsSound

LEMMA FormSteps ==
  ASSUME Knows, NEW t \in Tab
  PROVE  /\ \A u \in User, c \in Brewed, from \in SUBSET Logged :
              new_brew_form(t, u, c, from) => Knows'
         /\ \A c \in Brewed : prefill_fragment(t, c) => Knows'
         /\ \A s \in Session : edit_brew_form(t, s) => Knows'
         /\ \A u \in User : SwitchMember(t, u) => Knows'
         /\ \A c \in Brewed, k \in Setups, ns \in SUBSET Tasted : Fill(t, c, k, ns) => Knows'
         /\ Leave(t) \/ _render_form_error(t) \/ update_brew(t) => Knows'
<1>0. /\ form[t] \in FormOf /\ Sound(form[t]) /\ SessTyped /\ form \in [Tab -> FormOf]
      /\ advert \in [Brewed -> SUBSET Tasted]
  BY DEF Knows, FormsSound, RestTyped
<1>1. ASSUME NEW u \in User, NEW c \in Brewed, NEW from \in SUBSET Logged,
             new_brew_form(t, u, c, from)
      PROVE  Knows'
  <2>1. PICK k \in resolve_prefill(u, c, from) :
          form' = [form EXCEPT ![t] = [Shut EXCEPT !.pc = "new", !.user = u, !.coffee = c,
                                                !.kit = k, !.notes = advert[c]]]
    BY <1>1 DEF new_brew_form
  <2>2. k \in Setups BY <1>0, PrefillTyped
  <2>3. Sound([Shut EXCEPT !.pc = "new", !.user = u, !.coffee = c,
                                                !.kit = k, !.notes = advert[c]])
    BY <1>0, <2>2, BareIsSetup DEF Sound, FormOf, Shut
  <2>. QED BY <1>1, <2>1, <2>3, FormMoves DEF new_brew_form
<1>2. ASSUME NEW c \in Brewed, prefill_fragment(t, c) PROVE Knows'
  <2>1. PICK k \in resolve_prefill(form[t].user, c, {}) :
          form' = [form EXCEPT ![t].coffee = c, ![t].kit = k]
    BY <1>2 DEF prefill_fragment
  <2>2. k \in Setups BY <1>0, PrefillTyped
  <2>3. form[t].pc = "new" BY <1>2 DEF prefill_fragment
  <2>4. Sound([form[t] EXCEPT !.coffee = c, !.kit = k]) BY <1>0, <2>2, <2>3 DEF Sound, FormOf
  <2>5. form' = [form EXCEPT ![t] = [form[t] EXCEPT !.coffee = c, !.kit = k]] BY <1>0, <2>1
  <2>. QED BY <1>2, <2>4, <2>5, FormMoves DEF prefill_fragment
<1>3. ASSUME NEW s \in Session, edit_brew_form(t, s) PROVE Knows'
  <2>. DEFINE f == [Shut EXCEPT !.pc = "edit", !.user = sess[s].user,
                !.row = {s}, !.coffee = sess[s].coffee, !.kit = sess[s].kit,
                !.notes = sess[s].notes]
  <2>1. s \in Logged /\ form' = [form EXCEPT ![t] = f] BY <1>3 DEF edit_brew_form
  <2>2. sess[s] \in SessionRow BY <1>0, <2>1, LoggedRows
  <2>3. Sound(f) BY <2>1, <2>2, BareIsSetup DEF Sound, FormOf, Shut, SessionRow
  <2>. QED BY <1>3, <2>1, <2>3, FormMoves DEF edit_brew_form
<1>4. ASSUME NEW u \in User, SwitchMember(t, u) PROVE Knows'
  <2>1. form' = [form EXCEPT ![t] = [form[t] EXCEPT !.user = u]] /\ form[t].pc \in {"new", "edit"}
    BY <1>0, <1>4 DEF SwitchMember
  <2>2. Sound([form[t] EXCEPT !.user = u]) BY <1>0, <2>1 DEF Sound, FormOf
  <2>. QED BY <1>4, <2>1, <2>2, FormMoves DEF SwitchMember
<1>5. ASSUME NEW c \in Brewed, NEW k \in Setups, NEW ns \in SUBSET Tasted, Fill(t, c, k, ns)
      PROVE  Knows'
  <2>1. /\ form' = [form EXCEPT ![t] = [form[t] EXCEPT !.coffee = c, !.kit = k, !.notes = ns]]
        /\ form[t].pc \in {"new", "edit"}
    BY <1>0, <1>5 DEF Fill
  <2>2. Sound([form[t] EXCEPT !.coffee = c, !.kit = k, !.notes = ns])
    BY <1>0, <2>1 DEF Sound, FormOf
  <2>. QED BY <1>5, <2>1, <2>2, FormMoves DEF Fill
<1>6. ASSUME Leave(t) PROVE Knows'
  BY <1>6, ShutSound, FormMoves DEF Leave
<1>7. ASSUME _render_form_error(t) PROVE Knows'
  <2>. DEFINE f == [form[t] EXCEPT !.pc = "edit", !.oldKit = Bare, !.oldNotes = {}, !.alone = TRUE]
  <2>1. form' = [form EXCEPT ![t] = f] /\ form[t].pc = "sent"
    BY <1>0, <1>7 DEF _render_form_error
  <2>2. Sound(f) BY <1>0, <2>1, BareIsSetup DEF Sound, FormOf
  <2>. QED BY <1>7, <2>1, <2>2, FormMoves DEF _render_form_error
<1>8. ASSUME update_brew(t) PROVE Knows'
  <2>1. PICK s \in form[t].row \cap Own(form[t].user) :
          form' = [form EXCEPT ![t].pc = "sent", ![t].oldKit = sess[s].kit,
                            ![t].oldNotes = sess[s].notes, ![t].alone = TRUE]
    BY <1>8 DEF update_brew
  <2>. DEFINE f == [form[t] EXCEPT !.pc = "sent", !.oldKit = sess[s].kit,
                                   !.oldNotes = sess[s].notes, !.alone = TRUE]
  <2>2. form' = [form EXCEPT ![t] = f] /\ form[t].pc = "edit"
    BY <1>0, <1>8, <2>1 DEF update_brew
  <2>3. s \in Logged /\ form[t].row = {s} BY <1>0, <2>1, <2>2 DEF Sound, Own
  <2>4. sess[s] \in SessionRow BY <1>0, <2>3, LoggedRows
  <2>5. Sound(f) BY <1>0, <2>1, <2>2, <2>3, <2>4 DEF Sound, FormOf, SessionRow
  <2>. QED BY <1>8, <2>2, <2>5, FormMoves DEF update_brew
<1>. QED BY <1>1, <1>2, <1>3, <1>4, <1>5, <1>6, <1>7, <1>8

\* The tab o has sent a save of the session r.
Waits(o, r) == form[o].pc = "sent" /\ form[o].row = {r}

\* A step that writes sessions: no session changes hands, and a form that is
\* left alone either is not concerned or knows that it is not alone.
LEMMA SessionsMove ==
  ASSUME Knows, SessTyped', RestTyped', form' \in [Tab -> FormOf],
         \A s \in Logged : s \in Logged' /\ sess'[s].user = sess[s].user,
         \A o \in Tab :
           \/ form'[o] = Shut
           \/ form'[o] = [form[o] EXCEPT !.alone = FALSE]
           \/ form'[o] = form[o] /\ \A r \in Logged : Waits(o, r) => sess'[r] = sess[r]
  PROVE  Knows'
<1>. SUFFICES ASSUME NEW o \in Tab PROVE Sound(form[o])'
  BY DEF Knows, FormsSound
<1>1. form[o] \in FormOf /\ Sound(form[o]) BY DEF Knows, FormsSound
<1>2. CASE form'[o] = Shut
  BY <1>2, ShutSound DEF Sound, Shut
<1>3. CASE form'[o] = [form[o] EXCEPT !.alone = FALSE]
  BY <1>1, <1>3 DEF Sound, FormOf, Own
<1>4. CASE form'[o] = form[o] /\ \A r \in Logged : Waits(o, r) => sess'[r] = sess[r]
  BY <1>1, <1>4 DEF Sound, Own, Waits
<1>. QED BY <1>2, <1>3, <1>4

LEMMA CreateKnows ==
  ASSUME Knows, NEW t \in Tab, NEW s \in Session, NEW at \in Time, create_brew_session(t, s, at)
  PROVE  Knows'
<1>. DEFINE f == form[t]
            x == [user |-> f.user, coffee |-> f.coffee, kit |-> f.kit,
                     notes |-> f.notes, at |-> at, born |-> imports,
                     imported |-> FALSE, edited |-> FALSE]
<1>1. /\ f.pc = "new" /\ s \in Session \ Logged /\ sess' = [sess EXCEPT ![s] = x]
      /\ _adjust_usage_counts(_equipment_deltas_for_change(Bare, f.kit))
      /\ _sync_coffee_flavor_notes(f.coffee, {}, f.notes)
      /\ form' = [form EXCEPT ![t] = Shut] /\ UNCHANGED <<imports, skewed>>
  BY DEF create_brew_session
<1>2. f \in FormOf /\ Sound(f) /\ SessTyped /\ RestTyped /\ form \in [Tab -> FormOf]
  BY DEF Knows, FormsSound
<1>3. x \in SessionRow BY <1>1, <1>2 DEF Sound, FormOf, SessionRow, RestTyped
<1>4. SessTyped' BY <1>1, <1>2, <1>3 DEF SessTyped
<1>5. RestTyped'
  <2>1. usage' \in [Kit -> Counts] BY <1>1 DEF _adjust_usage_counts
  <2>2. advert' \in [Brewed -> SUBSET Tasted]
    BY <1>1, <1>2 DEF _sync_coffee_flavor_notes, RestTyped, FormOf, Sound
  <2>. QED BY <1>1, <1>2, <2>1, <2>2 DEF RestTyped
<1>6. form' \in [Tab -> FormOf] BY <1>1, <1>2, ShutSound DEF Sound
<1>7. \A r \in Logged : r \in Logged' /\ sess'[r] = sess[r] BY <1>1, <1>2 DEF Logged, SessTyped
<1>8. \A o \in Tab : form'[o] = Shut \/ form'[o] = form[o] BY <1>1, <1>2
<1>. QED BY <1>4, <1>5, <1>6, <1>7, <1>8, SessionsMove

\* What POST /brew/{id} does to the session s.
EditedRow(t, at, s) ==
  [sess[s] EXCEPT !.coffee = form[t].coffee, !.kit = form[t].kit, !.notes = form[t].notes,
                  !.at = at, !.edited = TRUE]
UpdateOf(t, at, s) ==
  LET f == form[t] IN
  /\ f \in FormOf /\ f.pc = "sent" /\ f.row = {s} /\ s \in Own(f.user)
  /\ f.coffee \in Brewed /\ f.user \in User
  /\ f.alone => f.oldKit = sess[s].kit /\ f.oldNotes = sess[s].notes
  /\ EditedRow(t, at, s) \in SessionRow
  /\ sess' = [sess EXCEPT ![s] = EditedRow(t, at, s)]
  /\ EditedRow(t, at, s).user = sess[s].user
  /\ _adjust_usage_counts(_equipment_deltas_for_change(f.oldKit, f.kit))
  /\ _sync_coffee_flavor_notes(f.coffee, f.oldNotes, f.notes)
  /\ skewed' = IF f.alone THEN skewed
               ELSE skewed \cup UsedIn(f.oldKit) \cup UsedIn(sess[s].kit) \cup UsedIn(f.kit)
  /\ form' = [o \in Tab |->
       IF o = t THEN Shut
       ELSE [form[o] EXCEPT !.alone = form[o].alone
                                      /\ ~ (form[o].pc = "sent" /\ s \in form[o].row)]]
  /\ UNCHANGED imports

LEMMA UpdateFacts ==
  ASSUME Knows, NEW t \in Tab, NEW at \in Time, update_brew_session(t, at)
  PROVE  \E s \in Logged : UpdateOf(t, at, s)
<1>. DEFINE f == form[t]
<1>1. f.pc = "sent" BY DEF update_brew_session
<1>2. f \in FormOf /\ Sound(f) /\ SessTyped BY DEF Knows, FormsSound
<1>3. PICK s \in Logged : f.row = {s} BY <1>1, <1>2 DEF Sound
<1>4. sess[s] \in SessionRow BY <1>2, <1>3, LoggedRows
<1>5. [sess[s] EXCEPT !.coffee = f.coffee, !.kit = f.kit, !.notes = f.notes,
                      !.at = at, !.edited = TRUE] \in SessionRow
  BY <1>1, <1>2, <1>4 DEF Sound, FormOf, SessionRow
<1>6. s \in Session /\ s \in f.row BY <1>3 DEF Logged
<1>7. /\ sess' = [sess EXCEPT ![s] = [sess[s] EXCEPT !.coffee = f.coffee, !.kit = f.kit,
                                          !.notes = f.notes, !.at = at, !.edited = TRUE]]
      /\ _adjust_usage_counts(_equipment_deltas_for_change(f.oldKit, f.kit))
      /\ _sync_coffee_flavor_notes(f.coffee, f.oldNotes, f.notes)
      /\ skewed' = IF f.alone THEN skewed
                   ELSE skewed \cup UsedIn(f.oldKit) \cup UsedIn(sess[s].kit) \cup UsedIn(f.kit)
      /\ form' = [o \in Tab |->
           IF o = t THEN Shut
           ELSE [form[o] EXCEPT !.alone = form[o].alone
                                          /\ ~ (form[o].pc = "sent" /\ s \in form[o].row)]]
      /\ UNCHANGED imports
  BY <1>2, <1>3 DEF update_brew_session, SessTyped
<1>8. [sess[s] EXCEPT !.coffee = f.coffee, !.kit = f.kit, !.notes = f.notes,
                      !.at = at, !.edited = TRUE].user = sess[s].user
  BY <1>4 DEF SessionRow
<1>9. /\ s \in Own(f.user) /\ f.coffee \in Brewed /\ f.user \in User
      /\ f.alone => f.oldKit = sess[s].kit /\ f.oldNotes = sess[s].notes
  BY <1>1, <1>2, <1>3 DEF Sound
<1>. QED BY <1>1, <1>2, <1>3, <1>5, <1>7, <1>8, <1>9 DEF UpdateOf, EditedRow

LEMMA UpdateKnows ==
  ASSUME Knows, NEW t \in Tab, NEW at \in Time, update_brew_session(t, at) PROVE Knows'
<1>. DEFINE f == form[t]
<1>0. PICK s \in Logged : UpdateOf(t, at, s) BY UpdateFacts
<1>. DEFINE x == EditedRow(t, at, s)
<1>1. /\ f \in FormOf /\ f.coffee \in Brewed
      /\ _adjust_usage_counts(_equipment_deltas_for_change(f.oldKit, f.kit))
      /\ _sync_coffee_flavor_notes(f.coffee, f.oldNotes, f.notes)
      /\ skewed' = IF f.alone THEN skewed
                   ELSE skewed \cup UsedIn(f.oldKit) \cup UsedIn(sess[s].kit) \cup UsedIn(f.kit)
      /\ form' = [o \in Tab |->
           IF o = t THEN Shut
           ELSE [form[o] EXCEPT !.alone = form[o].alone
                                          /\ ~ (form[o].pc = "sent" /\ s \in form[o].row)]]
      /\ UNCHANGED imports
  BY <1>0 DEF UpdateOf
<1>2. x \in SessionRow /\ sess' = [sess EXCEPT ![s] = x] /\ x.user = sess[s].user
  BY <1>0 DEF UpdateOf
<1>3. SessTyped /\ RestTyped /\ form \in [Tab -> FormOf] /\ \A o \in Tab : Sound(form[o])
  BY DEF Knows, FormsSound
<1>4. SessTyped' BY <1>2, <1>3 DEF SessTyped
<1>5. RestTyped'
  <2>1. usage' \in [Kit -> Counts] BY <1>1 DEF _adjust_usage_counts
  <2>2. advert' \in [Brewed -> SUBSET Tasted]
    BY <1>1, <1>3 DEF _sync_coffee_flavor_notes, RestTyped, FormOf
  <2>3. \A k \in Setups : UsedIn(k) \subseteq Kit BY DEF UsedIn, Setups
  <2>4. skewed' \subseteq Kit
    BY <1>1, <1>3, <2>3, LoggedRows DEF RestTyped, FormOf, SessionRow
  <2>. QED BY <1>1, <1>3, <2>1, <2>2, <2>4 DEF RestTyped
<1>6. \A o \in Tab : form'[o] \in FormOf
  BY <1>1, <1>3, ShutSound DEF Sound, FormOf
<1>7. form' \in [Tab -> FormOf] BY <1>1, <1>6
<1>8. \A r \in Logged : r \in Logged' /\ sess'[r].user = sess[r].user
  BY <1>2, <1>3, RowsAreRows DEF Logged, SessTyped
<1>9. \A o \in Tab :
           \/ form'[o] = Shut
           \/ form'[o] = [form[o] EXCEPT !.alone = FALSE]
           \/ form'[o] = form[o] /\ \A r \in Logged : Waits(o, r) => sess'[r] = sess[r]
  <2>. SUFFICES ASSUME NEW o \in Tab, o # t
                PROVE \/ form'[o] = [form[o] EXCEPT !.alone = FALSE]
                      \/ /\ form'[o] = form[o]
                         /\ \A r \in Logged : Waits(o, r) => sess'[r] = sess[r]
    BY <1>1
  <2>1. form[o] \in FormOf BY <1>3
  <2>2. CASE s \in form[o].row /\ form[o].pc = "sent" BY <1>1, <2>2
  <2>3. CASE s \notin form[o].row
    <3>1. form'[o] = form[o] BY <1>1, <2>1, <2>3 DEF FormOf
    <3>. QED BY <1>2, <1>3, <2>3, <3>1 DEF SessTyped, Logged, Waits
  <2>4. CASE s \in form[o].row /\ form[o].pc # "sent"
    <3>1. form'[o] = form[o] BY <1>1, <2>1, <2>4 DEF FormOf
    <3>. QED BY <2>4, <3>1 DEF Waits
  <2>. QED BY <2>2, <2>3, <2>4
<1>. QED BY <1>4, <1>5, <1>7, <1>8, <1>9, SessionsMove

Imported(u, New, rows, now) ==
  [s \in Session |->
     IF s \in New THEN [user |-> u, coffee |-> rows[s].coffee, kit |-> rows[s].kit,
                        notes |-> rows[s].notes, at |-> _parse_brewed_at(rows[s].at, now[s]),
                        born |-> imports + 1, imported |-> TRUE, edited |-> FALSE]
     ELSE sess[s]]

LEMMA ImportFacts ==
  ASSUME Knows, NEW u \in User, NEW New \in SUBSET Session,
         NEW rows \in [New -> CsvRow(Brewed, Setups, Tasted, Time)],
         NEW now \in [New -> Time], import_brews(u, New, rows, now)
  PROVE  /\ sess' = Imported(u, New, rows, now) /\ SessTyped'
         /\ imports' = imports + 1 /\ imports' \in 0..MaxImports
         /\ New \cap Logged = {} /\ Logged' = Logged \cup New
         /\ \A s \in Logged : sess'[s] = sess[s]
         /\ \A s \in New : sess'[s] \in SessionRow /\ rows[s].kit \in Setups
<1>1. SessTyped /\ RestTyped BY DEF Knows
<1>2. sess' = Imported(u, New, rows, now) /\ New \cap Logged = {} /\ imports' = imports + 1
  BY DEF import_brews, Imported
<1>3. imports + 1 \in 0..MaxImports BY <1>1 DEF import_brews, RestTyped, MaxImports
<1>4. \A s \in New : rows[s] \in CsvRow(Brewed, Setups, Tasted, Time) OBVIOUS
<1>5. \A s \in New : sess'[s] \in SessionRow /\ rows[s].kit \in Setups
  BY <1>2, <1>3, <1>4 DEF Imported, SessionRow, CsvRow, _parse_brewed_at
<1>6. SessTyped' BY <1>1, <1>2, <1>5 DEF SessTyped, Imported
<1>7. \A s \in Logged : sess'[s] = sess[s] BY <1>2 DEF Imported, Logged
<1>8. Logged' = Logged \cup New BY <1>2, <1>5, RowsAreRows DEF Logged, Imported
<1>. QED BY <1>2, <1>3, <1>5, <1>6, <1>7, <1>8

LEMMA ImportKnows ==
  ASSUME Knows, NEW u \in User, NEW New \in SUBSET Session,
         NEW rows \in [New -> CsvRow(Brewed, Setups, Tasted, Time)],
         NEW now \in [New -> Time], import_brews(u, New, rows, now)
  PROVE  Knows'
<1>1. SessTyped /\ RestTyped /\ form \in [Tab -> FormOf] BY DEF Knows, FormsSound
<1>2. \A s \in New : rows[s].notes \subseteq Tasted /\ rows[s].kit \in Setups BY DEF CsvRow
<1>3. RestTyped'
  <2>1. advert' \in [Brewed -> SUBSET Tasted]
    <3>1. \A c \in Brewed :
            advert[c] \cup UNION {rows[s].notes : s \in {x \in New : rows[x].coffee = c}}
              \in SUBSET Tasted
      BY <1>1, <1>2 DEF RestTyped
    <3>. QED BY <1>1, <3>1 DEF import_brews, RestTyped
  <2>2. skewed' \subseteq Kit
    <3>1. \A k \in Setups : UsedIn(k) \subseteq Kit BY DEF UsedIn, Setups
    <3>2. \A s \in New : UsedIn(rows[s].kit) \subseteq Kit BY <1>2, <3>1
    <3>3. skewed' = skewed \cup UNION {UsedIn(rows[s].kit) : s \in New} BY DEF import_brews
    <3>. QED BY <1>1, <3>2, <3>3 DEF RestTyped
  <2>3. UNCHANGED usage BY DEF import_brews
  <2>. QED BY <1>1, <2>1, <2>2, <2>3, ImportFacts DEF RestTyped
<1>4. UNCHANGED form BY DEF import_brews
<1>. QED BY <1>1, <1>3, <1>4, ImportFacts, SessionsMove

LEMMA KnowsInit == JournalInit => Knows
<1>. SUFFICES ASSUME JournalInit PROVE Knows OBVIOUS
<1>. USE DEF JournalInit
<1>1. SessTyped BY DEF SessTyped
<1>2. RestTyped BY CountsAreIntegers DEF RestTyped, MaxImports
<1>3. FormsSound BY ShutSound DEF FormsSound, Sound
<1>. QED BY <1>1, <1>2, <1>3 DEF Knows

LEMMA KnowsNext == Knows /\ [JournalNext]_journalVars => Knows'
<1>. SUFFICES ASSUME Knows, [JournalNext]_journalVars PROVE Knows' OBVIOUS
<1>1. CASE UNCHANGED journalVars
  BY <1>1 DEF journalVars, Knows, SessTyped, RestTyped, FormsSound, Sound, Logged, Own
<1>2. ASSUME NEW c \in Brewed, NEW ns \in SUBSET Tasted, update_coffee_chips(c, ns) PROVE Knows'
  <2>1. SessTyped' /\ RestTyped' /\ form' \in [Tab -> FormOf]
    BY <1>2 DEF update_coffee_chips, Knows, SessTyped, RestTyped, FormsSound
  <2>. QED BY <1>2, <2>1, SessionsMove DEF update_coffee_chips, Logged
<1>. QED
  BY <1>1, <1>2, FormSteps, CreateKnows, UpdateKnows, ImportKnows DEF JournalNext, JournalStep

\* Every reachable state of the journal is well typed.
THEOREM JournalTypes == JournalSpec => []JournalTypeOK
<1>1. Knows => JournalTypeOK
  BY DEF Knows, SessTyped, RestTyped, FormsSound, FormOf, JournalTypeOK
<1>. QED BY <1>1, KnowsInit, KnowsNext, PTL DEF JournalSpec

-----------------------------------------------------------------------------
(* Journal: sessions stay with their members, chips with their coffees. *)

\* The steps that write no session.
LEMMA OnlyFormsMove ==
  ASSUME NEW t \in Tab
  PROVE  /\ \A u \in User, c \in Brewed, from \in SUBSET Logged :
              new_brew_form(t, u, c, from) => UNCHANGED <<sess, usage, advert, imports, skewed>>
         /\ \A c \in Brewed :
              prefill_fragment(t, c) => UNCHANGED <<sess, usage, advert, imports, skewed>>
         /\ \A s \in Session :
              edit_brew_form(t, s) => UNCHANGED <<sess, usage, advert, imports, skewed>>
         /\ \A u \in User :
              SwitchMember(t, u) => UNCHANGED <<sess, usage, advert, imports, skewed>>
         /\ \A c \in Brewed, k \in Setups, ns \in SUBSET Tasted :
              Fill(t, c, k, ns) => UNCHANGED <<sess, usage, advert, imports, skewed>>
         /\ Leave(t) \/ _render_form_error(t) \/ update_brew(t)
              => UNCHANGED <<sess, usage, advert, imports, skewed>>
  BY DEF new_brew_form, prefill_fragment, edit_brew_form, SwitchMember, Fill, Leave,
     _render_form_error, update_brew

\* What remains of a step that writes sessions or notes.
LEMMA WritingSteps ==
  ASSUME JournalNext
  PROVE  \/ UNCHANGED <<sess, usage, advert, imports, skewed>>
         \/ \E t \in Tab, s \in Session, at \in Time : create_brew_session(t, s, at)
         \/ \E t \in Tab, at \in Time : update_brew_session(t, at)
         \/ \E c \in Brewed, ns \in SUBSET Tasted : update_coffee_chips(c, ns)
         \/ \E u \in User, New \in SUBSET Session :
              \E rows \in [New -> CsvRow(Brewed, Setups, Tasted, Time)], now \in [New -> Time] :
                import_brews(u, New, rows, now)
  BY OnlyFormsMove DEF JournalNext, JournalStep

LEMMA SavesAreOwnStep ==
  ASSUME Knows, JournalNext, NEW s \in Logged, sess'[s] # sess[s]
  PROVE  /\ sess'[s].user = sess[s].user
         /\ \E t \in Tab : form[t].user = sess[s].user /\ form[t].row = {s}
<1>1. SessTyped BY DEF Knows
<1>2. ASSUME NEW t \in Tab, NEW r \in Session, NEW at \in Time, create_brew_session(t, r, at)
      PROVE  FALSE
  BY <1>1, <1>2 DEF create_brew_session, SessTyped
<1>3. ASSUME NEW t \in Tab, NEW at \in Time, update_brew_session(t, at)
      PROVE  /\ sess'[s].user = sess[s].user
             /\ form[t].user = sess[s].user /\ form[t].row = {s}
  <2>1. PICK r \in Logged : UpdateOf(t, at, r) BY <1>3, UpdateFacts
  <2>2. r = s /\ sess' = [sess EXCEPT ![r] = EditedRow(t, at, r)]
    BY <1>1, <2>1 DEF UpdateOf, SessTyped, Logged
  <2>. QED BY <1>1, <2>1, <2>2 DEF UpdateOf, Own, SessTyped, Logged
<1>4. ASSUME NEW u \in User, NEW New \in SUBSET Session,
             NEW rows \in [New -> CsvRow(Brewed, Setups, Tasted, Time)],
             NEW now \in [New -> Time], import_brews(u, New, rows, now)
      PROVE  FALSE
  BY <1>4, ImportFacts
<1>5. (\E c \in Brewed, ns \in SUBSET Tasted : update_coffee_chips(c, ns)) => UNCHANGED sess
  BY DEF update_coffee_chips
<1>. QED BY <1>2, <1>3, <1>4, <1>5, WritingSteps

\* Nobody's session changes hands or is written by another form. (Code: the
\* user_id predicate of every brew_sessions query.)
THEOREM SessionsStayOwn == JournalSpec => SavesAreOwn
<1>1. Knows /\ [JournalNext]_journalVars =>
        [\A s \in Logged : sess'[s] # sess[s] =>
           /\ sess'[s].user = sess[s].user
           /\ \E t \in Tab : form[t].user = sess[s].user /\ form[t].row = {s}]_journalVars
  BY SavesAreOwnStep
<1>. QED BY <1>1, KnowsInit, KnowsNext, PTL DEF JournalSpec, SavesAreOwn

LEMMA ChipsStep ==
  ASSUME Knows, JournalNext, sess' # sess, ~ Overlapped,
         NEW c \in Brewed, NEW n \in Dropped(c)
  PROVE  \E s \in Logged : n \in sess[s].notes \ sess'[s].notes /\ sess'[s].edited
<1>1. SessTyped /\ RestTyped /\ form \in [Tab -> FormOf] BY DEF Knows, FormsSound
<1>2. n \in advert[c] /\ n \notin advert'[c] BY DEF Dropped
<1>3. ASSUME NEW t \in Tab, NEW s \in Session, NEW at \in Time, create_brew_session(t, s, at)
      PROVE  FALSE
  BY <1>1, <1>2, <1>3 DEF create_brew_session, _sync_coffee_flavor_notes, RestTyped
<1>4. ASSUME NEW t \in Tab, NEW at \in Time, update_brew_session(t, at)
      PROVE  \E s \in Logged : n \in sess[s].notes \ sess'[s].notes /\ sess'[s].edited
  <2>1. PICK s \in Logged : UpdateOf(t, at, s) BY <1>4, UpdateFacts
  <2>2. form[t].pc = "sent" /\ form'[t] = Shut BY <2>1 DEF UpdateOf
  <2>3. form[t].alone BY <1>1, <2>2 DEF Overlapped, Shut, FormOf
  <2>4. n \in sess[s].notes \ form[t].notes
    BY <1>1, <1>2, <2>1, <2>3 DEF UpdateOf, _sync_coffee_flavor_notes, RestTyped
  <2>5. sess'[s] = EditedRow(t, at, s) /\ sess[s] \in SessionRow
    BY <1>1, <2>1, LoggedRows DEF UpdateOf, SessTyped, Logged
  <2>6. sess'[s].notes = form[t].notes /\ sess'[s].edited
    BY <2>5 DEF EditedRow, SessionRow
  <2>. QED BY <2>4, <2>6
<1>5. ASSUME NEW u \in User, NEW New \in SUBSET Session,
             NEW rows \in [New -> CsvRow(Brewed, Setups, Tasted, Time)],
             NEW now \in [New -> Time], import_brews(u, New, rows, now)
      PROVE  FALSE
  BY <1>2, <1>5 DEF import_brews
<1>6. (\E d \in Brewed, ns \in SUBSET Tasted : update_coffee_chips(d, ns)) => UNCHANGED sess
  BY DEF update_coffee_chips
<1>. QED BY <1>3, <1>4, <1>5, <1>6, WritingSteps

\* A save takes a chip off a coffee only when that session listed the note
\* before. (Code: brew_sessions._sync_coffee_flavor_notes.)
THEOREM ChipsStay == JournalSpec => ChipsNotStolen
<1>1. Knows /\ [JournalNext]_journalVars =>
        [(sess' # sess /\ ~ Overlapped) =>
           \A c \in Brewed : \A n \in Dropped(c) :
             \E s \in Logged : n \in sess[s].notes \ sess'[s].notes /\ sess'[s].edited]_journalVars
  BY ChipsStep
<1>. QED BY <1>1, KnowsInit, KnowsNext, PTL DEF JournalSpec, ChipsNotStolen

-----------------------------------------------------------------------------
(* Journal: files import once. *)

\* No session was logged before the files that came first.
BornBy == \A s \in Logged : sess[s].born \in Nat /\ sess[s].born <= imports
FilesInOrder == FilesDontRepeat /\ BornBy

\* One session is written, by a form, and counts as the latest.
LEMMA FormWrites ==
  ASSUME Knows, FilesInOrder, UNCHANGED imports, NEW s \in Session,
         \A r \in Session \ {s} : sess'[r] = sess[r],
         sess'[s].born \in Nat /\ sess'[s].born <= imports,
         Untouched(s)' => ~ sess'[s].imported /\ sess'[s].born = imports
  PROVE  FilesInOrder'
<1>1. BornBy' BY DEF FilesInOrder, BornBy, Logged
<1>2. ASSUME NEW r \in Session, NEW q \in Session,
             Untouched(r)', Untouched(q)', sess'[q].imported, SameKey(r, q)'
      PROVE  sess'[r].born >= sess'[q].born
  <2>1. q # s /\ sess'[q] = sess[q] /\ q \in Logged /\ Untouched(q)
    BY <1>2 DEF Untouched, Logged
  <2>2. CASE r = s
    <3>1. sess[q].born \in Nat /\ sess[q].born <= imports
      BY <2>1 DEF FilesInOrder, BornBy
    <3>. QED BY <1>2, <2>1, <2>2, <3>1
  <2>3. CASE r # s
    <3>1. sess'[r] = sess[r] /\ Untouched(r) BY <1>2, <2>3 DEF Untouched, Logged
    <3>. QED BY <1>2, <2>1, <3>1 DEF FilesInOrder, FilesDontRepeat, SameKey
  <2>. QED BY <2>2, <2>3
<1>. QED BY <1>1, <1>2 DEF FilesInOrder, FilesDontRepeat

LEMMA FilesStep ==
  ASSUME Knows, FilesInOrder, [JournalNext]_journalVars PROVE FilesInOrder'
<1>1. SessTyped /\ RestTyped BY DEF Knows
<1>2. CASE UNCHANGED <<sess, imports>>
  BY <1>2 DEF FilesInOrder, BornBy, FilesDontRepeat, Untouched, SameKey, Logged
<1>3. ASSUME NEW t \in Tab, NEW s \in Session, NEW at \in Time, create_brew_session(t, s, at)
      PROVE  FilesInOrder'
  <2>1. /\ UNCHANGED imports /\ imports \in Nat
        /\ sess'[s].born = imports /\ ~ sess'[s].imported
    BY <1>1, <1>3 DEF create_brew_session, SessTyped, RestTyped, MaxImports
  <2>2. \A r \in Session \ {s} : sess'[r] = sess[r] BY <1>1, <1>3 DEF create_brew_session, SessTyped
  <2>. QED BY <2>1, <2>2, FormWrites
<1>4. ASSUME NEW t \in Tab, NEW at \in Time, update_brew_session(t, at) PROVE FilesInOrder'
  <2>1. PICK s \in Logged : UpdateOf(t, at, s) BY <1>4, UpdateFacts
  <2>2. /\ sess' = [sess EXCEPT ![s] = EditedRow(t, at, s)] /\ UNCHANGED imports
        /\ s \in Session /\ sess[s] \in SessionRow
    BY <1>1, <2>1, LoggedRows DEF UpdateOf, Logged
  <2>3. sess'[s].edited /\ sess'[s].born = sess[s].born
    BY <1>1, <2>2 DEF EditedRow, SessTyped, SessionRow
  <2>4. \A r \in Session \ {s} : sess'[r] = sess[r] BY <1>1, <2>2 DEF SessTyped
  <2>5. sess'[s].born \in Nat /\ sess'[s].born <= imports
    BY <2>1, <2>3 DEF FilesInOrder, BornBy
  <2>6. ~ Untouched(s)' BY <2>3 DEF Untouched
  <2>. QED BY <2>2, <2>4, <2>5, <2>6, FormWrites
<1>5. ASSUME NEW u \in User, NEW New \in SUBSET Session,
             NEW rows \in [New -> CsvRow(Brewed, Setups, Tasted, Time)],
             NEW now \in [New -> Time], import_brews(u, New, rows, now)
      PROVE  FilesInOrder'
  <2>. DEFINE at(s) == _parse_brewed_at(rows[s].at, now[s])
  <2>1. \A s \in New : /\ sess'[s].user = u /\ sess'[s].coffee = rows[s].coffee
                       /\ sess'[s].at = at(s) /\ sess'[s].born = imports'
    BY <1>5, ImportFacts DEF Imported
  <2>2. \A r \in Logged : sess'[r] = sess[r] BY <1>5, ImportFacts
  <2>3. Logged' = Logged \cup New /\ imports \in Nat /\ imports' = imports + 1
    BY <1>1, <1>5, ImportFacts DEF RestTyped, MaxImports
  <2>4. ASSUME NEW s \in New, NEW r \in Logged, SameKey(r, s)' PROVE FALSE
    <3>1. r \in Own(u) /\ sess[r].coffee = rows[s].coffee /\ sess[r].at = at(s)
      BY <2>1, <2>2, <2>4 DEF SameKey, Own
    <3>2. ~ _session_exists(u, rows[s].coffee, at(s)) BY <1>5 DEF import_brews
    <3>. QED BY <3>1, <3>2 DEF _session_exists
  <2>5. BornBy'
    <3>1. \A r \in Logged : sess[r].born \in Nat /\ sess[r].born <= imports
      BY DEF FilesInOrder, BornBy
    <3>. QED BY <2>1, <2>2, <2>3, <3>1 DEF BornBy
  <2>6. ASSUME NEW r \in Session, NEW s \in Session,
               Untouched(r)', Untouched(s)', sess'[s].imported, SameKey(r, s)'
        PROVE  sess'[r].born >= sess'[s].born
    <3>1. r \in Logged \cup New /\ s \in Logged \cup New BY <2>3, <2>6 DEF Untouched
    <3>2. CASE r \in New
      BY <2>1, <2>3, <2>5, <3>1, <3>2 DEF BornBy
    <3>3. CASE r \in Logged /\ s \in Logged
      BY <2>2, <2>6, <3>3 DEF FilesInOrder, FilesDontRepeat, Untouched, SameKey
    <3>. QED BY <2>4, <2>6, <3>1, <3>2, <3>3
  <2>. QED BY <2>5, <2>6 DEF FilesInOrder, FilesDontRepeat
<1>6. (\E c \in Brewed, ns \in SUBSET Tasted : update_coffee_chips(c, ns))
        => UNCHANGED <<sess, imports>>
  BY DEF update_coffee_chips
<1>. QED BY <1>2, <1>3, <1>4, <1>5, <1>6, WritingSteps DEF journalVars

\* An import adds no session where the member had one of the same coffee and
\* time before, from the form or from a file. (Code: csv_io._session_exists.)
THEOREM ImportsOnce == JournalSpec => []FilesDontRepeat
<1>1. JournalInit => FilesInOrder
  BY DEF JournalInit, FilesInOrder, BornBy, FilesDontRepeat, Untouched, Logged
<1>2. Knows /\ FilesInOrder /\ [JournalNext]_journalVars => FilesInOrder' BY FilesStep
<1>3. FilesInOrder => FilesDontRepeat BY DEF FilesInOrder
<1>. QED BY <1>1, <1>2, <1>3, KnowsInit, KnowsNext, PTL DEF JournalSpec

-----------------------------------------------------------------------------
(* Journal: the usage counter. *)

Held(g) == {p \in Logged \X Slot : sess[p[1]].kit[p[2]] = g}
Leaves(old, new, g) == {sl \in Slot : old[sl] = g /\ new[sl] # g}
Joins(old, new, g) == {sl \in Slot : new[sl] = g /\ old[sl] # g}

LEMMA SlotSets ==
  ASSUME NEW X \in SUBSET Slot
  PROVE  IsFiniteSet(X) /\ Cardinality(X) \in Nat
  BY SetsAreFinite, FS_Subset, FS_CardinalityType

LEMMA HeldFinite ==
  ASSUME NEW g PROVE IsFiniteSet(Held(g)) /\ Cardinality(Held(g)) \in Nat
<1>1. IsFiniteSet(Logged) BY SetsAreFinite, FS_Subset DEF Logged
<1>2. IsFiniteSet(Logged \X Slot) BY <1>1, SetsAreFinite, FS_Product
<1>3. Held(g) \subseteq Logged \X Slot BY DEF Held
<1>. QED BY <1>2, <1>3, FS_Subset, FS_CardinalityType

SlotsOf(s, X) == {s} \X X

LEMMA OneSession ==
  ASSUME NEW s, NEW X \in SUBSET Slot
  PROVE  IsFiniteSet(SlotsOf(s, X)) /\ Cardinality(SlotsOf(s, X)) = Cardinality(X)
<1>1. IsFiniteSet({s}) /\ Cardinality({s}) = 1 BY FS_Singleton
<1>2. IsFiniteSet(X) /\ Cardinality(X) \in Nat BY SlotSets
<1>3. IsFiniteSet({s} \X X) /\ Cardinality({s} \X X) = 1 * Cardinality(X)
  BY <1>1, <1>2, FS_Product
<1>. QED BY <1>2, <1>3 DEF SlotsOf

\* One session leaves some slots and joins others.
LEMMA Recount ==
  ASSUME NEW A, NEW B, IsFiniteSet(A), NEW s, NEW X \in SUBSET Slot, NEW Y \in SUBSET Slot,
         SlotsOf(s, X) \subseteq A, SlotsOf(s, Y) \cap A = {},
         B = (A \ SlotsOf(s, X)) \cup SlotsOf(s, Y)
  PROVE  Cardinality(B) = Cardinality(A) - Cardinality(X) + Cardinality(Y)
<1>. DEFINE C == A \ SlotsOf(s, X)
            D == SlotsOf(s, Y)
<1>1. IsFiniteSet(C) /\ Cardinality(C) = Cardinality(A) - Cardinality(X)
  <2>1. A \cap SlotsOf(s, X) = SlotsOf(s, X) OBVIOUS
  <2>2. Cardinality(SlotsOf(s, X)) = Cardinality(X) BY OneSession
  <2>3. /\ IsFiniteSet(A \ SlotsOf(s, X))
        /\ Cardinality(A \ SlotsOf(s, X)) = Cardinality(A) - Cardinality(A \cap SlotsOf(s, X))
    BY FS_Difference
  <2>. QED BY <2>1, <2>2, <2>3
<1>2. IsFiniteSet(D) /\ Cardinality(D) = Cardinality(Y) BY OneSession
<1>3. C \cap D = {} OBVIOUS
<1>4. Cardinality(C \cup D) = Cardinality(C) + Cardinality(D) - Cardinality(C \cap D)
  BY <1>1, <1>2, FS_Union
<1>5. Cardinality(C \cap D) = 0 BY <1>3, FS_EmptySet
<1>6. /\ Cardinality(A) \in Nat /\ Cardinality(X) \in Nat /\ Cardinality(Y) \in Nat
  BY SlotSets, FS_CardinalityType
<1>. QED BY <1>1, <1>2, <1>4, <1>5, <1>6

LEMMA CreateCounts ==
  ASSUME Knows, UsageExact, NEW t \in Tab, NEW s \in Session, NEW at \in Time,
         create_brew_session(t, s, at)
  PROVE  UsageExact'
<1>. DEFINE k == form[t].kit
<1>1. SessTyped /\ form[t] \in FormOf BY DEF Knows, FormsSound
<1>2. /\ s \notin Logged /\ UNCHANGED skewed
      /\ usage' = [g \in Kit |-> usage[g] + _equipment_deltas_for_change(Bare, k)[g]]
      /\ sess' = [sess EXCEPT ![s] = [user |-> form[t].user, coffee |-> form[t].coffee,
                     kit |-> k, notes |-> form[t].notes, at |-> at, born |-> imports,
                     imported |-> FALSE, edited |-> FALSE]]
      /\ form[t].pc = "new"
  BY DEF create_brew_session, _adjust_usage_counts
<1>3. Logged' = Logged \cup {s}
  <2>1. form[t].user \in User BY <1>2 DEF Knows, FormsSound, Sound
  <2>. QED BY <1>1, <1>2, <2>1, NoneIsNothing DEF Logged, SessTyped, NoSession
<1>. SUFFICES ASSUME NEW g \in Kit \ skewed PROVE usage'[g] = Cardinality(Held(g))'
  BY <1>2 DEF UsageExact, InUse, Held
<1>4. Leaves(Bare, k, g) = {} BY NoneIsNothing DEF Leaves, Bare
<1>5. Held(g)' = (Held(g) \ SlotsOf(s, Leaves(Bare, k, g))) \cup SlotsOf(s, Joins(Bare, k, g))
  <2>1. \A sl \in Slot : Bare[sl] # g BY NoneIsNothing DEF Bare
  <2>2. sess'[s].kit = k /\ \A r \in Logged : sess'[r] = sess[r] BY <1>1, <1>2 DEF SessTyped, Logged
  <2>. QED BY <1>3, <1>4, <2>1, <2>2 DEF Held, Joins, SlotsOf
<1>6. SlotsOf(s, Joins(Bare, k, g)) \cap Held(g) = {} BY <1>2 DEF Held, SlotsOf
<1>7. Cardinality(Held(g)')
        = Cardinality(Held(g)) - Cardinality(Leaves(Bare, k, g)) + Cardinality(Joins(Bare, k, g))
  <2>. DEFINE A == Held(g)
              X == Leaves(Bare, k, g)
              Y == Joins(Bare, k, g)
  <2>1. X \in SUBSET Slot /\ Y \in SUBSET Slot BY DEF Leaves, Joins
  <2>2. SlotsOf(s, X) \subseteq A BY <1>4 DEF Leaves, Held, SlotsOf
  <2>3. SlotsOf(s, Y) \cap A = {} BY <1>2 DEF Joins, Held, SlotsOf
  <2>4. IsFiniteSet(A) BY HeldFinite
  <2>5. Held(g)' = (A \ SlotsOf(s, X)) \cup SlotsOf(s, Y) BY <1>5
  <2>. HIDE DEF A, X, Y
  <2>6. Cardinality(Held(g)') = Cardinality(A) - Cardinality(X) + Cardinality(Y)
    BY <2>1, <2>2, <2>3, <2>4, <2>5, Recount
  <2>. QED BY <2>6 DEF A, X, Y
<1>8. _equipment_deltas_for_change(Bare, k)[g]
        = Cardinality(Joins(Bare, k, g)) - Cardinality(Leaves(Bare, k, g))
  BY DEF _equipment_deltas_for_change, Joins, Leaves
<1>9. usage[g] = Cardinality(Held(g)) BY DEF UsageExact, InUse, Held
<1>10. Cardinality(Held(g)) \in Nat /\ Cardinality(Joins(Bare, k, g)) \in Nat
       /\ Cardinality({}) = 0
  BY HeldFinite, SlotSets, FS_EmptySet DEF Joins
<1>. QED BY <1>2, <1>4, <1>7, <1>8, <1>9, <1>10

LEMMA UpdateCounts ==
  ASSUME Knows, UsageExact, NEW t \in Tab, NEW at \in Time, update_brew_session(t, at)
  PROVE  UsageExact'
<1>. DEFINE f == form[t]
<1>1. PICK s \in Logged : UpdateOf(t, at, s) BY UpdateFacts
<1>. DEFINE old == sess[s].kit
<1>2. /\ SessTyped /\ s \in Session /\ sess[s] \in SessionRow
      /\ sess' = [sess EXCEPT ![s] = EditedRow(t, at, s)] /\ EditedRow(t, at, s) \in SessionRow
  BY <1>1, LoggedRows DEF Knows, UpdateOf, Logged
<1>3. /\ sess'[s].kit = f.kit
      /\ \A r \in Logged \ {s} : sess'[r] = sess[r]
      /\ Logged' = Logged
  <2>1. EditedRow(t, at, s).kit = f.kit BY <1>2 DEF EditedRow, SessionRow
  <2>. QED BY <1>1, <1>2, <2>1, RowsAreRows DEF SessTyped, Logged
<1>4. /\ usage' = [g \in Kit |-> usage[g] + _equipment_deltas_for_change(f.oldKit, f.kit)[g]]
      /\ f.alone => f.oldKit = old /\ skewed' = skewed
      /\ ~ f.alone => skewed' = skewed \cup UsedIn(f.oldKit) \cup UsedIn(old) \cup UsedIn(f.kit)
      /\ f \in FormOf
  BY <1>1 DEF UpdateOf, _adjust_usage_counts
<1>. SUFFICES ASSUME NEW g \in Kit \ skewed' PROVE usage'[g] = Cardinality(Held(g))'
  BY DEF UsageExact, InUse, Held
<1>5. g \notin skewed BY <1>4 DEF FormOf
<1>6. usage[g] = Cardinality(Held(g)) BY <1>5 DEF UsageExact, InUse, Held
<1>7. _equipment_deltas_for_change(f.oldKit, f.kit)[g]
        = Cardinality(Joins(f.oldKit, f.kit, g)) - Cardinality(Leaves(f.oldKit, f.kit, g))
  BY DEF _equipment_deltas_for_change, Joins, Leaves
<1>8. Held(g)' = (Held(g) \ SlotsOf(s, Leaves(old, f.kit, g))) \cup SlotsOf(s, Joins(old, f.kit, g))
  BY <1>1, <1>3 DEF Held, Leaves, Joins, SlotsOf
<1>9. Cardinality(Held(g)')
        = Cardinality(Held(g)) - Cardinality(Leaves(old, f.kit, g)) + Cardinality(Joins(old, f.kit, g))
  <2>. DEFINE A == Held(g)
              X == Leaves(old, f.kit, g)
              Y == Joins(old, f.kit, g)
  <2>1. X \in SUBSET Slot /\ Y \in SUBSET Slot BY DEF Leaves, Joins
  <2>2. SlotsOf(s, X) \subseteq A BY <1>1 DEF Leaves, Held, SlotsOf
  <2>3. SlotsOf(s, Y) \cap A = {} BY DEF Joins, Held, SlotsOf
  <2>4. IsFiniteSet(A) BY HeldFinite
  <2>5. Held(g)' = (A \ SlotsOf(s, X)) \cup SlotsOf(s, Y) BY <1>8
  <2>. HIDE DEF A, X, Y
  <2>6. Cardinality(Held(g)') = Cardinality(A) - Cardinality(X) + Cardinality(Y)
    BY <2>1, <2>2, <2>3, <2>4, <2>5, Recount
  <2>. QED BY <2>6 DEF A, X, Y
<1>10. /\ Cardinality(Held(g)) \in Nat /\ Cardinality(Joins(old, f.kit, g)) \in Nat
       /\ Cardinality(Leaves(old, f.kit, g)) \in Nat
  BY HeldFinite, SlotSets DEF Joins, Leaves
<1>11. CASE f.alone
  <2>1. f.oldKit = old BY <1>4, <1>11
  <2>. QED BY <1>4, <1>6, <1>7, <1>9, <1>10, <2>1
<1>12. CASE ~ f.alone
  <2>1. g \notin UsedIn(f.oldKit) /\ g \notin UsedIn(old) /\ g \notin UsedIn(f.kit)
    BY <1>4, <1>12
  <2>2. \A sl \in Slot : f.oldKit[sl] # g /\ old[sl] # g /\ f.kit[sl] # g
    BY <2>1, NoneIsNothing DEF UsedIn
  <2>3. /\ Joins(f.oldKit, f.kit, g) = {} /\ Leaves(f.oldKit, f.kit, g) = {}
        /\ Joins(old, f.kit, g) = {} /\ Leaves(old, f.kit, g) = {}
    BY <2>2 DEF Joins, Leaves
  <2>. QED BY <1>4, <1>6, <1>7, <1>9, <1>10, <2>3, FS_EmptySet
<1>. QED BY <1>11, <1>12

LEMMA ImportCounts ==
  ASSUME Knows, UsageExact, NEW u \in User, NEW New \in SUBSET Session,
         NEW rows \in [New -> CsvRow(Brewed, Setups, Tasted, Time)],
         NEW now \in [New -> Time], import_brews(u, New, rows, now)
  PROVE  UsageExact'
<1>1. /\ skewed' = skewed \cup UNION {UsedIn(rows[s].kit) : s \in New} /\ UNCHANGED usage
  BY DEF import_brews
<1>. SUFFICES ASSUME NEW g \in Kit \ skewed' PROVE Held(g)' = Held(g)
  BY <1>1 DEF UsageExact, InUse, Held
<1>2. ASSUME NEW s \in New, NEW sl \in Slot PROVE sess'[s].kit[sl] # g
  <2>1. sess'[s].kit = rows[s].kit BY ImportFacts DEF Imported
  <2>2. g \notin UsedIn(rows[s].kit) BY <1>1
  <2>. QED BY <2>1, <2>2, NoneIsNothing DEF UsedIn
<1>3. Logged' = Logged \cup New /\ \A r \in Logged : sess'[r] = sess[r] BY ImportFacts
<1>. QED BY <1>2, <1>3 DEF Held

\* The denormalised counter is exact for all equipment that no import and no
\* overlapping edits touched. (Code: brew_sessions._adjust_usage_counts.)
THEOREM CountersExact == JournalSpec => []UsageExact
<1>1. JournalInit => UsageExact
  <2>. SUFFICES ASSUME JournalInit, NEW g \in Kit PROVE usage[g] = InUse(g) BY DEF UsageExact
  <2>1. Logged = {} BY DEF JournalInit, Logged
  <2>2. {p \in Logged \X Slot : sess[p[1]].kit[p[2]] = g} = {} BY <2>1
  <2>. QED BY <2>2, FS_EmptySet DEF JournalInit, InUse
<1>2. Knows /\ UsageExact /\ [JournalNext]_journalVars => UsageExact'
  <2>. SUFFICES ASSUME Knows, UsageExact, [JournalNext]_journalVars PROVE UsageExact' OBVIOUS
  <2>1. CASE UNCHANGED <<sess, usage, skewed>>
    BY <2>1 DEF UsageExact, InUse, Logged
  <2>2. (\E c \in Brewed, ns \in SUBSET Tasted : update_coffee_chips(c, ns))
          => UNCHANGED <<sess, usage, skewed>>
    BY DEF update_coffee_chips
  <2>. QED
    BY <2>1, <2>2, CreateCounts, UpdateCounts, ImportCounts, WritingSteps DEF journalVars
<1>. QED BY <1>1, <1>2, KnowsInit, KnowsNext, PTL DEF JournalSpec
=============================================================================
