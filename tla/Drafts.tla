------------------------------- MODULE Drafts -------------------------------
(***************************************************************************)
(* The draft of a new brew: the form on each of a member's devices, the    *)
(* copy each browser keeps in localStorage, the one row the server keeps   *)
(* for the member, and the requests under way between them.                *)
(*                                                                         *)
(* A version is what the form holds after an input; versions are numbered  *)
(* in the order they are typed and 0 is a form as the server filled it.    *)
(* The flavor chips belong to a widget of their own: they change without   *)
(* an input, go along with the form when it is stored or sent, and come    *)
(* back from no copy.  Leaving a field sends an autosave, so pressing Save *)
(* sends an autosave and the submit side by side, and nothing orders the   *)
(* two at the server.                                                      *)
(*                                                                         *)
(* create_brew and save_draft run on the event loop, the other routes in   *)
(* threads of the pool.                                                    *)
(***************************************************************************)
EXTENDS Naturals, FiniteSets

CONSTANTS Device, MaxVersion   \* MaxVersion bounds the inputs of a behaviour

ASSUME VersionsAreNumbers == MaxVersion \in Nat

VARIABLES
  typed,      \* the last version typed
  screen,     \* what each device shows
  local,      \* localStorage of each device
  draft,      \* the brew_drafts row
  net,        \* requests sent and not handled yet
  advertises, \* has the coffee of the draft advertised notes?
  saved,      \* versions logged as a session
  returned    \* history: versions autosaved again, or kept by a crash, though saved

draftVars == <<typed, screen, local, draft, net, advertises, saved, returned>>

Version == 0..MaxVersion
Copy == [ver: Version, chips: BOOLEAN]   \* chips: is there any flavor chip?
Screen == [pc: {"closed", "open", "posting", "error"}, ver: Version, chips: BOOLEAN]
Request == [kind: {"autosave", "submit", "logged", "clear"}, from: Device,
            ver: Version, chips: BOOLEAN]
NoDraft == [ver |-> 0, chips |-> FALSE]
Blank == [pc |-> "closed", ver |-> 0, chips |-> FALSE]

DraftsTypeOK ==
  /\ typed \in Version
  /\ screen \in [Device -> Screen]
  /\ local \in [Device -> Copy]
  /\ draft \in Copy
  /\ net \subseteq Request
  /\ advertises \in BOOLEAN
  /\ saved \subseteq 1..typed /\ returned \subseteq saved

DraftsInit ==
  /\ typed = 0
  /\ screen = [d \in Device |-> Blank]
  /\ local = [d \in Device |-> NoDraft]
  /\ draft = NoDraft /\ net = {}
  /\ advertises \in BOOLEAN
  /\ saved = {} /\ returned = {}

Sent(kind) == {m \in net : m.kind = kind}
Send(kind, d, c) == [kind |-> kind, from |-> d, ver |-> c.ver, chips |-> c.chips]

-----------------------------------------------------------------------------
(* The page. *)

\* Mutant: the server's copy comes first.
ServerFirst(d, seeded) ==
  screen' = [screen EXCEPT ![d] = [pc |-> "open", chips |-> seeded,
    ver |-> IF draft.ver # 0 THEN draft.ver ELSE local[d].ver]]

\* GET /brew/new unites the chips of the draft with those of its coffee, and
\* sorts them.  The stored payload is the form's last chip, a string: its
\* characters do not compare with the coffee's numbers, and the request fails.
Unites == draft.chips /\ advertises

\* The fields come back from the local copy, or else from the server's; the
\* chips are those of the coffee that the server prefilled the page with.
new_brew_page(d, seeded) ==
  screen' = [screen EXCEPT ![d] =
    IF Unites THEN [Blank EXCEPT !.pc = "error"]
    ELSE [pc |-> "open", chips |-> seeded,
          ver |-> IF local[d].ver # 0 THEN local[d].ver ELSE draft.ver]]

OpenPage(d) ==
  /\ screen[d].pc \in {"closed", "error"}
  /\ \E seeded \in BOOLEAN : new_brew_page(d, seeded)
  /\ UNCHANGED <<typed, local, draft, net, advertises, saved, returned>>

\* Every input writes the whole form to localStorage.
_writeLocal(d) ==
  /\ screen[d].pc \in {"open", "posting"} /\ typed < MaxVersion
  /\ typed' = typed + 1
  /\ screen' = [screen EXCEPT ![d].ver = typed + 1]
  /\ local' = [local EXCEPT ![d] = [ver |-> typed + 1, chips |-> screen[d].chips]]
  /\ UNCHANGED <<draft, net, advertises, saved, returned>>

\* Adding or removing a chip is no input of the form.
PickChips(d) ==
  /\ screen[d].pc \in {"open", "posting"}
  /\ screen' = [screen EXCEPT ![d].chips = ~ @]
  /\ UNCHANGED <<typed, local, draft, net, advertises, saved, returned>>

\* htmx sends one request of an element at a time.
Quiet(d) == \A m \in net : m.from = d => m.kind \in {"submit", "logged"}

\* Leaving any field autosaves the form, typed into or not.
_autosave(d) ==
  /\ screen[d].pc = "open" /\ Quiet(d)
  /\ net' = net \cup {Send("autosave", d, screen[d])}
  /\ returned' = returned \cup ({screen[d].ver} \cap saved)
  /\ UNCHANGED <<typed, screen, local, draft, advertises, saved>>

\* The submit event clears the local copy, whatever becomes of the request.
Submit(d) ==
  /\ screen[d].pc = "open"
  /\ screen' = [screen EXCEPT ![d].pc = "posting"]
  /\ local' = [local EXCEPT ![d] = NoDraft]
  /\ net' = net \cup {Send("submit", d, screen[d])}
  /\ UNCHANGED <<typed, draft, advertises, saved, returned>>

_clearServerDraft(d) == net' = net \cup {Send("clear", d, NoDraft)}

\* Resetting the form leaves the chips.
discard(d) ==
  /\ screen[d].pc = "open" /\ Quiet(d)
  /\ screen' = [screen EXCEPT ![d].ver = 0]
  /\ local' = [local EXCEPT ![d] = NoDraft]
  /\ _clearServerDraft(d)
  /\ UNCHANGED <<typed, draft, advertises, saved, returned>>

discardAndLeave(d) ==
  /\ screen[d].pc = "open" /\ Quiet(d)
  /\ screen' = [screen EXCEPT ![d] = Blank]
  /\ local' = [local EXCEPT ![d] = NoDraft]
  /\ _clearServerDraft(d)
  /\ UNCHANGED <<typed, draft, advertises, saved, returned>>

ClosePage(d) ==
  /\ screen[d].pc # "closed"
  /\ screen' = [screen EXCEPT ![d] = Blank]
  /\ UNCHANGED <<typed, local, draft, net, advertises, saved, returned>>

\* Safari evicts localStorage after a week.
Evict(d) ==
  /\ local[d].ver # 0 /\ screen[d].pc = "closed"
  /\ local' = [local EXCEPT ![d] = NoDraft]
  /\ UNCHANGED <<typed, screen, draft, net, advertises, saved, returned>>

-----------------------------------------------------------------------------
(* The server. *)

\* create_brew does not await between its two commits.
BetweenCommits == Sent("logged") # {}

\* A form body becomes a dict: of repeated keys the last value stays, a string.
_read_draft_payload(m) == [ver |-> m.ver, chips |-> m.chips]

save_draft(m) ==
  /\ m \in Sent("autosave") /\ ~ BetweenCommits
  /\ draft' = _read_draft_payload(m)
  /\ net' = net \ {m}
  /\ UNCHANGED <<typed, screen, local, advertises, saved, returned>>

\* The first commit of create_brew: the session, and its chips for the coffee.
create_brew(m) ==
  /\ m \in Sent("submit") /\ ~ BetweenCommits
  /\ saved' = saved \cup ({m.ver} \ {0})
  /\ advertises' = (advertises \/ m.chips)
  /\ net' = (net \ {m}) \cup {[m EXCEPT !.kind = "logged"]}
  /\ returned' = returned \cup ({m.ver} \cap saved' \cap {a.ver : a \in Sent("autosave")})
  /\ UNCHANGED <<typed, screen, local, draft>>

\* The page goes away on the redirect, or stays when the answer is lost.
Answered(d) ==
  \/ screen' = [screen EXCEPT ![d] = Blank]
  \/ screen' = [screen EXCEPT ![d].pc = IF @ = "posting" THEN "open" ELSE @]

\* Mutant: the draft is left to the page to clear.
KeepsDraft(m) ==
  /\ m \in Sent("logged")
  /\ net' = net \ {m}
  /\ Answered(m.from)
  /\ UNCHANGED <<typed, local, draft, advertises, saved, returned>>

\* The second commit: the draft is gone.
ClearAfterCreate(m) ==
  /\ m \in Sent("logged")
  /\ draft' = NoDraft
  /\ net' = net \ {m}
  /\ Answered(m.from)
  /\ UNCHANGED <<typed, local, advertises, saved, returned>>

\* The second commit fails, or the process dies before it.
ClearFails(m) ==
  /\ m \in Sent("logged")
  /\ net' = net \ {m}
  /\ returned' = returned \cup ({draft.ver} \cap {m.ver} \cap saved)
  /\ screen' = [screen EXCEPT ![m.from].pc = IF @ = "posting" THEN "open" ELSE @]
  /\ UNCHANGED <<typed, local, draft, advertises, saved>>

\* Refused by the schema, or never arrived: the form is still there, the local
\* copy is not.
SubmitFailed(m) ==
  /\ m \in Sent("submit")
  /\ net' = net \ {m}
  /\ screen' = [screen EXCEPT ![m.from].pc = IF @ = "posting" THEN "open" ELSE @]
  /\ UNCHANGED <<typed, local, draft, advertises, saved, returned>>

clear_draft(m) ==
  /\ m \in Sent("clear")
  /\ draft' = NoDraft
  /\ net' = net \ {m}
  /\ UNCHANGED <<typed, screen, local, advertises, saved, returned>>

Lose(m) ==
  /\ m \in Sent("autosave") \cup Sent("clear")
  /\ net' = net \ {m}
  /\ UNCHANGED <<typed, screen, local, draft, advertises, saved, returned>>

DraftsNext ==
  \/ \E d \in Device : \/ OpenPage(d) \/ _writeLocal(d) \/ PickChips(d) \/ _autosave(d)
                       \/ Submit(d) \/ discard(d) \/ discardAndLeave(d) \/ ClosePage(d)
                       \/ Evict(d)
  \/ \E m \in net : \/ save_draft(m) \/ create_brew(m) \/ ClearAfterCreate(m)
                    \/ ClearFails(m) \/ SubmitFailed(m) \/ clear_draft(m) \/ Lose(m)

DraftsSpec == DraftsInit /\ [][DraftsNext]_draftVars

-----------------------------------------------------------------------------
\* A brew that was logged does not come back as a draft on the server, except
\* for the one of an autosave that raced the submit or followed it, or of a
\* second commit of create_brew that has not come yet or never came.
\* (Code: routers/brew.create_brew, save_draft.)
DraftGoneOnceSaved == draft.ver \in saved => draft.ver \in returned \/ BetweenCommits

\* What the member typed last on a device is what the fields of that device
\* show, the chips excepted: the server copy, which another device may have
\* overwritten or which an autosave left behind, never replaces it.
\* (Code: brew-draft.js init.)
NewestTypingShown ==
  \A d \in Device : (screen[d].pc = "open" /\ local[d].ver # 0) => screen[d].ver = local[d].ver

\* The page for a new brew opens whatever the draft holds.
\* (Code: routers/brew.new_brew_form, _read_draft_payload.)
NewFormOpens == \A d \in Device : screen[d].pc # "error"
=============================================================================
