------------------------------ MODULE Research ------------------------------
(***************************************************************************)
(* Coffee research and brew coaching: the page cache, the daily quota, the *)
(* predictions and the streams, on the settings and keys of Upkeep.        *)
(*                                                                         *)
(* A stream is an async generator on the one event loop.  It yields only   *)
(* while it waits for the provider or sends an answer; from its start to   *)
(* its first yield, and from the last token to its commit, nothing else    *)
(* runs on the loop.  The DELETE of an expired page is not committed       *)
(* before the stream ends, and its row lock makes every other lookup of    *)
(* the page wait, in a blocking call of the loop.                          *)
(***************************************************************************)
EXTENDS Upkeep

CONSTANTS Member, Page, Call   \* members past the cold-start gate, researched coffees, requests

Metered == {"research", "improve"}
Unmetered == {"equipment", "paste_rank", "prose"}
ASSUME CapsAreNumbers == Metered \subseteq Key /\ Text \ Fault \subseteq Nat

VARIABLES
  entry,     \* ai_coffee_research_cache
  guess,     \* ai_rating_predictions
  counted,   \* ai_recommendations rows without error_status of the last 24 hours
  told,      \* rows of the flows without a quota; prose when it is of the current signature
  call,      \* what each request is doing
  frozen     \* does the loop wait for a row lock?

researchVars == <<entry, guess, counted, told, call, frozen>>

Life == {"none", "live", "expired"}
Topic == Page \cup {"coach", "paste"}
KindOf(t) == IF t \in Page THEN "research" ELSE "improve"
NoCall == [pc |-> "idle", who |-> {}, topic |-> {}, cap |-> 0, evicted |-> FALSE]

ResearchTypeOK ==
  /\ entry \in [Page -> Life] /\ guess \in [Member -> [Page -> Life]]
  /\ \A m \in Member, k \in Metered : \E t \in Text \ Fault : counted[m][k] \in 0..t
  /\ told \in [Member -> SUBSET Unmetered]
  /\ call \in [Call -> [pc: {"idle", "asked", "stream", "ended", "refused", "fetch"},
                        who: AtMostOne(Member), topic: AtMostOne(Topic),
                        cap: {0} \cup (Text \ Fault), evicted: BOOLEAN]]
  /\ frozen \in BOOLEAN

ResearchInit ==
  /\ entry \in [Page -> {"none", "expired"}] /\ guess = [m \in Member |-> [p \in Page |-> "none"]]
  /\ counted = [m \in Member |-> [k \in Metered |-> 0]] /\ told = [m \in Member |-> {}]
  /\ call = [c \in Call |-> NoCall] /\ frozen = FALSE

-----------------------------------------------------------------------------
(* What a request reads. *)

Serving == up = "up" /\ ~ frozen /\ popping = {}
At(c, pc) == call[c].pc = pc
Who(c) == CHOOSE m \in Member : m \in call[c].who
Of(c) == CHOOSE t \in Topic : t \in call[c].topic
Bucket(c) == KindOf(Of(c))
configured == \E p \in Provider : get_provider_credential(p)

\* A cap that is not cached raises instead of falling back to 20.
get_quota_cap(k) == _get(k)
remaining(m, k) == {t - counted[m][k] : t \in get_quota_cap(k)}
HasQuota(m, k) == \E n \in remaining(m, k) : n > 0

\* Mutant: no lock.
NeverLocked(m, k) == FALSE

\* lock.locked(): the lock is held until the last piece of the answer is sent.
Locked(m, k) == \E c \in Call : /\ call[c].pc \in {"stream", "ended"}
                                /\ Who(c) = m /\ Bucket(c) = k

Deleted(p) == \E c \in Call : call[c].evicted /\ p \in call[c].topic
DeletedBeside(c) == \E d \in Call \ {c} : call[d].evicted /\ Of(c) \in call[d].topic

-----------------------------------------------------------------------------
(* The streams. *)

\* The route: it refuses a member without quota, and otherwise answers with a
\* stream that starts later.
Ask(c, m, t) ==
  /\ Serving /\ At(c, "idle") /\ HasQuota(m, KindOf(t))
  /\ call' = [call EXCEPT ![c] = [NoCall EXCEPT !.pc = "asked", !.who = {m}, !.topic = {t}]]
  /\ UNCHANGED <<entry, guess, counted, told, frozen>>

post_ai_research(c, m, p) == Ask(c, m, p)
post_ai_improve_brew(c, m) == Ask(c, m, "coach")

Admitted(c) == /\ Serving /\ At(c, "asked")
               /\ HasQuota(Who(c), Bucket(c)) /\ configured

\* A prediction is asked for when there is none or its week is over; a failing
\* provider leaves what there is.
get_or_refresh_prediction(m, p) ==
  \/ guess' = guess
  \/ guess[m][p] # "live" /\ guess' = [guess EXCEPT ![m][p] = "live"]

CacheHit(c) ==
  /\ Admitted(c) /\ Of(c) \in Page /\ entry[Of(c)] = "live"
  /\ get_or_refresh_prediction(Who(c), Of(c))
  /\ call' = [call EXCEPT ![c] = NoCall]
  /\ UNCHANGED <<entry, counted, told, frozen>>

\* The lookup of an expired page that another transaction has deleted waits.
get_cached_research(c) ==
  /\ Admitted(c) /\ Of(c) \in Page /\ Deleted(Of(c))
  /\ frozen' = TRUE
  /\ UNCHANGED <<entry, guess, counted, told, call>>

Misses(c) == Of(c) \in Page => entry[Of(c)] # "live" /\ ~ Deleted(Of(c))
Evicts(c) == Of(c) \in Page /\ entry[Of(c)] = "expired"

\* "Already in progress": its DELETE stays open until the answer is closed.
LockedOut(c) ==
  /\ Admitted(c) /\ Misses(c) /\ Locked(Who(c), Bucket(c))
  /\ call' = [call EXCEPT ![c].pc = "refused", ![c].evicted = Evicts(c)]
  /\ UNCHANGED <<entry, guess, counted, told, frozen>>

StartStream(c) ==
  /\ Admitted(c) /\ Misses(c) /\ ~ Locked(Who(c), Bucket(c))
  /\ \E t \in get_quota_cap(Bucket(c)) :
       call' = [call EXCEPT ![c].pc = "stream", ![c].cap = t, ![c].evicted = Evicts(c)]
  /\ UNCHANGED <<entry, guess, counted, told, frozen>>

Count(c) == counted' = [counted EXCEPT ![Who(c)][Bucket(c)] = @ + 1]

\* The upsert of a page that another transaction has deleted waits as well.
_write_cache_row(c) ==
  /\ Serving /\ At(c, "stream") /\ Of(c) \in Page /\ DeletedBeside(c)
  /\ frozen' = TRUE
  /\ UNCHANGED <<entry, guess, counted, told, call>>

\* The result parses: page, counted row and prediction.
generate_coffee_research(c) ==
  /\ Serving /\ At(c, "stream") /\ Of(c) \in Page /\ ~ DeletedBeside(c)
  /\ entry' = [entry EXCEPT ![Of(c)] = "live"]
  /\ Count(c)
  /\ get_or_refresh_prediction(Who(c), Of(c))
  /\ call' = [call EXCEPT ![c].pc = "ended", ![c].evicted = FALSE]
  /\ UNCHANGED <<told, frozen>>

generate_brew_improvement(c) ==
  /\ Serving /\ At(c, "stream") /\ Of(c) = "coach"
  /\ Count(c)
  /\ call' = [call EXCEPT ![c].pc = "ended"]
  /\ UNCHANGED <<entry, guess, told, frozen>>

\* Mutant: a failure clears the page, whoever stored it.
NotParsedClears(c) ==
  /\ Serving /\ At(c, "stream")
  /\ entry' = [p \in Page |-> IF p = Of(c) THEN "none" ELSE entry[p]]
  /\ call' = [call EXCEPT ![c] = NoCall]
  /\ UNCHANGED <<guess, counted, told, frozen>>

\* A result that does not parse is recorded with an error, which is not
\* counted; the eviction is committed with it.
NotParsed(c) ==
  /\ Serving /\ At(c, "stream")
  /\ entry' = [p \in Page |-> IF call[c].evicted /\ p = Of(c) THEN "none" ELSE entry[p]]
  /\ call' = [call EXCEPT ![c] = NoCall]
  /\ UNCHANGED <<guess, counted, told, frozen>>

\* The provider fails: no row, and the transaction stays until the answer is closed.
ProviderError(c) ==
  /\ Serving /\ At(c, "stream")
  /\ call' = [call EXCEPT ![c].pc = "ended"]
  /\ UNCHANGED <<entry, guess, counted, told, frozen>>

\* An answer is closed, or the client goes away while the stream is at a yield:
\* what is not committed is rolled back.
CloseAnswer(c) ==
  /\ up = "up" /\ ~ frozen /\ ~ At(c, "idle")
  /\ call' = [call EXCEPT ![c] = NoCall]
  /\ UNCHANGED <<entry, guess, counted, told, frozen>>

-----------------------------------------------------------------------------
(* The flows without a quota. *)

\* One blocking call of the provider; a row only for a result.
generate_equipment_rec(m) ==
  /\ Serving /\ configured
  /\ told' = [told EXCEPT ![m] = @ \cup {"equipment"}]
  /\ UNCHANGED <<entry, guess, counted, call, frozen>>

post_ai_equipment(m) == generate_equipment_rec(m)

\* The keys are read, the pasted pages are fetched ...
post_ai_paste_rank(c, m) ==
  /\ Serving /\ At(c, "idle") /\ configured
  /\ call' = [call EXCEPT ![c] = [NoCall EXCEPT !.pc = "fetch", !.who = {m}, !.topic = {"paste"}]]
  /\ UNCHANGED <<entry, guess, counted, told, frozen>>

\* ... and the provider is asked with the key read before.
rank_pasted_coffees(c) ==
  /\ Serving /\ At(c, "fetch")
  /\ told' \in {told, [told EXCEPT ![Who(c)] = @ \cup {"paste_rank"}]}
  /\ call' = [call EXCEPT ![c] = NoCall]
  /\ UNCHANGED <<entry, guess, counted, frozen>>

\* The nightly job, in its thread: skipped while the signature is unchanged.
generate_preference_profile_prose(m) ==
  /\ up = "up" /\ configured /\ "prose" \notin told[m]
  /\ told' = [told EXCEPT ![m] = @ \cup {"prose"}]
  /\ UNCHANGED <<entry, guess, counted, call, frozen>>

\* A rated brew changes the signature.
NewSignature(m) ==
  /\ "prose" \in told[m] /\ told' = [told EXCEPT ![m] = @ \ {"prose"}]
  /\ UNCHANGED <<entry, guess, counted, call, frozen>>

-----------------------------------------------------------------------------
(* Time, and the end of the process. *)

DayPasses(m, k) ==
  /\ counted[m][k] > 0 /\ counted' = [counted EXCEPT ![m][k] = @ - 1]
  /\ UNCHANGED <<entry, guess, told, call, frozen>>

PageExpires(p) ==
  /\ entry[p] = "live" /\ entry' = [entry EXCEPT ![p] = "expired"]
  /\ UNCHANGED <<guess, counted, told, call, frozen>>

PredictionExpires(m, p) ==
  /\ guess[m][p] = "live" /\ guess' = [guess EXCEPT ![m][p] = "expired"]
  /\ UNCHANGED <<entry, counted, told, call, frozen>>

Kill ==
  /\ Stop
  /\ call' = [c \in Call |-> NoCall] /\ frozen' = FALSE
  /\ UNCHANGED <<entry, guess, counted, told>>

Boot == (startup_check \/ rewrap_if_needed \/ prewarm_cache) /\ UNCHANGED researchVars

\* An admin enters a key, turns a provider off or on, or edits a cap.
EnterKey(p) == ~ frozen /\ cred[p].key = {} /\ set_provider_credential(p)
Toggle(p) == ~ frozen /\ cred[p].key # {} /\ \E b \in BOOLEAN : set_provider_enabled(p, b)
EditCap(k) == ~ frozen /\ save_setting(k)
AdminStep(K, V, W) ==
  /\ \/ PopEntry
     \/ \E k \in K : EditCap(k)
     \/ \E p \in V : EnterKey(p)
     \/ \E p \in W : Toggle(p)
  /\ UNCHANGED researchVars

StreamStep(c, M, T) ==
  \/ \E m \in M : \/ "coach" \in T /\ post_ai_improve_brew(c, m)
                  \/ \E p \in T \cap Page : post_ai_research(c, m, p)
  \/ CacheHit(c) \/ get_cached_research(c) \/ LockedOut(c) \/ StartStream(c)
  \/ _write_cache_row(c) \/ generate_coffee_research(c) \/ generate_brew_improvement(c)
  \/ NotParsed(c) \/ ProviderError(c) \/ CloseAnswer(c)

TellStep(M) ==
  \/ \E m \in M : \/ post_ai_equipment(m) \/ generate_preference_profile_prose(m)
                  \/ NewSignature(m) \/ \E c \in Call : post_ai_paste_rank(c, m)
  \/ \E c \in Call : rank_pasted_coffees(c)

TimeStep(M, P) ==
  \/ \E m \in M, k \in Metered : DayPasses(m, k)
  \/ \E p \in P : PageExpires(p) \/ \E m \in M : PredictionExpires(m, p)

ResearchNext(M, T) ==
  (\E c \in Call : StreamStep(c, M, T)) \/ TellStep(M) \/ TimeStep(M, T \cap Page)

\* What an admin may do; a handler of his waits too while the loop does.
AdminNext ==
  \/ PopEntry
  \/ /\ ~ frozen
     /\ \/ \E k \in Key : save_setting(k)
        \/ \E p \in Provider : \/ set_provider_credential(p)
                              \/ \E b \in BOOLEAN : set_provider_enabled(p, b)

\* The whole server process; backups run in threads of their own.
ServerNext ==
  \/ Boot \/ Kill
  \/ (AdminNext \/ Reconfigure \/ BackupNext) /\ UNCHANGED researchVars
  \/ ResearchNext(Member, Topic) /\ UNCHANGED upkeepVars

ResearchSpec == UpkeepInit /\ ResearchInit /\ [][ServerNext]_<<upkeepVars, researchVars>>

-----------------------------------------------------------------------------
\* A call is counted only within the cap that was in force when its stream
\* began, however streams, caps, failures and the 24 hours overlap. (Code:
\* ai_quota.remaining, the locks of generate_coffee_research and
\* generate_brew_improvement.)
QuotaHolds ==
  [][\A m \in Member, k \in Metered : counted'[m][k] > counted[m][k] =>
       \E c \in Call : /\ At(c, "stream") /\ Who(c) = m /\ Bucket(c) = k
                       /\ counted'[m][k] <= call[c].cap]_<<upkeepVars, researchVars>>

\* The quota is a meter of each member and flow: one call under way at a time,
\* begun below the cap then in force, counted within it, and free when it fails.
\* A call that has ended is over for the meter, even while its answer is not
\* closed and its lock is still held. (Code: ai_quota.remaining and
\* get_quota_cap, the locks of ai_research and ai_improve, settings.set_setting.)
Spending ==
  [m \in Member |-> [k \in Metered |->
     {call[c].cap : c \in {d \in Call : At(d, "stream") /\ Who(d) = m /\ Bucket(d) = k}}]]
Meter == INSTANCE Meter WITH
  Users <- Member, Buckets <- Metered,
  used <- counted, under <- Spending, limit <- [k \in Metered |-> cache[k]]
MetersKept == Meter!Spec

\* A researched page stays for its days: a request that deletes the expired row
\* and fails or ends late never takes away what another has stored since. (Code:
\* ai_research.get_cached_research, whose DELETE is committed by whatever
\* commits next in its transaction, and _write_cache_row.)
PagesStay ==
  [][\A p \in Page : entry[p] = "live" => entry'[p] \in {"live", "expired"}]_<<upkeepVars, researchVars>>

\* A stopped loop waits for a request of its own: one that deleted an expired
\* page and has not committed. (Code: ai_research.get_cached_research and
\* _write_cache_row, blocking statements in async generators.)
FrozenByEviction ==
  frozen => \E c \in Call : call[c].evicted /\ call[c].pc \in {"stream", "ended", "refused"}

\* It is not the time limit of a lock, nor a client that goes away, that ends
\* this: until the process dies no request takes a step, and pages only expire.
\* (Code: the same; no lock_timeout is set.)
FrozenForGood ==
  [][frozen /\ ~ Kill =>
       /\ frozen' /\ call' = call
       /\ \A p \in Page : entry'[p] # entry[p] => entry[p] = "live" /\ entry'[p] = "expired"
    ]_<<upkeepVars, researchVars>>

\* Looking a page up removes its expired row and returns: the lookup does not
\* stop the server. (Code: ai_research.get_cached_research.)
LookupReturns == ~ frozen
=============================================================================
