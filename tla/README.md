# Snobbery in TLA+

Specifications of [coffee-snobbery](../src/README.md), a household coffee log:
FastAPI on one uvicorn worker, PostgreSQL 16, APScheduler in the same process,
Alpine.js in the browser. Paths below are relative to `src/app/`.

## 1. The system

Everything server-side is one process. **One event loop** runs every request as a
coroutine; a coroutine gives up the loop only at an `await`. Two kinds of database
access meet there:

* `dependencies/db.py:get_async_session`: `AsyncSession`, each statement is an
  `await` (login, logout, setup, session middleware, session eviction);
* `dependencies/db.py:get_session`: a blocking `Session`, used by `async def` handlers
  (admin, catalog, brew, AI), so a statement that waits in Postgres stops the loop.
  Reads declared `def` run in a thread pool, and so does the *closing* of every
  blocking session, after the response has been sent.

Transactions are READ COMMITTED. No statement or lock timeout is configured.

| component | state | operations | talks to | what is hard |
|---|---|---|---|---|
| accounts and sessions (`routers/admin/users.py`, `routers/auth.py`, `middleware/session.py`, `services/sessions.py`) | `users`, `sessions` | login, logout, create, edit, toggle, deactivate, reactivate, delete; eviction; expiry | brew sessions (RESTRICT key), scheduler (expiry) | guards that are read before an `await`, locks held across one, two commits per security change |
| first-run setup (`services/setup.py`) | `app_settings.setup_completed`, the first `users` row | POST /setup | sessions | racing posts, failures between statements |
| AI regenerate (`services/ai_service.py`) | `ai_recommendations`, `_LOCKS`, `_THROTTLE` | nightly run, manual refresh, admin run | providers, credentials, analytics | one lock for a thread and a loop, advisory lock released early, partial success |
| AI research, quota, coaching (`services/ai_research.py`, `ai_quota.py`, parts of `ai_service.py`) | page cache, predictions, telemetry rows, per-member locks | streamed research and coaching, equipment and paste-rank calls, prose | providers, settings | quota read seconds before the call is counted, disconnects, an uncommitted DELETE during a stream |
| settings cache, credential rotation (`services/settings.py`, `credentials.py`, `main.py`) | `_cache`, `app_settings`, `api_credentials` | boot, set, get, rewrap | every component | order at boot, cache after a write, a death between two boot steps |
| scheduler, backup (`services/scheduler.py`, `backup.py`) | two files per day, status row | nightly and manual run, prune | settings | shared file names, a half that failed, a late prune |
| brew sessions and CSV import (`services/brew_sessions.py`, `csv_io.py`) | `brew_sessions`, `usage_count`, flavor notes of coffees | create, update, prefill, import | equipment, coffees | a counter kept by hand, a difference against what was loaded before an `await` |
| brew drafts (`services/brew_drafts.py`, `static/js/alpine-components/brew-draft.js`) | one row per member, `localStorage` per device | open, autosave, submit, discard | brew sessions | requests that overtake each other, two copies |
| photos of bags and cafe logs (`services/photos.py`, `bags.py`, `cafe_logs.py`) | rows and files | upload, replace, delete, sweep | file system | two stores, no transaction |
| catalog (`services/coffees.py`, `roasters.py`, `flavor_notes.py`, `varietals.py`, `water_profiles.py`, `equipment.py`, `recipes.py`) | seven tables | create, rename, archive, list, the coffee form | brew sessions, photos | forms that are old when they are saved |
| guided brew (`static/js/alpine-components/guided-brew-mode.js`) | timer, step, wake lock | start, pause, skip, tick, wake | browser | wall clock against manual steps, late callbacks |
| wishlist, CSV export, analytics, search, home, CSRF and headers, service worker | rows, or nothing | | | single transactions or read-only |

`PROJECT.json` lists every component with its status, and every hazard at its line.

What makes each component correct, in a sentence:

* **accounts**: an installation keeps an active admin; nobody locks himself out; a session
  has an owner and does not outlive a security change of that owner; a request is answered.
* **setup**: one first admin, and the flag says so.
* **regenerate**: one generation at a time per user; a stored signature means that what it
  names was generated; a failure leaves a trace and permits a retry.
* **research**: no more counted calls than the cap, however streams overlap; a stored page stays for its days; a lookup returns.
* **boot**: a cached setting is the committed one; after one start every key that can be read is under the primary key.
* **backup**: what the status row says is on disk; nothing is pruned early.
* **brew sessions**: `usage_count` is the number of slots that use the equipment; a save changes its own session and its own notes.
* **CSV import**: a row that gives its time adds nothing where the member had a session of that coffee and time before.
* **drafts**: what was logged is no draft any more; what was typed last is what the fields show (the flavor chips do not come back).
* **photos**: a row names existing files, and no two rows the same; a file without a row has a cause on record.
* **catalog**: archiving is for good; an undisturbed save stores its form.
* **guided brew**: the step shown is the one that the clock or the user chose; nothing stays locked at the end.

## 2. Modules

| module | models |
|---|---|
| `Accounts.tla` | accounts and sessions, at the granularity of awaits and row locks |
| `MCAccounts.tla` | its TLC instances |
| `AccountsProofs.tla` | its theorems |
| `FirstAdmin.tla` | the abstract election: at most one winner, for good |
| `Setup.tla` | POST /setup, at the granularity of statements |
| `MCSetup.tla` | its TLC instances |
| `SetupProofs.tla` | its theorems, among them that `Setup` implements `FirstAdmin` |
| `Regenerate.tla` | `ai_service.regenerate` and its callers, with the asyncio lock, the advisory lock and the transactions |
| `MCRegenerate.tla` | its TLC instances |
| `OneBuyer.tla` | the abstract shop: for each user one purchase after the other, and what is served is what was bought |
| `RegenerateProofs.tla` | its theorems, among them that `Regenerate` implements `OneBuyer` |
| `Catalog.tla`, `CatalogProofs.tla` | the seven catalog tables and the coffee form; its theorems |
| `PhotoBook.tla` | the abstract book: a picture is shown in one place and once |
| `Photos.tla`, `PhotosProofs.tla` | rows and files of bag and cafe-log photos; its theorems, among them that `Photos` implements `PhotoBook` |
| `Journal.tla`, `Drafts.tla`, `BrewingProofs.tla` | brew sessions, counters, notes and CSV import; the draft of a new brew; their theorems |
| `Upkeep.tla` | boot, settings, provider keys, backups |
| `Research.tla` | research, coaching, quota and predictions, on top of `Upkeep`: the whole server process |
| `Meter.tla` | the abstract meter: of each member and flow one call at a time, begun below the cap in force and counted within it |
| `ServerProofs.tla` | the theorems of these two, among them that `Research` implements `Meter` |
| `MCHousehold.tla` | small instances of these six components, checked together |
| `HouseholdProofs.tla` | that its behaviours are behaviours of each of them, and what follows |

### Accounts

*State.* `accounts`, `admins`, `actives` are the ids whose `users` row exists, has `is_admin`,
has `is_active`; `deleted` are ids never issued again; `brewed` are the ids that
`brew_sessions` refers to. `sessions` holds committed rows. `req[r]` is the coroutine of an
open request: `pc` names the await it is suspended in (or the phase that follows), and the
other fields are what it has captured: the user the middleware put in `request.state`, its
`is_admin` at that moment, the target id, what the edit form says. `xlock[r]` and `slock[r]` are
the `users` rows its transaction holds `FOR UPDATE` and `FOR KEY SHARE`. `blocked` is the
request whose blocking statement waits in Postgres and thereby stops the loop.

*Steps.* One action per stretch between two awaits:

| action | code |
|---|---|
| `ArriveWithSession`, `ResolveUser`, `DropSession` | the two reads of `SessionMiddleware` and its fail-closed branch |
| `Login`, `DeletePrior`, `LoginInsert`, `LoginCommit` | `login_submit` after `verify_password`, and the three statements of `regenerate_session`; the server runs `DELETE` and `INSERT` without needing the loop |
| `Dispatch`, `LoadForUpdate` | a handler up to `await request.form()`; `update_user` loads its target *before* |
| `Refuse`, `Reject`, `Allowed` | the 409 of the count guard, the early returns, the guards passed |
| `ToggleAdmin`, `UpdateUser`, `DeactivateUser`, then `Evict` | commit of the change; `_delete_user_sessions` in a transaction of its own |
| `DeleteGuard`, `DeleteEvict`, `DeleteCommit` | `delete_user` before, in and after its await; the guard's locks are kept throughout |
| `Respond`, `CloseSession` | the response leaves, later a pool thread closes the session and frees the locks |
| `Block` | a blocking statement of `r` has to wait (`MustWait`): the loop stops with it |
| `StatementFails`, `EvictFails`, `DeleteEvictFails` | an awaited statement raises (no connection within `pool_timeout`, or one that was lost): rollback and a 500. When it is the eviction, the security change before it stays committed |
| `Restart` | the process dies; Postgres rolls back what was open |

A blocking handler's statements are one step: nothing else runs on the loop between them, and
what can interleave on the server (a login's `INSERT`) is covered by the locks. `MustWait`
says which locks it needs and `Block` is the alternative to running. `Evict` may leave rows
that committed after its `DELETE` took its snapshot (`late`). A connection whose locks have stopped
the loop is taken to stay up; were it lost, Postgres would roll back and the wait would end. `UpdateConflict` is the duplicate
username, and `Reject` covers the `StaleDataError` of a target deleted meanwhile. A change of username
updates a key column, so it waits for `FOR KEY SHARE` too.

*Left out*: the edit of an email alone (it can only wait), `refresh_last_seen` (moves an expiry
that the model lets happen at any time), form validation (an early return without effect), password hashes (a login
passes or does not), the rate limiter (fewer requests), a logout's `DELETE` held open between its
statement and its commit (nothing is awaited in between but the commit).

*History variables*: `outdated` and `raced` in session rows, `unevicted`, `unguarded`. They record
what has happened for the properties. Two guards read them. `Evict` leaves only rows that `MayBeLate`: not those that were committed before
the security change it belongs to, hence before its `DELETE` began. And `MaxUnevicted` bounds the users whose eviction failed.

### Setup

`lock` is the holder of the `setup_completed` row, `staged[r]` the uncommitted writes of `r`'s
transaction. `Preflight` is the unlocked read of the flag, `SelectForUpdate`, `InsertAdmin`,
`UpdateFlag`, `Commit` the statements of `create_first_admin`, `LoseRace` its rollback, `CreateSession`
the auto-login. `Fail` is any exception (a 500; closing the session rolls back) and `Restart` the death
of the process. After an answer a visitor may post again, so the model does not end.
The refinement mapping takes the winner to be the request behind the committed admin.

### Regenerate

*Who runs.* Requests (`Refresh` is `post_ai_refresh`, `RefreshAll` is `run_ai_refresh`) and the nightly `Job`. A request takes steps only
while it is `running`, that is, has the main loop; the provider clients are blocking, so it gives the loop up only at the link check
(`VerifyUrl`), as a waiter of the lock (`Enqueue`) and with its response. The job is a thread: its steps fall anywhere.

*State.* `sigs[u]` is what `compute_input_signature` would return, `coffee[u]` the signature of the row that `get_latest_recommendation`
returns. `held`, `queue`, `woken`, `bound` are the fields of the user's `asyncio.Lock`. `advisory[u]` is the transaction that
owns the advisory lock. `generated_at` is the start of the writing transaction, so `older` keeps the order in which open transactions
began and `overtaken[r]` the users for whom a younger transaction has already committed a row: a row of `r` for them is not served.

*Steps.* One per statement that another thread can observe:

| action | code |
|---|---|
| `Gate`, `Check` | cold-start gate (its query begins the transaction), `lock.locked()` |
| `Acquire`, `Take`, `Enqueue`, `Resume`, `Release` | `async with lock`. Without waiters so far the lock is tested and set at once. Later the test iterates a deque, where the interpreter may switch threads. A waiter binds the lock to its loop; a waiter of another loop gets a `RuntimeError` (`Raise`), and so does a second release. |
| `TryAdvisoryLock`, `CheckSignature` | the two checks inside the lock |
| `VerifyUrl`, `UrlVerified`, `GiveUp`, `AllTiersFail`, `Publish` | `_generate_coffee_rec`: at most one link check, exceptions and missing credentials, the error row, the coffee row; the last two commit and thereby free the advisory lock |
| `SweetSpots` | prose in a transaction of its own, or none |
| `Respond`, `CloseSession`, `CloseJobSession`, `JobDone` | ends of the callers; a run that committed nothing keeps its transaction, and the advisory lock, until its session closes |

Which tier or provider answers is abstracted: only whether a candidate comes out, and whether its link is checked. A throttled or in-flight
refresh answers 429 and changes nothing, so it is no step.

*Seen from outside.* `OneBuyer` knows neither threads nor locks: a user has at most one deal, `Buy` opens it and `End` closes it. `Shop` maps the deal of a user to the run that is
between `CheckSignature` and the commit of its coffee or error row (`InCoffee`), with the signature it checked and whether it was forced. `BoughtOneByOne` says that `Regenerate` implements it: a second deal of a
user never opens meanwhile, an unforced one is for a signature that is not served yet, and a coffee is served under the signature its buyer checked, not under the one of the moment it commits.

*Left out*: `_verify_and_persist_url` (writes a column no property is about), preference-profile prose, the status summary, other AI calls.

### Catalog

*State.* A row is its name or nothing (`name[x]`), `archived` the rows with the flag, `maker`, `grown`, `chips` a coffee's roaster, varietals and
advertised notes. `page[u]` is the coffee form a browser has open: a copy of the row when it was opened, what was typed since, and, once it is sent, `old`:
the varietals the handler loaded before it waited for the body.

*Steps.* `Insert`, `Rename`, `Archive` are what the seven services share; `roasters_create`, `notes_update` and so on add the unique constraint where the
table has one (a duplicate is a rolled-back `IntegrityError`, so no step). `create_varietal_on_the_fly` is get-or-create. A new roaster or note may come from a
modal over a coffee form, which then selects it. `update_coffee_handler` loads and waits, `update_coffee` saves:
scalars overwrite, varietals are the difference between the form and `old` (`VarietalDelta`), and the flush fails when that difference does not fit what is stored by
then. `FormRefused` is the validation error; the page that comes back has lost its varietals.

`alone` is a history variable: it becomes false when another save of the same coffee commits during the wait.

### Photos

A photo is two files. An upload reads its row, waits for the body (`upload_photo`), and then writes main file and thumbnail, commits, and unlinks what it read as the
old photo *before* the wait: `process_and_save`, `SaveThumb`, `attach_or_replace_photo`, `replace_photo`. These do not yield the event loop (`LoopFree`); deleting a photo is a
plain `def` and runs in the thread pool between any two of them. Cafe logs insert or update their row likewise (`InsertCafeRow`, `update_cafe_log`); deleting one leaves its files.
`unlink_safe` may fail. `Crash` may fall anywhere; rows and files stay. `sweep_orphans` lists the files, reads the rows and unlinks; nothing in the program calls it, so the runs and the theorems let an operator
run it on an idle server (`SweepOnline = FALSE`). With `TRUE` the sweep takes the files of an upload that has not committed: the function's claim to be safe holds only for an idle server.

`PhotoBook` is what a reader of the pages sees. `Book` maps `shown` to the pictures that a row names and whose two files are there, and `past` to the uuids drawn that are neither in a row nor still on the way to one. `BookKept` says that the commit of an
upload is one step from the old picture to the new one, that a picture once replaced, removed or given up is not seen again, and that saving, unlinking, sweeping and crashing change no page.

### Journal

`form[t]` is the brew form of a tab: of a new session, prefilled by `resolve_prefill` from the latest or a given session, or of the session it edits. `update_brew` loads the session (404 unless it
is the member's own) and waits; `update_brew_session` saves with the equipment and the notes it loaded as the old ones. Counters move by `_equipment_deltas_for_change`, notes by `_sync_coffee_flavor_notes`.
`import_brews` adds the rows that are not there yet; their equipment is stored but not counted, and their notes follow in a second transaction that may fail. A row that gives no time (`None`) gets the time at which it
is read (`_parse_brewed_at`), so it is new in every import. `born` is a history field: the number of files imported when the session was logged, its own included; with `imported` and `edited` it says which sessions `FilesDontRepeat` is about.
`skewed` is a history variable: the equipment of imported sessions and of two edits of one session that overlapped. That counter may be wrong for good; `UsageExact` is about the rest.
A browser may change members under an open form (`SwitchMember`).

### Drafts

One member, several devices. A version is what the form holds after an input, and 0 a form as the server filled it. `_writeLocal` stores it in the browser; `_autosave` (leaving any field, typed into or not), `Submit` and `_clearServerDraft` send requests into `net`, a set: they
arrive in any order or are lost. The page fills its fields from the local copy, or else from the server's. The flavor chips belong to a widget of their own: `PickChips` changes them without an input event, they go along when the form is stored or sent, and
a page that opens shows those of the coffee the server prefilled it with (`seeded`), whatever the copies hold. `create_brew` commits the session and then the deletion of the draft: `create_brew` and `ClearAfterCreate`, which other requests' reads may fall between; `ClearFails` is a
failed second commit or a death before it. Nothing is awaited in between, so the event loop's `save_draft` is not (`BetweenCommits`). `_read_draft_payload` turns a repeated form key into its last value, a
string, which is what disagreement 5 is about. `returned` records the versions that were autosaved again, or kept by a failed second commit, although they were logged.

### Upkeep

Boot is three steps with a possible death (`Stop`) between any two: `startup_check`, `rewrap_if_needed`, `prewarm_cache`. The operator changes `APP_ENCRYPTION_KEY` while the process is down (`Reconfigure`). `set_setting` commits and
`PopEntry` drops the cache entry: two steps. A backup is `run_backup`, `_run_pg_dump`, `_tar_photos`, `prune_old_backups`, `write_backup_status`, in a thread of its own; several runs may be under way and share the
two file names of a day. When two write one file together it may end up broken (`Written`).

### Research

`ResearchSpec` is the whole server process: boot, settings, keys and backups run beside the calls. A request needs a serving process, a readable key and a cached cap. `Ask` is the route, which answers with a stream that starts later; `StartStream`, `CacheHit`, `LockedOut` are what the
generator does up to its first yield, `generate_coffee_research`, `generate_brew_improvement`, `NotParsed`, `ProviderError` what it does after the last token, `CloseAnswer` the end of the answer or a client that goes away. An evicting request keeps its `DELETE` uncommitted (`evicted`); another
lookup of that page, or the upsert of a stream that began before, then waits on the event loop (`frozen`). Equipment, paste-rank and prose calls have no quota (`told`). The cold-start gate is taken as passed.

`Meter` is what a member is promised of the daily quota. The mapping takes `used` to be the counted calls, `limit` the cached caps, and `under` the cap of the member's running stream (`Spending`): a call whose answer is
complete but not closed still holds its lock, and is over for the meter. `MetersKept` says that `Research` implements it: `StartStream` is `Begin`, a parsed answer `Charge`, a failure or a disconnect `GiveUp`, a day `Lapse`, a change of a cached cap `Reset`, a death `Crash`.

## 3. What TLC checks

| run | instance | checks | result |
|---|---|---|---|
| `accounts_core` | 2 users, 2 requests, 3 session ids, no restart | types, `AdminRemainsIfGuarded`, `SessionHasOwner`, `LockedRowsStable`, `OnlyEmbraceCycles`, `SomeoneCanGoOn`, `NoSelfLockout` | holds; 1,323,310 states |
| `accounts_crash` | 2 users, 2 requests, 1 session id, 1 failed eviction, 1 restart, fair | `RevokedUnlessCutOff`, `AnsweredOrWedged` | holds; 307,032 states |
| `accounts_admin_remains` | as `accounts_core` | `AdminRemains` | **violated** |
| `accounts_reauth` | as `accounts_core` | `ForcesReauthEverywhere` | **violated** |
| `accounts_wedge` | as `accounts_core`, fair | `DemotionsSerialize` | **violated** |
| `setup` | 3 requests, 1 restart, fair | types, `OneFirstAdmin`, `LoginsHaveAccounts`, `Answered`, `Elects` | holds; 3,100 states |
| `regenerate` | 1 user, 2 requests and the job, 2 signatures | types, `OneCoffeeAtATime`, `NeverPaidTwice`, `OnlyStrandedHang`, `BoughtOneByOne` | holds; 439,868 states |
| `regenerate_live` | 1 user, 2 requests and the job, 1 signature, fair | `SpinnerStops`, `EndsOrWaits` | holds; 362,520 states |
| `regenerate_newest` | 1 user, 1 request and the job, 2 signatures | `NewestIsServed` | **violated** |
| `household` | the six components below, 2 of most things | types, and the 18 properties of `Household.cfg`, `BookKept` and `MetersKept` among them | holds; 1,096,341 states |
| `household_new_form` | as `household` | `NewFormOpens` | **violated** |
| `household_lookup` | as `household` | `LookupReturns` | **violated** |

*Bounds.* Two users are two admins who act on each other, which every guard is about. Two requests
are needed for every race the handlers have (a holder and a waiter, a delete and a promotion); each request
slot is used again for the next request, so executions are not limited to two requests in all. Three session ids
are the session of the admin who deletes, one that a login replaces, and its replacement: fewer, and a delete and a login never embrace.
`accounts_crash` keeps one id because eviction is per user, not per session, and its fair liveness check is the expensive one; `Embrace` does not occur there; `SecurityChangesRevoke`, `StuckUntilRestart` and `NoThirdWay` are proved for any number of ids. One restart is enough for a death between two
commits; further deaths repeat it. One failed eviction (`MaxUnevicted`) leaves the sessions of one user; `accounts_core` has none of that, since the failure of an eviction only ends a request there, as an answer does, while a delete's eviction and a login's statements may fail in all of them. The proofs below have no bounds. Symmetry (requests, session ids, users other than
`Root`) is used only for runs without liveness: `NoSelfLockout`, `NeverPaidTwice` and the two refinements are about
single steps and name no individual. Deadlock is not checked for `Accounts`, where the loop really may stop for good;
`SomeoneCanGoOn` says exactly when it may,
and `OnlyEmbraceCycles` which circles of waits there can be. It is checked for `Setup`.

`Regenerate` is checked for one user because its state is per user but for the admin run's transaction, which may carry an advisory lock on to the
next user; the theorems cover that for any number. Two requests and the job are a holder, a waiter and a third run that meets
the lock in between, which it takes to get two runs past the asyncio lock. Two signatures are an unchanged and a changed one; the liveness run has
one, since signatures only decide whether a run skips, and that happens with one as well. A restart may happen at any time and needs no bound.

*The household.* The six components share no variable, apart from `Upkeep` and `Research`, so their product would only multiply. The initial state chooses a `focus`, and a behaviour moves the component, or the part of one, that is in focus;
invariants are checked for all of them in every state. Some components have several foci with different inputs: `coffees`, `roasters`, `notes`, `tables` (catalog); `usage`, `chips`, `files` (journal);
`settings`, `keys`, `backup` (upkeep); `quota`, `research`; `photos`; `drafts`, `picks` (drafts). The inputs of each focus are those that matter to its question: for `usage` a brewer alone, or a brewer and a grinder, so that an edit changes one slot, both,
or nets to zero; for `files` two times and two members, without equipment; for `drafts` two devices without chips and up to three requests under way (`MaxSent`); for `picks` chips, with one device at a time that has a page, a copy or a request (`MaxBusy`), and up to two requests. Two browsers, tabs, devices, requests, runs or calls are what every race here needs (one that waits, one that commits in between), and
each slot is used again. Three photos are an old one, a new one and a third for a second upload. Further bounds: `Counts` (-1 to 2) cuts off a drifting counter, `MaxImports` (2) and `MaxVersion` (2) are the file imported again and a
version typed after the one on its way, `MaxDay` (2) with `Retention` 0 scales the fourteen days of `BACKUP_RETENTION_DAYS` down to keeping the files of the day itself; `Text` has two values that parse and one that does not. The theorems of section 4 have none of these bounds.
Sessions, devices, requests, runs and calls are exchanged together (`Mirror`), tabs and the photos other than the first together (`Turn`): any simultaneous exchange of interchangeable values is a symmetry, and since a behaviour moves one component only, exchanging
them together loses nothing. `CHOOSE`-picked values (`One`) belong to no exchanged set but `Photo`, whose first element stays fixed. The action properties and the book name no individual. `Populated` is what the foci assume of an instance: the sets they pick an element of have one. Deadlock is not
checked: a draft that has used its versions, or an import its files, may stop there. These are safety runs without fairness.

*Fairness.* `SF` on what an open request does next: asyncio's ready queue is first-in first-out, so a coroutine
that can run is run, and Postgres queues waiters for a lock in order of arrival. Users are free to stay
away: arrivals and new posts are not fair. Crashes, expiry and failures are not either.
In `Regenerate` the job's thread has `WF`, except for `Resume(Job)`: a release on the main loop marks the job's future done but does not
wake the selector that the job's own loop sleeps in.

### Disagreements between the code and what it says

1. **`accounts_admin_remains`**. `routers/admin/users.py:13`: "Demoting, deactivating, or deleting the last active admin
   is refused." `delete_user` evaluates `target.is_admin` once. For a non-admin it takes no lock, awaits the eviction, and then deletes.
   Promote the target and demote the other admin during that await, and the delete removes the last active admin.
   `AdminRemainsIfGuarded` states what is left of the promise, and it is proved.
2. **`accounts_wedge`**. `routers/admin/users.py:69`: the row lock "serializes concurrent admin-demotion transactions at the DB
   level". The lock is waited for *on the event loop*. If its holder is a suspended coroutine of the same loop (a delete in its
   eviction, or a refusal whose session is closed only after the response), neither can go on until the process is restarted (`Wedged`).
   `AnsweredOrWedged` and `SomeoneCanGoOn` also name a second way to get stuck, `Embrace`, in which the loop stays free:
   a delete awaiting the eviction of a session row, and a login that replaces that row, waiting for a user row the delete has locked.
   It is proved that a wedge lasts until the process dies and an embrace until that, or until one of its two waiting statements fails (`StuckUntilRestart`), and that there is no third way (`NoThirdWay`).
3. **`accounts_reauth`**. `routers/admin/users.py:339`: a reset "must force re-auth everywhere". A login that has verified the old
   password commits its session after the eviction. `RevokedUnlessCutOff` is what holds: sessions that existed at the change are gone once
   the eviction has run. The eviction has a transaction of its own (`_delete_user_sessions`, 80-86), after the commit of the change: if it raises, or the process dies before it, they stay.
4. **`regenerate_newest`**. `services/ai_service.py:1293`: "Return the newest successful row". Rows are ordered by `generated_at`, the start of the writing
   transaction. A run that began its transaction before another run's, and committed after it, writes a row that is not served, and whose signature
   later runs do not compare with. `NeverPaidTwice` is therefore about the row served.
5. **`household_new_form`**. `routers/brew.py:841-843` unites the chips of the draft with those of its coffee and sorts them. The draft stores the last chip of the form as a string (1161), so with an advertised note the sort fails and the page for a new brew
   answers 500 until the draft is gone: the draft comes from the member's own autosave.
6. **`household_lookup`**. `services/ai_research.py:97`: "Deletes any expired row for *cache_key* first, then returns the live row or None." The `DELETE` is not committed before the stream ends. A second request for the page waits for that row lock in a blocking
   call of the event loop that the stream needs: the process serves nobody any more, and it is proved that this lasts until it is restarted (`FrozenUntilRestart`).

Met while modelling, and not the subject of a run:

* `services/credentials.py`, "Common case: same primary key as last boot. No work": the rewrap comes before the prewarm, its fingerprint is therefore never cached, and every boot with a key re-encrypts. `RotationDone` rests on that.
* After a setting is saved its typed accessors raise until the next boot (`services/settings.py:258`); `ai_quota.get_quota_cap` does not fall back to its default then. A value that does not parse keeps the next boot from finishing.
* `services/ai_research.py:207` describes predictions that `:236` no longer makes, and a failing prediction is asked for again on each view rather than once in seven days. `:412` calls the quota "theoretically exceedable": `MetersKept` and `QuotaIsKept` say it is not.
* `rank_pasted_coffees` promises a telemetry row always; a provider failure leaves none.
* `brew-draft.js` clears the local copy at every submit, not at a successful one; the clear on logout of `brew_drafts.py` is not there. `POST /brew` has no idempotency key.
* `routers/brew.py:823`: "Draft restore — union draft chips with current coffee's advertised chips"; `brew-draft.js:18`: "on init(), restore from localStorage if present; else fall back to the server draft". But `_applyDraft` (`brew-draft.js:123`) leaves out every array, and the
  chip widget's seed is what `brew.py:332-349` renders from the prefilled values, never from a draft: a form stored with chips comes back without them (`new_brew_page`), and what is stored next has lost them. `NewestTypingShown` is therefore about the fields.
* The coffee form comes back from a validation error without its varietals. `csv_io.py:432`, "re-import would fix the chips": a re-import skips the sessions it finds.
* An archived roaster or note keeps its name, so creating it again is refused. Two backups of one day overwrite each other.

`EndsOrWaits` has an exception which does occur: without its second disjunct TLC finds a run that waits for ever. The nightly thread and a request share
one `asyncio.Lock`; either the job waits on a loop nobody wakes (`Asleep`), or a release falls between a waiter's test of the lock and its entry in the queue (`Stranded`).
Everybody who comes later queues up behind it, or gets a `RuntimeError`. `StrandedForGood` says that a stranded lock stays so until the process is restarted, that its waiters
go on waiting and that nobody gets inside; `OnlyStrandedHang` that nothing else keeps a run that no provider delays from going on. Both are proved, for any runs and users.

## 4. What is proved

`tlapm` checks every leaf. Assumptions: `Users` is finite and contains `Root`; `None` is no user, request, signature or session
id; `Job` is no request; `MaxRestarts`, `MaxUnevicted` and `MaxVersion` are natural numbers; the ids of two catalog tables differ; the slots and the sessions of the journal are finite sets and `None` is no member, no equipment and no time; settings that are caps parse as
numbers; `Retention` and `MaxDay` are numbers; `SweepOnline = FALSE` for the photos; the sets a focus picks an element of are not empty (`Populated`). There is no bound on users, requests, sessions or restarts.

| theorem | argument |
|---|---|
| `TypeCorrect` | `TypeOK` alone is not inductive: a record may hold `None` where a later step needs a user. `RequestKnows` adds what a request knows at each `pc`. |
| `OwnedSessions` | `LockPhase`: a login past its `INSERT` holds `FOR KEY SHARE` on a row that exists. `DeleteCommit` waits for that lock, so no delete comes between `INSERT` and `COMMIT`. |
| `SecurityChangesRevoke` | the step that outdates a session is the step that makes its eviction due (`EvictionStaysDue`), and only the eviction, its failure or a death ends that; the last two are on record (`unevicted`). |
| `AdminKeepsOwnRights` | `ActiveAdminLost` lists the steps that can end an active admin's rights; each compares target and actor, or follows one that did. |
| `LocksHold` | `LockInv`: locks are held only in certain phases, exclude each other, and their rows are active admins. |
| `GuardKeepsAnAdmin` | `DeleteSparesOne`: the rows a delete locked include an admin who is not its target. They stay active admins until the commit because whoever would change them must wait. `GuardLeavesOne` is the counting lemma. |
| `OneAdmin`, `LoginsFindAccounts` | whoever is past the check of the flag holds the row lock (`LockedPhase`) and found the flag unset. |
| `TypeCorrect` (Regenerate) | `Located`: a run inside `regenerate` has a user. |
| `OneGeneration` | `AdvisoryKept`: from signature check to coffee row, `advisory[u] = r`. Only a run's own commit, close or the process's death frees it (`EndTyped`), and each comes with a `pc` outside that stretch. Nothing is assumed of the asyncio lock. |
| `PaysOnce` | `SigKept`: what the check found stays true, because `coffee[u]` changes only by the owner of `advisory[u]` (`OneRun`). |
| `StrandedUntilRestart` | the lock is taken by a run at `take` or by a waiter that was woken. There is neither; a new run finds the queue not empty and joins it; a release needs a lock that is held. |
| `NothingElseHangs` | `LoopInv`: a request is between two awaits exactly when it has the loop. `WaitInv`: the queue holds those who wait, each once; who is woken is its head; a held lock has a run inside. A run that cannot move is therefore behind one of these, or its lock is stranded. |
| `TypeCorrect` (Setup) | with `LockedPhase` in one invariant. |
| `CirclesAreEmbraces` | `OneHolder`: two transactions never hold `users` rows `FOR UPDATE` at once, since the guard locks every active admin. Whoever waits in a circle for a `users` row waits for that one delete, and the delete for a login: the circle is two long. |
| `StuckUntilRestart` | a stopped loop leaves three steps to the others (a login's two statements on the server, closing a session); none of them frees a lock of a request that `NeedsLoop`. In an embrace neither of the two can step, but by its failure, nobody else touches the session row or evicts it, and the row they wait for stays locked. |
| `NoThirdWay` | while the loop runs, whoever cannot move waits for another, and following the waits ends at one who moves, or in a circle, which is an embrace. While it is stopped, the request that stopped it waits for one that needs the loop (`Wedged`) or that moves. |
| `RunsShopInTurn` | refinement: `CheckSignature` is `Buy`, leaving the coffee (`Publish`, `AllTiersFail`, an exception) is `End`, a restart is `Crash`. `OneRun` and `SigKept` give the guards, and a run is in one user's deal only. |
| `SetupElects` | refinement: `Commit` is `Elect`, every other step stutters. |
| `CatalogTypes`, `ArchivedForGood` | every step names one row at most, and archives one at most (`NameStays`, `ArchiveStays`); none un-archives. |
| `LoadsStayFresh`, `SavesAsSubmitted` | `Opened`: a form that edits or waits is of one coffee, which exists, so creating a coffee changes none that is waited for. `old = grown[c]` then makes the difference against `old` the form itself. |
| `PhotosSafe`, `PhotosApart`, `PhotosTypes` | `PhotosInv`: the new photo of an upload is on disk and in no row, the old one is no row's but its own, and a sweep runs alone. |
| `PhotosAccounted` | `Charges`: each request is charged with one of its two photos, the old one once it unlinks; a missing row names nothing, and an upload's row is still there when its commit writes it. |
| `PicturesByTheBook` | refinement: `RowsHaveFiles` makes what is shown what the rows name. A commit is `Show` or `Hide` (`RowTurns`), for a saved picture is one (`OneNew`), used and in no row (`PendingApart`); a failed insert and a crash are `Waste`, the rest stutters. |
| `DraftTypes`, `SavedDraftsGo`, `TypingWins` | no version is anywhere before it is typed; an autosave that is under way when its version is logged has been recorded, and between the two commits of `create_brew` nothing else stores a draft. `TypingWins` is about the fields (`LocalShown`): an open page shows the version of its local copy. |
| `SessionsStayOwn`, `ChipsStay`, `JournalTypes` | a sent form names a session of its own member, and `old` is what that session holds unless another save came between. |
| `ImportsOnce` | `BornBy`: no session is younger than the files read so far. A row that an import adds has found no older session of its key, sessions logged later are younger, and an edit, which may move a key, takes its session out of the claim. |
| `CountersExact` | `UsageExact` counts pairs of session and slot. `Recount`: a save removes the slots that left a piece of equipment and adds those that joined it, and the deltas are the cardinalities of these two sets. |
| `RotationCompletes`, `ReadsAreCurrent`, `UpkeepTypes` | `Booting`: nothing is cached before the prewarm, and the process is not up without a primary key. |
| `PrunesOnlyOld`, `StatusBelieved` | `RunsBegan`: a run's day is not in the future. `SoleRun`: on a day with one run, that run is the only writer, and `OkMeansWhole` follows it from file to file to status row. |
| `QuotaIsKept`, `ResearchTypes` | `Metering`: a running stream is the only one of its member and bucket, and its bucket is below its cap. The lock is held to the end of the answer, so nothing else can count there. |
| `QuotaIsAMeter` | refinement: `OneSpends` makes `Spending` one cap or none. A step of one call changes the meter of its own member and flow alone (`SpendingShape`, `OthersSpend`); every other step stutters, or changes a cap (`Reset`) or a day (`Lapse`). |
| `PagesAreKept` | `EvictedExpired`: a page whose expired row a request has deleted is still expired, and only that request has deleted it, for the row lock keeps the others off. So no late commit of the `DELETE` meets a page that another has stored. |
| `FrozenUntilRestart` | `HolderPhase`: only a request that streams, has ended or was refused, and whose answer is not closed, has a `DELETE` open. Every step that could end that needs the loop. |
| `ResearchKeepsUpkeep` | refinement: every step of the server is one of `Upkeep` or leaves its variables alone. |
| `RunsAreComponents` | each focus narrows the inputs of one component, so its step is one of that component, and every other component stutters. |
| `HouseholdTypes`, `HouseholdHolds` | from `RunsAreComponents` and the theorems of the components: what the run `household` checks on an instance holds of every household. |

Only model-checked: liveness (`AnsweredOrWedged`, `Answered`, `SpinnerStops`, `EndsOrWaits`), which is out of the prover's reach, and of `SomeoneCanGoOn` that a request which `Moves` has an `ENABLED` step; its other half, that someone moves, is `NoThirdWay`.
What `AnsweredOrWedged` and `EndsOrWaits` rest on is proved: that a wedge and a stranded lock are for good, and an embrace but for the failure of a statement that waits (a job `Asleep` may still wake, its loop's selector has other reasons to return), and that nothing else comes to a stop. Every other property of a passing run is a theorem.
`QuotaHolds`, `StuckForGood`, `SomeoneMoves` on its own, `StrandedForGood`, `FrozenByEviction` and `FrozenForGood` are theorems without a run of their own: the first says of steps what `MetersKept` says of behaviours; TLC found no violation of the others on the instances of `accounts_core`, `regenerate` and `household_lookup`, and they are proved in general.

## 5. Plan

Left, in this order:

1. The guided timer: wall clock against skip and pause, callbacks after the wake lock is gone. It is one browser tab; nothing of it is stored.
2. Liveness of the streams: an answer that is asked for ends, under the fairness of the loop, unless the loop is frozen.
3. An abstract account of the drafts of several devices, with `Drafts` shown to implement it.

## 6. Not modelled

* The guided timer, and the other Alpine components: the state of one tab. `varietalChips`, which the coffee form uses, is registered by no script.
* Wishlist: one transaction per request on a member's own rows. CSV export, analytics, charts, search, home: read-only queries.
* CSRF, security headers, request context, fragment cache headers, logging: without state. The rate limiter's state is its library's.
* The service worker caches assets; templates, migrations, container and scripts are declarative or run by hand. The constraints the migrations create are in the modules that rely on them.
* `delete_brew_session` has no caller outside the tests; no form sends `bag_id`, so sessions carry no bag.
* A stale `is_admin` captured by a request in flight is in `Accounts`, and no property forbids its use, because the code accepts it.
