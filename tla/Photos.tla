------------------------------- MODULE Photos -------------------------------
(***************************************************************************)
(* Photos of bags and cafe logs: the rows that name a file, the files on   *)
(* the photo volume, and the requests that write one and then the other.   *)
(*                                                                         *)
(* A photo is two files, the main image and its thumbnail, under a fresh   *)
(* uuid.  An upload reads its row, waits for the body, and then runs its   *)
(* blocking part on the event loop: main file, thumbnail, commit, unlink   *)
(* of the files it believes to be the old ones.  The bag it loaded before  *)
(* the wait stays in the session's identity map, so the second get_bag     *)
(* returns the old attributes: "old" is the name read before the wait.     *)
(* Deleting a photo is a plain def: it runs in the thread pool, between    *)
(* any two steps of an upload.  A crash may fall anywhere.                 *)
(*                                                                         *)
(* A nullable photo_filename is a set of at most one photo.                *)
(***************************************************************************)
EXTENDS Naturals, FiniteSets

CONSTANTS Bags, Cafes,     \* row ids of bags and of cafe_logs
          Photo,           \* uuids
          Req,             \* requests that may be in flight together
          SweepOnline      \* may sweep_orphans run while requests are served?

ASSUME RowIdsDisjoint == Bags \cap Cafes = {}
ASSUME SweepOnlineBool == SweepOnline \in BOOLEAN

Rows == Bags \cup Cafes
Part == {"main", "thumb"}
Pair(ps) == ps \X Part

VARIABLES
  exists,     \* rows inserted so far (bags are never deleted, cafe logs may be)
  finished,   \* bags with finished_at set
  photo,      \* photo_filename of each row
  files,      \* <<photo, part>> on the volume
  used,       \* uuids already drawn
  req,        \* what each request is doing
  sweep,      \* files listed by a sweep that has not unlinked yet, or NotSweeping
  lost        \* history: photos that lost their row without their files being removed

photoVars == <<exists, finished, photo, files, used, req, sweep, lost>>

Idle == [op |-> "none", pc |-> "idle", row |-> {}, old |-> {}, new |-> {}]
Ops == {"none", "upload", "remove", "cafeadd", "cafeedit"}
Pcs == {"idle", "wait", "thumb", "commit", "unlink"}
NotSweeping == [on |-> FALSE, list |-> {}]

PhotosTypeOK ==
  /\ exists \subseteq Rows
  /\ finished \subseteq Bags
  /\ photo \in [Rows -> SUBSET Photo]
  /\ files \subseteq Pair(Photo)
  /\ used \subseteq Photo
  /\ req \in [Req -> [op: Ops, pc: Pcs, row: SUBSET Rows,
                      old: SUBSET Photo, new: SUBSET Photo]]
  /\ sweep \in [on: BOOLEAN, list: SUBSET Pair(Photo)]
  /\ lost \subseteq Photo

PhotosInit ==
  /\ exists = {} /\ finished = {} /\ photo = [x \in Rows |-> {}]
  /\ files = {} /\ used = {} /\ lost = {}
  /\ req = [r \in Req |-> Idle]
  /\ sweep = NotSweeping

Referenced == UNION {photo[x] : x \in Rows}
Fresh == Photo \ used
AllIdle == \A r \in Req : req[r] = Idle

\* The upload handlers are coroutines of one event loop: from the first write
\* to the last one they do not yield.
OnLoop(r) == /\ req[r].op \in {"upload", "cafeadd", "cafeedit"}
             /\ req[r].pc \in {"thumb", "commit", "unlink"}
LoopFree == \A r \in Req : ~ OnLoop(r)

MayStart(r) == req[r] = Idle /\ (SweepOnline \/ ~ sweep.on)

-----------------------------------------------------------------------------
(* Bag rows (async: create and update; def: archive). *)

create_bag_handler(b, fin) ==
  /\ b \in Bags \ exists /\ LoopFree
  /\ exists' = exists \cup {b}
  /\ finished' = IF fin THEN finished \cup {b} ELSE finished
  /\ UNCHANGED <<photo, files, used, req, sweep, lost>>

create_bag(b) == \E fin \in BOOLEAN : create_bag_handler(b, fin)

\* Every column of the form is overwritten; photo_filename is not one of them.
update_bag(b, fin) ==
  /\ b \in Bags \cap exists /\ LoopFree
  /\ finished' = IF fin THEN finished \cup {b} ELSE finished \ {b}
  /\ UNCHANGED <<exists, photo, files, used, req, sweep, lost>>

update_bag_handler(b) == \E fin \in BOOLEAN : update_bag(b, fin)

archive_bag(b) ==
  /\ b \in Bags \cap exists
  /\ finished' = finished \cup {b}
  /\ UNCHANGED <<exists, photo, files, used, req, sweep, lost>>

-----------------------------------------------------------------------------
(* POST /bags/{id}/photo *)

\* The row is loaded (404 when missing) and the body is awaited.
upload_photo(r, b) ==
  /\ MayStart(r) /\ b \in Bags \cap exists
  /\ req' = [req EXCEPT ![r] = [op |-> "upload", pc |-> "wait", row |-> {b},
                                old |-> photo[b], new |-> {}]]
  /\ UNCHANGED <<exists, finished, photo, files, used, sweep, lost>>

\* Too large, empty, not an image, a bomb: nothing has been written yet.
PhotoRejected(r) ==
  /\ req[r].pc = "wait" /\ LoopFree
  /\ req' = [req EXCEPT ![r] = Idle]
  /\ UNCHANGED <<exists, finished, photo, files, used, sweep, lost>>

\* Mutant: the file is named after the upload, not after a fresh uuid.
ReuseName(r, p) ==
  /\ req[r].pc = "wait" /\ req[r].op # "remove" /\ LoopFree
  /\ used' = used \cup {p}
  /\ files' = files \cup {<<p, "main">>}
  /\ req' = [req EXCEPT ![r].pc = "thumb", ![r].new = {p}]
  /\ UNCHANGED <<exists, finished, photo, sweep, lost>>

\* The main file is saved first, then the thumbnail.
process_and_save(r, p) ==
  /\ req[r].pc = "wait" /\ req[r].op # "remove" /\ LoopFree
  /\ p \in Fresh
  /\ used' = used \cup {p}
  /\ files' = files \cup {<<p, "main">>}
  /\ req' = [req EXCEPT ![r].pc = "thumb", ![r].new = {p}]
  /\ UNCHANGED <<exists, finished, photo, sweep, lost>>

SaveThumb(r) ==
  /\ req[r].pc = "thumb"
  /\ files' = files \cup (req[r].new \X {"thumb"})
  /\ req' = [req EXCEPT ![r].pc = "commit"]
  /\ UNCHANGED <<exists, finished, photo, used, sweep, lost>>

\* The row names the new photo before the old pair is unlinked.  What it named
\* is lost when that is not what this request read before the wait.
attach_or_replace_photo(r) ==
  /\ req[r].pc = "commit" /\ req[r].op = "upload"
  /\ \E b \in req[r].row :
       /\ photo' = [photo EXCEPT ![b] = req[r].new]
       /\ lost' = lost \cup (photo[b] \ req[r].old)
  /\ req' = [req EXCEPT ![r].pc = "unlink"]
  /\ UNCHANGED <<exists, finished, files, used, sweep>>

\* Mutant: the old thumbnail is forgotten.
ReplaceMainOnly(r) ==
  /\ req[r].pc = "unlink" /\ req[r].op = "upload"
  /\ files' = files \ (req[r].old \X {"main"})
  /\ req' = [req EXCEPT ![r] = Idle]
  /\ UNCHANGED <<exists, finished, photo, used, sweep, lost>>

\* Both unlinks tolerate a missing file and log an OSError: the set that
\* stays is any subset of the pair.
replace_photo(r) ==
  /\ req[r].pc = "unlink" /\ req[r].op = "upload"
  /\ \E stay \in SUBSET (Pair(req[r].old) \cap files) :
       /\ files' = (files \ Pair(req[r].old)) \cup stay
       /\ lost' = lost \cup {f[1] : f \in stay}
  /\ req' = [req EXCEPT ![r] = Idle]
  /\ UNCHANGED <<exists, finished, photo, used, sweep>>

-----------------------------------------------------------------------------
(* POST /bags/{id}/photo/delete, in the thread pool. *)

\* Mutant: the files go before the row is committed.
EagerDelete(r, b) ==
  /\ MayStart(r) /\ b \in Bags \cap exists
  /\ req' = [req EXCEPT ![r] = [op |-> "remove", pc |-> "commit", row |-> {b},
                                old |-> photo[b], new |-> {}]]
  /\ files' = files \ Pair(photo[b])
  /\ UNCHANGED <<exists, finished, photo, used, sweep, lost>>

delete_photo_handler(r, b) ==
  /\ MayStart(r) /\ b \in Bags \cap exists
  /\ req' = [req EXCEPT ![r] = [op |-> "remove", pc |-> "commit", row |-> {b},
                                old |-> photo[b], new |-> {}]]
  /\ UNCHANGED <<exists, finished, photo, files, used, sweep, lost>>

delete_photo(r) ==
  /\ req[r].pc = "commit" /\ req[r].op = "remove"
  /\ \E b \in req[r].row :
       /\ photo' = [photo EXCEPT ![b] = {}]
       /\ lost' = lost \cup (photo[b] \ req[r].old)
  /\ req' = [req EXCEPT ![r].pc = "unlink"]
  /\ UNCHANGED <<exists, finished, files, used, sweep>>

unlink_safe(r) ==
  /\ req[r].pc = "unlink" /\ req[r].op = "remove"
  /\ \E stay \in SUBSET (Pair(req[r].old) \cap files) :
       /\ files' = (files \ Pair(req[r].old)) \cup stay
       /\ lost' = lost \cup {f[1] : f \in stay}
  /\ req' = [req EXCEPT ![r] = Idle]
  /\ UNCHANGED <<exists, finished, photo, used, sweep>>

-----------------------------------------------------------------------------
(* Cafe logs.  A row of another member behaves as a missing one. *)

\* A form without a photo: one commit.
create_cafe_log_plain(c) ==
  /\ c \in Cafes \ exists /\ LoopFree
  /\ exists' = exists \cup {c}
  /\ UNCHANGED <<finished, photo, files, used, req, sweep, lost>>

\* A form with a photo: the file is saved before the row is touched.
create_cafe_log(r, c) ==
  /\ MayStart(r) /\ c \in Cafes \ exists
  /\ req' = [req EXCEPT ![r] = [op |-> "cafeadd", pc |-> "wait", row |-> {c},
                                old |-> {}, new |-> {}]]
  /\ UNCHANGED <<exists, finished, photo, files, used, sweep, lost>>

update_cafe_log_handler(r, c) ==
  /\ MayStart(r) /\ c \in Cafes
  /\ req' = [req EXCEPT ![r] = [op |-> "cafeedit", pc |-> "wait", row |-> {c},
                                old |-> {}, new |-> {}]]
  /\ UNCHANGED <<exists, finished, photo, files, used, sweep, lost>>

\* INSERT of the row; a foreign key that no longer holds, or an id taken by a
\* request that was faster, leaves the saved pair without a row.
InsertCafeRow(r) ==
  /\ req[r].pc = "commit" /\ req[r].op = "cafeadd"
  /\ \E c \in req[r].row :
       \/ /\ c \notin exists
          /\ exists' = exists \cup {c}
          /\ photo' = [photo EXCEPT ![c] = req[r].new]
          /\ lost' = lost
       \/ /\ UNCHANGED <<exists, photo>>
          /\ lost' = lost \cup req[r].new
  /\ req' = [req EXCEPT ![r] = Idle]
  /\ UNCHANGED <<finished, files, used, sweep>>

\* UPDATE of the row, found only now: 404 when it is gone.  The name it had is
\* overwritten and its files stay.
update_cafe_log(r) ==
  /\ req[r].pc = "commit" /\ req[r].op = "cafeedit"
  /\ \E c \in req[r].row :
       \/ /\ c \in exists
          /\ photo' = [photo EXCEPT ![c] = req[r].new]
          /\ lost' = lost \cup photo[c]
       \/ /\ c \notin exists
          /\ photo' = photo
          /\ lost' = lost \cup req[r].new
  /\ req' = [req EXCEPT ![r] = Idle]
  /\ UNCHANGED <<exists, finished, files, used, sweep>>

\* The row goes, its files stay.
delete_cafe_log(c) ==
  /\ c \in Cafes \cap exists /\ LoopFree
  /\ exists' = exists \ {c}
  /\ photo' = [photo EXCEPT ![c] = {}]
  /\ lost' = lost \cup photo[c]
  /\ UNCHANGED <<finished, files, used, req, sweep>>

-----------------------------------------------------------------------------
(* sweep_orphans: files first, rows second, unlink third. *)

sweep_orphans ==
  /\ ~ sweep.on /\ (SweepOnline \/ AllIdle)
  /\ sweep' = [on |-> TRUE, list |-> files]
  /\ UNCHANGED <<exists, finished, photo, files, used, req, lost>>

_sweep_unreferenced ==
  /\ sweep.on
  /\ \E stay \in SUBSET (sweep.list \ Pair(Referenced)) :
       files' = files \ ((sweep.list \ Pair(Referenced)) \ stay)
  /\ sweep' = NotSweeping
  /\ lost' = {p \in lost : \E q \in Part : <<p, q>> \in files'}
  /\ UNCHANGED <<exists, finished, photo, used, req>>

\* The process dies: requests and sweep vanish, rows and files remain.
Crash ==
  /\ ~ (AllIdle /\ ~ sweep.on)
  /\ req' = [r \in Req |-> Idle]
  /\ sweep' = NotSweeping
  /\ lost' = lost \cup UNION {IF req[r].pc = "unlink" THEN req[r].old ELSE req[r].new : r \in Req}
  /\ UNCHANGED <<exists, finished, photo, files, used>>

PhotosNext ==
  \/ \E b \in Bags : create_bag(b) \/ update_bag_handler(b) \/ archive_bag(b)
  \/ \E r \in Req, b \in Bags : upload_photo(r, b) \/ delete_photo_handler(r, b)
  \/ \E r \in Req, c \in Cafes : create_cafe_log(r, c) \/ update_cafe_log_handler(r, c)
  \/ \E c \in Cafes : create_cafe_log_plain(c) \/ delete_cafe_log(c)
  \/ \E r \in Req, p \in Photo : process_and_save(r, p)
  \/ \E r \in Req : \/ PhotoRejected(r) \/ SaveThumb(r)
                    \/ attach_or_replace_photo(r) \/ replace_photo(r)
                    \/ delete_photo(r) \/ unlink_safe(r)
                    \/ InsertCafeRow(r) \/ update_cafe_log(r)
  \/ sweep_orphans \/ _sweep_unreferenced \/ Crash

PhotosSpec == PhotosInit /\ [][PhotosNext]_photoVars

-----------------------------------------------------------------------------
\* GET /photos/{name}: only a file that is there is served.
serve_photo(p, q) == <<p, q>> \in files

\* No page shows a broken image: whatever the interleaving, the crash or the
\* failed unlink, each photo a bag or a cafe log names has both of its files.
\* (Code: bags.attach_or_replace_photo, delete_photo, routers/cafe_logs.py.)
RowsHaveFiles ==
  \A x \in Rows : \A p \in photo[x], q \in Part : serve_photo(p, q)

\* Two rows never name one photo, so removing a photo from a row can never
\* take the picture of another one away. (Code: photos.process_and_save and
\* the two services that store its result.)
PhotosNotShared ==
  \A x, y \in Rows : x # y => photo[x] \cap photo[y] = {}

\* Every file without a row has a cause on record: a request still working on
\* it, a crash, an unlink that failed, a cafe log edited or deleted, or a row
\* that changed while the body was awaited.  An undisturbed upload or delete
\* leaves nothing behind. (Code: bags.attach_or_replace_photo, photos.replace_photo,
\* photos.unlink_safe.)
InFlight == UNION {req[r].new \cup (IF req[r].pc = "unlink" THEN req[r].old ELSE {})
                   : r \in Req}
OrphansAccounted ==
  \A f \in files : f[1] \in Referenced \cup InFlight \cup lost

\* Files, rows and requests seen from a page: every picture is shown in one
\* place, once, from the commit that attaches it to the one that detaches it;
\* saving, unlinking, sweeping and crashing change nothing that is shown.
\* (Code: photos.process_and_save, bags.attach_or_replace_photo, delete_photo,
\* cafe_logs.create_cafe_log, update_cafe_log, delete_cafe_log.)
Unattached == UNION {req[r].new : r \in {q \in Req : req[q].pc \in {"thumb", "commit"}}}
Book == INSTANCE PhotoBook WITH
          Places <- Rows, Pictures <- Photo, past <- used \ (Referenced \cup Unattached),
          shown <- [x \in Rows |-> {p \in photo[x] : \A q \in Part : serve_photo(p, q)}]
BookKept == Book!Spec
=============================================================================
