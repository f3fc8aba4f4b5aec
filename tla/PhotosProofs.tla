---------------------------- MODULE PhotosProofs ----------------------------
(***************************************************************************)
(* Why no row ever names a missing photo.                                  *)
(*                                                                         *)
(* RowsHaveFiles is not inductive: a step unlinks the files of what a      *)
(* request believes to be the old photo, a value that may be stale.  What  *)
(* saves it is that a uuid is drawn once: the name a request read belongs  *)
(* to one row only, that row is overwritten before the unlink, and no      *)
(* later step can write a name that some request already read.             *)
(***************************************************************************)
EXTENDS Photos, TLAPS

Writing(r) == req[r].pc \in {"thumb", "commit"}

\* Names in rows and requests are uuids already drawn.
AllUsed == /\ \A x \in Rows : photo[x] \subseteq used
           /\ \A r \in Req : req[r].old \subseteq used /\ req[r].new \subseteq used

\* What a request is about to commit is on disk so far as it was written.
NewOnDisk ==
  \A r \in Req : /\ req[r].pc = "thumb" => req[r].new \X {"main"} \subseteq files
                 /\ req[r].pc = "commit" => Pair(req[r].new) \subseteq files

\* What a request is about to commit is nowhere else yet.
NewIsNew ==
  \A r \in Req : Writing(r) =>
     /\ \A x \in Rows : req[r].new \cap photo[x] = {}
     /\ \A s \in Req : req[r].new \cap req[s].old = {}
     /\ \A s \in Req : s # r /\ Writing(s) => req[r].new \cap req[s].new = {}

\* What a request read is in no other row, and after its commit in none.
OldIsOurs ==
  \A r \in Req : \A x \in Rows :
     x \notin req[r].row \/ req[r].pc = "unlink" => req[r].old \cap photo[x] = {}

SweepAlone == sweep.on => AllIdle

OneRow == \A r \in Req : req[r].pc # "idle" => \E x \in Rows : req[r].row = {x}

RemoveHasNone == \A r \in Req : req[r].op = "remove" => req[r].new = {}

PhotosInv == /\ PhotosTypeOK /\ AllUsed /\ RowsHaveFiles /\ PhotosNotShared
             /\ NewOnDisk /\ NewIsNew /\ OldIsOurs /\ SweepAlone /\ OneRow
             /\ RemoveHasNone

LEMMA IdleFields == /\ Idle.op = "none" /\ Idle.pc = "idle"
                    /\ Idle.row = {} /\ Idle.old = {} /\ Idle.new = {}
                    /\ Idle \in [op: Ops, pc: Pcs, row: SUBSET Rows,
                                old: SUBSET Photo, new: SUBSET Photo]
  BY DEF Idle, Ops, Pcs

LEMMA BusyNotIdle ==
  ASSUME NEW r \in Req PROVE req[r] = Idle => req[r].pc = "idle"
  BY DEF Idle

LEMMA SweepMeansIdle ==
  ASSUME PhotosInv, sweep.on PROVE \A r \in Req : req[r].pc = "idle"
  BY BusyNotIdle DEF PhotosInv, SweepAlone, AllIdle

LEMMA PhotosInitInv == PhotosInit => PhotosInv
<1>. SUFFICES ASSUME PhotosInit PROVE PhotosInv OBVIOUS
<1>. USE IdleFields DEF PhotosInit
<1>1. PhotosTypeOK BY DEF PhotosTypeOK, NotSweeping
<1>2. AllUsed /\ RowsHaveFiles /\ PhotosNotShared
  BY DEF AllUsed, RowsHaveFiles, PhotosNotShared
<1>3. NewOnDisk /\ NewIsNew /\ OldIsOurs BY DEF NewOnDisk, NewIsNew, OldIsOurs, Writing
<1>4. SweepAlone /\ OneRow /\ RemoveHasNone
  BY DEF SweepAlone, OneRow, RemoveHasNone, NotSweeping
<1>. QED BY <1>1, <1>2, <1>3, <1>4 DEF PhotosInv

\* Steps on bag rows and the listing of a sweep touch neither names nor files.
LEMMA QuietSteps ==
  ASSUME PhotosInv,
         UNCHANGED <<photo, files, used, req>>,
         finished' \subseteq Bags, exists' \subseteq Rows, lost' \subseteq Photo,
         sweep' \in [on: BOOLEAN, list: SUBSET Pair(Photo)],
         sweep'.on => AllIdle
  PROVE  PhotosInv'
  BY DEF PhotosInv, PhotosTypeOK, AllUsed, RowsHaveFiles, serve_photo, PhotosNotShared,
     NewOnDisk, NewIsNew, OldIsOurs, SweepAlone, OneRow, RemoveHasNone, Writing, AllIdle

\* A request starts by reading its row, or ends without having written.
LEMMA StartSteps ==
  ASSUME PhotosInv, NEW r \in Req, NEW v \in [op: Ops, pc: Pcs, row: SUBSET Rows,
                      old: SUBSET Photo, new: {{}}],
         req' = [req EXCEPT ![r] = v],
         UNCHANGED <<exists, finished, photo, files, used, sweep, lost>>,
         v.pc # "unlink", ~ sweep.on,
         \E x \in Rows : v.row = {x} /\ (v.old = {} \/ v.old = photo[x])
  PROVE  PhotosInv'
<1>1. PhotosTypeOK' BY DEF PhotosInv, PhotosTypeOK
<1>2. AllUsed' BY DEF PhotosInv, PhotosTypeOK, AllUsed
<1>3. RowsHaveFiles' /\ PhotosNotShared'
  BY DEF PhotosInv, RowsHaveFiles, serve_photo, PhotosNotShared
<1>4. NewOnDisk' BY DEF PhotosInv, PhotosTypeOK, NewOnDisk, Pair
<1>5. NewIsNew' BY DEF PhotosInv, PhotosTypeOK, NewIsNew, Writing
<1>6. OldIsOurs' BY DEF PhotosInv, PhotosTypeOK, OldIsOurs, PhotosNotShared
<1>7. SweepAlone' BY DEF PhotosInv, PhotosTypeOK, SweepAlone, AllIdle
<1>0. OneRow' /\ RemoveHasNone' BY DEF PhotosInv, PhotosTypeOK, OneRow, RemoveHasNone
<1>. QED BY <1>0, <1>1, <1>2, <1>3, <1>4, <1>5, <1>6, <1>7 DEF PhotosInv

\* A request that ends without a file of its own.
LEMMA EndSteps ==
  ASSUME PhotosInv, NEW r \in Req, req' = [req EXCEPT ![r] = Idle],
         UNCHANGED <<exists, finished, photo, files, used, sweep>>, lost' \subseteq Photo
  PROVE  PhotosInv'
<1>1. PhotosTypeOK' BY DEF PhotosInv, PhotosTypeOK, Idle, Ops, Pcs
<1>2. AllUsed' /\ NewOnDisk' BY DEF PhotosInv, PhotosTypeOK, AllUsed, NewOnDisk, Idle, Pair
<1>3. RowsHaveFiles' /\ PhotosNotShared'
  BY DEF PhotosInv, RowsHaveFiles, serve_photo, PhotosNotShared
<1>4. NewIsNew' BY DEF PhotosInv, PhotosTypeOK, NewIsNew, Writing, Idle
<1>5. OldIsOurs' /\ SweepAlone' BY DEF PhotosInv, PhotosTypeOK, OldIsOurs, SweepAlone, AllIdle, Idle
<1>0. OneRow' /\ RemoveHasNone' BY DEF PhotosInv, PhotosTypeOK, OneRow, RemoveHasNone, Idle
<1>. QED BY <1>0, <1>1, <1>2, <1>3, <1>4, <1>5 DEF PhotosInv

\* The first file under a fresh uuid.
LEMMA SaveStep ==
  ASSUME PhotosInv, NEW r \in Req, NEW p \in Photo, process_and_save(r, p)
  PROVE  PhotosInv'
<1>. USE DEF PhotosInv, process_and_save, Fresh
<1>1. PhotosTypeOK'
  <2>1. files' \subseteq Pair(Photo) BY DEF PhotosTypeOK, Pair, Part
  <2>2. req' \in [Req -> [op: Ops, pc: Pcs, row: SUBSET Rows,
                          old: SUBSET Photo, new: SUBSET Photo]]
    BY DEF PhotosTypeOK, Pcs
  <2>. QED BY <2>1, <2>2 DEF PhotosTypeOK
<1>2. AllUsed' BY DEF PhotosTypeOK, AllUsed
<1>3. RowsHaveFiles' /\ PhotosNotShared' BY DEF RowsHaveFiles, serve_photo, PhotosNotShared
<1>4. NewOnDisk' BY DEF PhotosTypeOK, NewOnDisk, Pair
<1>5. NewIsNew' BY DEF PhotosTypeOK, NewIsNew, Writing, AllUsed
<1>6. OldIsOurs' BY DEF PhotosTypeOK, OldIsOurs
<1>7. SweepAlone' BY DEF PhotosTypeOK, SweepAlone, AllIdle, Idle
<1>0. OneRow' /\ RemoveHasNone' BY DEF PhotosTypeOK, OneRow, RemoveHasNone
<1>. QED BY <1>0, <1>1, <1>2, <1>3, <1>4, <1>5, <1>6, <1>7

LEMMA ThumbStep ==
  ASSUME PhotosInv, NEW r \in Req, SaveThumb(r)
  PROVE  PhotosInv'
<1>. USE DEF PhotosInv, SaveThumb
<1>1. PhotosTypeOK' BY DEF PhotosTypeOK, Pair, Part, Pcs
<1>2. AllUsed' /\ OldIsOurs' BY DEF PhotosTypeOK, AllUsed, OldIsOurs
<1>3. RowsHaveFiles' /\ PhotosNotShared' BY DEF RowsHaveFiles, serve_photo, PhotosNotShared
<1>4. NewOnDisk' BY DEF PhotosTypeOK, NewOnDisk, Pair, Part
<1>5. NewIsNew' BY DEF PhotosTypeOK, NewIsNew, Writing
<1>6. SweepAlone' BY DEF SweepAlone, AllIdle, Idle
<1>0. OneRow' /\ RemoveHasNone' BY DEF PhotosTypeOK, OneRow, RemoveHasNone
<1>. QED BY <1>0, <1>1, <1>2, <1>3, <1>4, <1>5, <1>6

\* One row takes the new name of a request, or loses its own.
LEMMA RowStep ==
  ASSUME PhotosInv, NEW r \in Req, NEW b \in Rows,
         req[r].pc = "commit", req[r].row = {b},
         exists' \subseteq Rows, lost' \subseteq Photo,
         photo' = [photo EXCEPT ![b] = req[r].new],
         \/ req' = [req EXCEPT ![r].pc = "unlink"]
         \/ req' = [req EXCEPT ![r] = Idle],
         UNCHANGED <<finished, files, used, sweep>>
  PROVE  PhotosInv'
<1>. USE DEF PhotosInv
<1>1. PhotosTypeOK' BY DEF PhotosTypeOK, Pcs, Ops, Idle
<1>2. AllUsed' BY DEF PhotosTypeOK, AllUsed, Idle
<1>3. RowsHaveFiles' BY DEF PhotosTypeOK, RowsHaveFiles, serve_photo, NewOnDisk, Pair
<1>4. PhotosNotShared' BY DEF PhotosTypeOK, PhotosNotShared, NewIsNew, Writing
<1>5. NewOnDisk' BY DEF PhotosTypeOK, NewOnDisk, Pair, Idle
<1>6. NewIsNew' BY DEF PhotosTypeOK, NewIsNew, Writing, Idle
<1>7. OldIsOurs' BY DEF PhotosTypeOK, OldIsOurs, NewIsNew, Writing, Idle
<1>8. SweepAlone' BY DEF PhotosTypeOK, SweepAlone, AllIdle, Idle
<1>0. OneRow' /\ RemoveHasNone' BY DEF PhotosTypeOK, OneRow, RemoveHasNone, Idle
<1>. QED BY <1>0, <1>1, <1>2, <1>3, <1>4, <1>5, <1>6, <1>7, <1>8

\* After the commit no row holds the old name, so its files may go.
LEMMA UnlinkStep ==
  ASSUME PhotosInv, NEW r \in Req, req[r].pc = "unlink",
         NEW stay \in SUBSET (Pair(req[r].old) \cap files),
         files' = (files \ Pair(req[r].old)) \cup stay, lost' \subseteq Photo,
         req' = [req EXCEPT ![r] = Idle],
         UNCHANGED <<exists, finished, photo, used, sweep>>
  PROVE  PhotosInv'
<1>. USE DEF PhotosInv
<1>1. PhotosTypeOK' BY DEF PhotosTypeOK, Pcs, Ops, Idle
<1>2. AllUsed' BY DEF PhotosTypeOK, AllUsed, Idle
<1>3. RowsHaveFiles' /\ PhotosNotShared'
  BY DEF PhotosTypeOK, RowsHaveFiles, serve_photo, OldIsOurs, PhotosNotShared, Pair
<1>4. NewOnDisk' BY DEF PhotosTypeOK, NewOnDisk, NewIsNew, Writing, Pair, Part, Idle
<1>5. NewIsNew' BY DEF PhotosTypeOK, NewIsNew, Writing, Idle
<1>6. OldIsOurs' BY DEF PhotosTypeOK, OldIsOurs, Idle
<1>7. SweepAlone' BY DEF PhotosTypeOK, SweepAlone, AllIdle, Idle
<1>0. OneRow' /\ RemoveHasNone' BY DEF PhotosTypeOK, OneRow, RemoveHasNone, Idle
<1>. QED BY <1>0, <1>1, <1>2, <1>3, <1>4, <1>5, <1>6, <1>7

LEMMA PhotosStep ==
  ASSUME SweepOnline = FALSE, PhotosInv, [PhotosNext]_photoVars
  PROVE  PhotosInv'
<1>. USE DEF PhotosInv
<1>1. ASSUME NEW b \in Bags, create_bag(b) \/ update_bag_handler(b) \/ archive_bag(b)
      PROVE  PhotosInv'
  BY <1>1, QuietSteps DEF create_bag, create_bag_handler, update_bag_handler, update_bag,
     archive_bag, PhotosTypeOK, SweepAlone, Rows
<1>2. ASSUME NEW r \in Req, NEW b \in Bags, upload_photo(r, b) PROVE PhotosInv'
  <2>. DEFINE v == [op |-> "upload", pc |-> "wait", row |-> {b}, old |-> photo[b], new |-> {}]
  <2>1. v \in [op: Ops, pc: Pcs, row: SUBSET Rows, old: SUBSET Photo, new: {{}}]
    BY DEF Ops, Pcs, Rows, PhotosTypeOK
  <2>. QED BY <1>2, <2>1, StartSteps DEF upload_photo, MayStart
<1>3. ASSUME NEW r \in Req, NEW b \in Bags, delete_photo_handler(r, b) PROVE PhotosInv'
  <2>. DEFINE v == [op |-> "remove", pc |-> "commit", row |-> {b}, old |-> photo[b], new |-> {}]
  <2>1. v \in [op: Ops, pc: Pcs, row: SUBSET Rows, old: SUBSET Photo, new: {{}}]
    BY DEF Ops, Pcs, Rows, PhotosTypeOK
  <2>. QED BY <1>3, <2>1, StartSteps DEF delete_photo_handler, MayStart
<1>4. ASSUME NEW r \in Req, NEW c \in Cafes,
             create_cafe_log(r, c) \/ update_cafe_log_handler(r, c)
      PROVE  PhotosInv'
  <2>1. PICK o \in {"cafeadd", "cafeedit"} :
          /\ MayStart(r)
          /\ req' = [req EXCEPT ![r] = [op |-> o, pc |-> "wait", row |-> {c}, old |-> {}, new |-> {}]]
          /\ UNCHANGED <<exists, finished, photo, files, used, sweep, lost>>
    BY <1>4 DEF create_cafe_log, update_cafe_log_handler
  <2>. DEFINE v == [op |-> o, pc |-> "wait", row |-> {c}, old |-> {}, new |-> {}]
  <2>2. v \in [op: Ops, pc: Pcs, row: SUBSET Rows, old: SUBSET Photo, new: {{}}]
    BY DEF Ops, Pcs, Rows
  <2>. QED BY <2>1, <2>2, StartSteps DEF MayStart
<1>5. ASSUME NEW c \in Cafes, create_cafe_log_plain(c) PROVE PhotosInv'
  BY <1>5, QuietSteps DEF create_cafe_log_plain, PhotosTypeOK, SweepAlone, Rows
<1>6. ASSUME NEW c \in Cafes, delete_cafe_log(c) PROVE PhotosInv'
  <2>. USE <1>6 DEF delete_cafe_log
  <2>1. PhotosTypeOK' BY DEF PhotosTypeOK, Rows
  <2>2. AllUsed' /\ RowsHaveFiles' /\ PhotosNotShared'
    BY DEF PhotosTypeOK, AllUsed, RowsHaveFiles, serve_photo, PhotosNotShared, Rows
  <2>3. NewOnDisk' /\ SweepAlone' /\ OneRow' /\ RemoveHasNone' BY DEF NewOnDisk, SweepAlone, AllIdle, OneRow, RemoveHasNone
  <2>4. NewIsNew' /\ OldIsOurs' BY DEF PhotosTypeOK, NewIsNew, OldIsOurs, Writing, Rows
  <2>. QED BY <2>1, <2>2, <2>3, <2>4
<1>7. ASSUME NEW r \in Req, NEW p \in Photo, process_and_save(r, p) PROVE PhotosInv'
  BY <1>7, SaveStep
<1>8. ASSUME NEW r \in Req, PhotoRejected(r) PROVE PhotosInv'
  BY <1>8, EndSteps DEF PhotoRejected, PhotosTypeOK
<1>9. ASSUME NEW r \in Req, SaveThumb(r) PROVE PhotosInv'
  BY <1>9, ThumbStep
<1>10. ASSUME NEW r \in Req, attach_or_replace_photo(r) \/ delete_photo(r)
       PROVE  PhotosInv'
  <2>1. PICK b \in Rows : req[r].row = {b}
    BY <1>10 DEF attach_or_replace_photo, delete_photo, OneRow
  <2>2. lost' \subseteq Photo /\ exists' \subseteq Rows
    BY <1>10, <2>1 DEF attach_or_replace_photo, delete_photo, PhotosTypeOK
  <2>3. CASE attach_or_replace_photo(r)
    BY <2>1, <2>2, <2>3, RowStep DEF attach_or_replace_photo
  <2>4. CASE delete_photo(r)
    <3>1. req[r].new = {} BY <2>4 DEF delete_photo, RemoveHasNone
    <3>. QED BY <2>1, <2>2, <2>4, <3>1, RowStep DEF delete_photo
  <2>. QED BY <1>10, <2>3, <2>4
<1>12. ASSUME NEW r \in Req, replace_photo(r) \/ unlink_safe(r) PROVE PhotosInv'
  <2>1. PICK stay \in SUBSET (Pair(req[r].old) \cap files) :
          /\ files' = (files \ Pair(req[r].old)) \cup stay
          /\ lost' = lost \cup {f[1] : f \in stay}
    BY <1>12 DEF replace_photo, unlink_safe
  <2>2. /\ req[r].pc = "unlink" /\ req' = [req EXCEPT ![r] = Idle]
        /\ UNCHANGED <<exists, finished, photo, used, sweep>>
    BY <1>12 DEF replace_photo, unlink_safe
  <2>3. lost' \subseteq Photo BY <2>1 DEF PhotosTypeOK, Pair
  <2>. QED BY <2>1, <2>2, <2>3, UnlinkStep
<1>13. ASSUME NEW r \in Req, InsertCafeRow(r) \/ update_cafe_log(r) PROVE PhotosInv'
  <2>1. PICK c \in Rows : req[r].row = {c}
    BY <1>13 DEF InsertCafeRow, update_cafe_log, OneRow
  <2>2. lost' \subseteq Photo /\ exists' \subseteq Rows
    BY <1>13, <2>1 DEF InsertCafeRow, update_cafe_log, PhotosTypeOK
  <2>5. /\ req[r].pc = "commit" /\ req' = [req EXCEPT ![r] = Idle]
        /\ UNCHANGED <<finished, files, used, sweep>>
    BY <1>13 DEF InsertCafeRow, update_cafe_log
  <2>3. CASE photo' = [photo EXCEPT ![c] = req[r].new]
    BY <2>1, <2>2, <2>3, <2>5, RowStep
  <2>4. CASE UNCHANGED <<photo, exists>>
    BY <1>13, <2>2, <2>4, EndSteps DEF InsertCafeRow, update_cafe_log
  <2>. QED BY <1>13, <2>1, <2>3, <2>4 DEF InsertCafeRow, update_cafe_log
<1>14. ASSUME sweep_orphans PROVE PhotosInv'
  BY <1>14, QuietSteps DEF sweep_orphans, PhotosTypeOK
<1>15. ASSUME _sweep_unreferenced PROVE PhotosInv'
  <2>. USE <1>15 DEF _sweep_unreferenced
  <2>1. PhotosTypeOK'
    <3>1. files' \subseteq Pair(Photo) /\ lost' \subseteq Photo BY DEF PhotosTypeOK
    <3>2. sweep' \in [on: BOOLEAN, list: SUBSET Pair(Photo)] BY DEF NotSweeping
    <3>. QED BY <3>1, <3>2 DEF PhotosTypeOK
  <2>2. RowsHaveFiles'
    <3>. SUFFICES ASSUME NEW x \in Rows, NEW p \in photo[x], NEW q \in Part
                  PROVE  <<p, q>> \in files'
      BY DEF RowsHaveFiles, serve_photo
    <3>1. <<p, q>> \in files BY DEF RowsHaveFiles, serve_photo
    <3>2. <<p, q>> \in Pair(Referenced) BY DEF Referenced, Pair
    <3>. QED BY <3>1, <3>2
  <2>3. NewOnDisk'
    <3>1. \A r \in Req : req[r].pc = "idle" BY SweepMeansIdle
    <3>. QED BY <3>1 DEF NewOnDisk
  <2>4. AllUsed' /\ PhotosNotShared' /\ NewIsNew' /\ OldIsOurs' /\ SweepAlone' /\ OneRow' /\ RemoveHasNone'
    BY DEF AllUsed, PhotosNotShared, NewIsNew, OldIsOurs, SweepAlone, OneRow, RemoveHasNone, NotSweeping, Writing
  <2>. QED BY <2>1, <2>2, <2>3, <2>4
<1>16. ASSUME Crash PROVE PhotosInv'
  <2>. USE <1>16 DEF Crash
  <2>1. PhotosTypeOK'
    <3>1. lost' \subseteq Photo BY DEF PhotosTypeOK
    <3>2. sweep' \in [on: BOOLEAN, list: SUBSET Pair(Photo)] BY DEF NotSweeping
    <3>. QED BY <3>1, <3>2, IdleFields DEF PhotosTypeOK
  <2>2. AllUsed' /\ RowsHaveFiles' /\ PhotosNotShared'
    BY DEF AllUsed, RowsHaveFiles, serve_photo, PhotosNotShared, Idle
  <2>3. NewOnDisk' /\ SweepAlone' /\ OneRow' /\ RemoveHasNone' BY DEF NewOnDisk, SweepAlone, OneRow, RemoveHasNone, NotSweeping, Idle
  <2>4. NewIsNew' /\ OldIsOurs' BY DEF NewIsNew, OldIsOurs, Writing, Idle
  <2>. QED BY <2>1, <2>2, <2>3, <2>4
<1>17. CASE UNCHANGED photoVars
  BY <1>17, QuietSteps DEF photoVars, PhotosTypeOK, SweepAlone
<1>. QED
  BY <1>1, <1>2, <1>3, <1>4, <1>5, <1>6, <1>7, <1>8, <1>9, <1>10, <1>12, <1>13,
     <1>14, <1>15, <1>16, <1>17 DEF PhotosNext

LEMMA PhotosAlways == ASSUME SweepOnline = FALSE PROVE PhotosSpec => []PhotosInv
<1>1. PhotosInv /\ [PhotosNext]_photoVars => PhotosInv' BY PhotosStep
<1>. QED BY <1>1, PhotosInitInv, PTL DEF PhotosSpec

\* Every reachable state of the photos is well typed.
THEOREM PhotosTypes == ASSUME SweepOnline = FALSE PROVE PhotosSpec => []PhotosTypeOK
<1>1. PhotosInv => PhotosTypeOK BY DEF PhotosInv
<1>. QED BY <1>1, PhotosAlways, PTL

\* No page shows a broken image: for every number of rows, requests and
\* photos, with the sweep run on an idle server.
THEOREM PhotosSafe == ASSUME SweepOnline = FALSE PROVE PhotosSpec => []RowsHaveFiles
<1>1. PhotosInv => RowsHaveFiles BY DEF PhotosInv
<1>. QED BY <1>1, PhotosAlways, PTL

\* No two rows share a photo, so deleting one row's files breaks no other.
THEOREM PhotosApart == ASSUME SweepOnline = FALSE PROVE PhotosSpec => []PhotosNotShared
<1>1. PhotosInv => PhotosNotShared BY DEF PhotosInv
<1>. QED BY <1>1, PhotosAlways, PTL

-----------------------------------------------------------------------------
(* Why every file without a row has a cause.  OrphansAccounted says where a
   file may come from, not that each step hands it on: a request that unlinks
   must be charged with the old pair only (its new one is in the row by then),
   a row that is not there must name nothing, and the row of an upload must
   still be there when its commit writes it. *)

Carried(r) == IF req[r].pc = "unlink" THEN req[r].old ELSE req[r].new
Explained(p) == \/ p \in lost
                \/ \E x \in Rows : p \in photo[x]
                \/ \E r \in Req : p \in Carried(r)
EveryFile == \A f \in files : Explained(f[1])

MissingNamesNone == \A x \in Rows : x \notin exists => photo[x] = {}
UploadKeepsRow ==
  \A r \in Req : req[r].op = "upload" => req[r].row \subseteq Bags \cap exists
UnsavedHasNone == \A r \in Req : req[r].pc \in {"idle", "wait"} => req[r].new = {}

Charges == EveryFile /\ MissingNamesNone /\ UploadKeepsRow /\ UnsavedHasNone

LEMMA ChargesInit == PhotosInit => Charges
  BY IdleFields DEF PhotosInit, Charges, EveryFile, MissingNamesNone, UploadKeepsRow, UnsavedHasNone

\* One request takes a new value that still holds what it held.
LEMMA RequestCharged ==
  ASSUME PhotosTypeOK, Charges, NEW r \in Req, NEW v, req' = [req EXCEPT ![r] = v],
         UNCHANGED <<photo, files, exists>>, lost \subseteq lost',
         v.op = "upload" => v.row \subseteq Bags \cap exists,
         v.pc \in {"idle", "wait"} => v.new = {},
         v.pc # "unlink", req[r].pc # "unlink",
         req[r].new \subseteq v.new \cup lost'
  PROVE  Charges'
<1>1. req \in [Req -> [op: Ops, pc: Pcs, row: SUBSET Rows, old: SUBSET Photo, new: SUBSET Photo]]
  BY DEF PhotosTypeOK
<1>2. UploadKeepsRow' /\ UnsavedHasNone' /\ MissingNamesNone'
  BY <1>1 DEF Charges, UploadKeepsRow, UnsavedHasNone, MissingNamesNone
<1>3. \A q \in Req : Carried(q) \subseteq Carried(q)' \cup lost' BY <1>1 DEF Carried
<1>4. EveryFile' BY <1>3 DEF Charges, EveryFile, Explained
<1>. QED BY <1>2, <1>4 DEF Charges

LEMMA ChargesStep ==
  ASSUME SweepOnline = FALSE, PhotosInv, Charges, [PhotosNext]_photoVars
  PROVE  Charges'
<1>. DEFINE ReqType == [op: Ops, pc: Pcs, row: SUBSET Rows, old: SUBSET Photo, new: SUBSET Photo]
<1>0. /\ PhotosTypeOK /\ req \in [Req -> ReqType] /\ photo \in [Rows -> SUBSET Photo]
  BY DEF PhotosInv, PhotosTypeOK
<1>. HIDE DEF ReqType
<1>1. ASSUME NEW b \in Bags, create_bag(b) \/ update_bag_handler(b) \/ archive_bag(b)
      PROVE  Charges'
  <2>1. /\ UNCHANGED <<photo, files, req, lost>> /\ exists \subseteq exists'
        /\ exists' \subseteq exists \cup {b}
    BY <1>1 DEF create_bag, create_bag_handler, update_bag_handler, update_bag, archive_bag
  <2>. QED BY <2>1 DEF Charges, EveryFile, Explained, Carried, MissingNamesNone, UploadKeepsRow,
              UnsavedHasNone
<1>2. ASSUME NEW r \in Req, NEW b \in Bags, upload_photo(r, b) \/ delete_photo_handler(r, b)
      PROVE  Charges'
  <2>1. req[r] = Idle BY <1>2 DEF upload_photo, delete_photo_handler, MayStart
  <2>2. CASE upload_photo(r, b)
    <3>. DEFINE v == [op |-> "upload", pc |-> "wait", row |-> {b}, old |-> photo[b], new |-> {}]
    <3>1. /\ req' = [req EXCEPT ![r] = v]
          /\ UNCHANGED <<photo, files, exists, lost>>
          /\ v.op = "upload" => v.row \subseteq Bags \cap exists
      BY <2>2 DEF upload_photo
    <3>2. v.pc # "unlink" /\ (v.pc \in {"idle", "wait"} => v.new = {}) OBVIOUS
    <3>. HIDE DEF v
    <3>. QED BY <1>0, <2>1, <3>1, <3>2, IdleFields, RequestCharged
  <2>3. CASE delete_photo_handler(r, b)
    <3>. DEFINE v == [op |-> "remove", pc |-> "commit", row |-> {b}, old |-> photo[b], new |-> {}]
    <3>1. /\ req' = [req EXCEPT ![r] = v]
          /\ UNCHANGED <<photo, files, exists, lost>>
          /\ v.op = "upload" => v.row \subseteq Bags \cap exists
      BY <2>3 DEF delete_photo_handler
    <3>2. v.pc # "unlink" /\ (v.pc \in {"idle", "wait"} => v.new = {}) OBVIOUS
    <3>. HIDE DEF v
    <3>. QED BY <1>0, <2>1, <3>1, <3>2, IdleFields, RequestCharged
  <2>. QED BY <1>2, <2>2, <2>3
<1>3. ASSUME NEW r \in Req, NEW c \in Cafes,
             create_cafe_log(r, c) \/ update_cafe_log_handler(r, c)
      PROVE  Charges'
  <2>1. req[r] = Idle BY <1>3 DEF create_cafe_log, update_cafe_log_handler, MayStart
  <2>2. CASE create_cafe_log(r, c)
    <3>. DEFINE v == [op |-> "cafeadd", pc |-> "wait", row |-> {c}, old |-> {}, new |-> {}]
    <3>1. /\ req' = [req EXCEPT ![r] = v]
          /\ UNCHANGED <<photo, files, exists, lost>>
          /\ v.op = "upload" => v.row \subseteq Bags \cap exists
      BY <2>2 DEF create_cafe_log
    <3>2. v.pc # "unlink" /\ (v.pc \in {"idle", "wait"} => v.new = {}) OBVIOUS
    <3>. HIDE DEF v
    <3>. QED BY <1>0, <2>1, <3>1, <3>2, IdleFields, RequestCharged
  <2>3. CASE update_cafe_log_handler(r, c)
    <3>. DEFINE v == [op |-> "cafeedit", pc |-> "wait", row |-> {c}, old |-> {}, new |-> {}]
    <3>1. /\ req' = [req EXCEPT ![r] = v]
          /\ UNCHANGED <<photo, files, exists, lost>>
          /\ v.op = "upload" => v.row \subseteq Bags \cap exists
      BY <2>3 DEF update_cafe_log_handler
    <3>2. v.pc # "unlink" /\ (v.pc \in {"idle", "wait"} => v.new = {}) OBVIOUS
    <3>. HIDE DEF v
    <3>. QED BY <1>0, <2>1, <3>1, <3>2, IdleFields, RequestCharged
  <2>. QED BY <1>3, <2>2, <2>3
<1>4. ASSUME NEW c \in Cafes, create_cafe_log_plain(c) PROVE Charges'
  BY <1>4 DEF create_cafe_log_plain, Charges, EveryFile, Explained, Carried, MissingNamesNone,
              UploadKeepsRow, UnsavedHasNone
<1>5. ASSUME NEW c \in Cafes, delete_cafe_log(c) PROVE Charges'
  <2>. USE <1>5 DEF delete_cafe_log
  <2>1. c \in Rows /\ c \notin Bags BY RowIdsDisjoint DEF Rows
  <2>2. UploadKeepsRow' /\ UnsavedHasNone'
    BY <2>1 DEF Charges, UploadKeepsRow, UnsavedHasNone
  <2>3. MissingNamesNone' BY <1>0, <2>1 DEF Charges, MissingNamesNone
  <2>4. EveryFile' BY <1>0, <2>1 DEF Charges, EveryFile, Explained, Carried
  <2>. QED BY <2>2, <2>3, <2>4 DEF Charges
<1>6. ASSUME NEW r \in Req, NEW p \in Photo, process_and_save(r, p) PROVE Charges'
  <2>. USE <1>6 DEF process_and_save
  <2>1. UploadKeepsRow' /\ UnsavedHasNone' /\ MissingNamesNone'
    BY <1>0 DEF Charges, UploadKeepsRow, UnsavedHasNone, MissingNamesNone, ReqType
  <2>2. Carried(r)' = {p} BY <1>0 DEF Carried, ReqType
  <2>3. Carried(r) = {} BY DEF Charges, UnsavedHasNone, Carried
  <2>4. \A q \in Req : q # r => Carried(q)' = Carried(q) BY <1>0 DEF Carried
  <2>5. EveryFile' BY <2>2, <2>3, <2>4 DEF Charges, EveryFile, Explained
  <2>. QED BY <2>1, <2>5 DEF Charges
<1>7. ASSUME NEW r \in Req, PhotoRejected(r) PROVE Charges'
  BY <1>0, <1>7, IdleFields, RequestCharged DEF PhotoRejected, Charges, UnsavedHasNone
<1>8. ASSUME NEW r \in Req, SaveThumb(r) PROVE Charges'
  <2>. USE <1>8 DEF SaveThumb
  <2>1. UploadKeepsRow' /\ UnsavedHasNone' /\ MissingNamesNone'
    BY <1>0 DEF Charges, UploadKeepsRow, UnsavedHasNone, MissingNamesNone, ReqType
  <2>2. Carried(r) = req[r].new /\ \A q \in Req : Carried(q)' = Carried(q)
    BY <1>0 DEF Carried, ReqType
  <2>3. EveryFile' BY <2>2 DEF Charges, EveryFile, Explained
  <2>. QED BY <2>1, <2>3 DEF Charges
<1>9. ASSUME NEW r \in Req, attach_or_replace_photo(r) \/ delete_photo(r) PROVE Charges'
  <2>1. PICK b \in Rows : req[r].row = {b}
    BY <1>9 DEF attach_or_replace_photo, delete_photo, OneRow, PhotosInv
  <2>2. /\ req[r].pc = "commit"
        /\ photo' = [photo EXCEPT ![b] = req[r].new]
        /\ lost' = lost \cup (photo[b] \ req[r].old)
        /\ req' = [req EXCEPT ![r].pc = "unlink"]
        /\ UNCHANGED <<exists, files>>
    BY <1>9, <2>1 DEF attach_or_replace_photo, delete_photo, PhotosInv, RemoveHasNone
  <2>3. UploadKeepsRow' /\ UnsavedHasNone'
    BY <1>0, <2>2 DEF Charges, UploadKeepsRow, UnsavedHasNone, ReqType
  <2>4. MissingNamesNone'
    <3>1. req[r].op = "upload" => b \in exists BY <2>1 DEF Charges, UploadKeepsRow
    <3>2. req[r].op # "upload" => req[r].new = {}
      BY <1>9 DEF attach_or_replace_photo, PhotosInv, RemoveHasNone, delete_photo
    <3>. QED BY <1>0, <2>2, <3>1, <3>2 DEF Charges, MissingNamesNone
  <2>5. /\ Carried(r) = req[r].new /\ Carried(r)' = req[r].old
        /\ \A q \in Req : q # r => Carried(q)' = Carried(q)
    BY <1>0, <2>2 DEF Carried, ReqType
  <2>6. EveryFile'
    <3>1. \A x \in Rows : x # b => photo'[x] = photo[x] BY <1>0, <2>2
    <3>2. photo'[b] = req[r].new BY <1>0, <2>2
    <3>. QED BY <2>2, <2>5, <3>1, <3>2 DEF Charges, EveryFile, Explained
  <2>. QED BY <2>3, <2>4, <2>6 DEF Charges
<1>10. ASSUME NEW r \in Req, replace_photo(r) \/ unlink_safe(r) PROVE Charges'
  <2>1. PICK stay \in SUBSET (Pair(req[r].old) \cap files) :
          /\ files' = (files \ Pair(req[r].old)) \cup stay
          /\ lost' = lost \cup {f[1] : f \in stay}
    BY <1>10 DEF replace_photo, unlink_safe
  <2>2. /\ req[r].pc = "unlink" /\ req' = [req EXCEPT ![r] = Idle]
        /\ UNCHANGED <<exists, photo>>
    BY <1>10 DEF replace_photo, unlink_safe
  <2>3. UploadKeepsRow' /\ UnsavedHasNone' /\ MissingNamesNone'
    BY <1>0, <2>2, IdleFields DEF Charges, UploadKeepsRow, UnsavedHasNone, MissingNamesNone
  <2>4. Carried(r) = req[r].old /\ \A q \in Req : q # r => Carried(q)' = Carried(q)
    BY <1>0, <2>2 DEF Carried
  <2>5. ASSUME NEW f \in files' PROVE Explained(f[1])'
    <3>1. CASE f \in stay BY <2>1, <3>1 DEF Explained
    <3>2. CASE f \notin stay
      <4>1. f \in files /\ f \in Pair(Photo) BY <2>1, <3>2, <1>0 DEF PhotosTypeOK
      <4>2. f[1] \notin Carried(r) BY <2>1, <2>4, <3>2, <4>1 DEF Pair
      <4>. QED BY <2>1, <2>2, <2>4, <4>1, <4>2 DEF Charges, EveryFile, Explained
    <3>. QED BY <3>1, <3>2
  <2>. QED BY <2>3, <2>5 DEF Charges, EveryFile
<1>11. ASSUME NEW r \in Req, InsertCafeRow(r) \/ update_cafe_log(r) PROVE Charges'
  <2>1. PICK c \in Rows : req[r].row = {c}
    BY <1>11 DEF InsertCafeRow, update_cafe_log, OneRow, PhotosInv
  <2>2. /\ req[r].pc = "commit" /\ req' = [req EXCEPT ![r] = Idle] /\ UNCHANGED files
        /\ exists \subseteq exists' /\ lost \subseteq lost'
    BY <1>11 DEF InsertCafeRow, update_cafe_log
  <2>3. \/ /\ photo' = [photo EXCEPT ![c] = req[r].new] /\ c \in exists'
           /\ \A x \in exists' : x = c \/ x \in exists
           /\ photo[c] \subseteq lost'
        \/ UNCHANGED <<photo, exists>> /\ req[r].new \subseteq lost'
    <3>1. CASE InsertCafeRow(r)
      <4>1. c \notin exists => photo[c] = {} BY DEF Charges, MissingNamesNone
      <4>. QED BY <2>1, <3>1, <4>1 DEF InsertCafeRow
    <3>2. CASE update_cafe_log(r) BY <2>1, <3>2 DEF update_cafe_log
    <3>. QED BY <1>11, <3>1, <3>2
  <2>4. UploadKeepsRow' /\ UnsavedHasNone'
    BY <1>0, <2>2, IdleFields DEF Charges, UploadKeepsRow, UnsavedHasNone
  <2>5. Carried(r) = req[r].new /\ \A q \in Req : q # r => Carried(q)' = Carried(q)
    BY <1>0, <2>2 DEF Carried
  <2>6. CASE UNCHANGED <<photo, exists>> /\ req[r].new \subseteq lost'
    BY <2>2, <2>4, <2>5, <2>6 DEF Charges, EveryFile, Explained, MissingNamesNone
  <2>7. CASE /\ photo' = [photo EXCEPT ![c] = req[r].new] /\ c \in exists'
             /\ \A x \in exists' : x = c \/ x \in exists
             /\ photo[c] \subseteq lost'
    <3>1. photo'[c] = req[r].new /\ \A x \in Rows : x # c => photo'[x] = photo[x]
      BY <1>0, <2>7
    <3>2. MissingNamesNone' BY <2>2, <2>7, <3>1 DEF Charges, MissingNamesNone
    <3>3. EveryFile' BY <2>2, <2>5, <2>7, <3>1 DEF Charges, EveryFile, Explained
    <3>. QED BY <2>4, <3>2, <3>3 DEF Charges
  <2>. QED BY <2>3, <2>6, <2>7
<1>12. ASSUME sweep_orphans PROVE Charges'
  BY <1>12 DEF sweep_orphans, Charges, EveryFile, Explained, Carried, MissingNamesNone,
               UploadKeepsRow, UnsavedHasNone
<1>13. ASSUME _sweep_unreferenced PROVE Charges'
  <2>. USE <1>13 DEF _sweep_unreferenced
  <2>1. UploadKeepsRow' /\ UnsavedHasNone' /\ MissingNamesNone'
    BY DEF Charges, UploadKeepsRow, UnsavedHasNone, MissingNamesNone
  <2>2. \A r \in Req : Carried(r) = {}
    BY SweepMeansIdle DEF Charges, UnsavedHasNone, Carried
  <2>3. ASSUME NEW f \in files' PROVE Explained(f[1])'
    <3>1. f \in files BY <2>3
    <3>2. f = <<f[1], f[2]>> /\ f[2] \in Part BY <1>0, <3>1 DEF PhotosTypeOK, Pair
    <3>3. f[1] \in lost => f[1] \in lost' BY <2>3, <3>2
    <3>. QED BY <2>2, <3>1, <3>3 DEF Charges, EveryFile, Explained
  <2>. QED BY <2>1, <2>3 DEF Charges, EveryFile
<1>14. ASSUME Crash PROVE Charges'
  <2>. USE <1>14 DEF Crash
  <2>1. UploadKeepsRow' /\ UnsavedHasNone' /\ MissingNamesNone'
    BY IdleFields DEF Charges, UploadKeepsRow, UnsavedHasNone, MissingNamesNone
  <2>2. \A r \in Req : Carried(r) \subseteq lost' BY DEF Carried
  <2>3. lost \subseteq lost' OBVIOUS
  <2>4. EveryFile' BY <2>2, <2>3 DEF Charges, EveryFile, Explained
  <2>. QED BY <2>1, <2>4 DEF Charges
<1>15. CASE UNCHANGED photoVars
  BY <1>15 DEF photoVars, Charges, EveryFile, Explained, Carried, MissingNamesNone,
               UploadKeepsRow, UnsavedHasNone
<1>. QED
  BY <1>1, <1>2, <1>3, <1>4, <1>5, <1>6, <1>7, <1>8, <1>9, <1>10, <1>11, <1>12,
     <1>13, <1>14, <1>15 DEF PhotosNext

\* Every file without a row has a cause on record, whatever the interleaving
\* of uploads, deletes, edits and crashes, with the sweep run on an idle server:
\* a request that nothing disturbed leaves nothing behind.
THEOREM PhotosAccounted ==
  ASSUME SweepOnline = FALSE PROVE PhotosSpec => []OrphansAccounted
<1>1. PhotosInit => Charges BY ChargesInit
<1>2. PhotosInv /\ Charges /\ [PhotosNext]_photoVars => Charges' BY ChargesStep
<1>3. Charges => OrphansAccounted
  BY DEF Charges, EveryFile, Explained, Carried, OrphansAccounted, Referenced, InFlight
<1>. QED BY <1>1, <1>2, <1>3, PhotosAlways, PTL DEF PhotosSpec

-----------------------------------------------------------------------------
(* The photos implement the book.  What a page shows is what its row names,
   because the row's files are there; so only commits are steps of the book. *)

ShownNow == [x \in Rows |-> {p \in photo[x] : \A q \in Part : serve_photo(p, q)}]
PastNow == used \ (Referenced \cup Unattached)

\* What a request has saved and not attached yet.
Pending(r) == IF Writing(r) THEN req[r].new ELSE {}

\* It saves one picture; a removal saves none.
OneNew == \A r \in Req : Writing(r) /\ req[r].op # "remove" => \E p \in Photo : req[r].new = {p}

LEMMA ShownIsPhoto == PhotosInv => ShownNow = photo
<1>. SUFFICES ASSUME PhotosInv PROVE ShownNow = photo OBVIOUS
<1>1. photo \in [Rows -> SUBSET Photo] BY DEF PhotosInv, PhotosTypeOK
<1>2. \A x \in Rows : {p \in photo[x] : \A q \in Part : serve_photo(p, q)} = photo[x]
  BY DEF PhotosInv, RowsHaveFiles
<1>. QED BY <1>1, <1>2 DEF ShownNow

\* A saved picture that waits for its row is on no page.
LEMMA PendingApart ==
  ASSUME PhotosInv
  PROVE  /\ Unattached \subseteq used
         /\ \A x \in Rows : Unattached \cap photo[x] = {}
         /\ \A r, q \in Req : q # r => Pending(q) \cap Pending(r) = {}
<1>1. \A r \in Req : Writing(r) => req[r].new \subseteq used
  BY DEF PhotosInv, AllUsed
<1>2. \A r \in Req : Writing(r) => \A x \in Rows : req[r].new \cap photo[x] = {}
  BY DEF PhotosInv, NewIsNew
<1>3. \A r, q \in Req : q # r /\ Writing(q) /\ Writing(r) => req[q].new \cap req[r].new = {}
  BY DEF PhotosInv, NewIsNew
<1>4. \A p : p \in Unattached => \E r \in Req : Writing(r) /\ p \in req[r].new
  BY DEF Unattached, Writing
<1>. QED BY <1>1, <1>2, <1>3, <1>4 DEF Pending

\* The fields of a request that changes alone.
LEMMA OneMoves ==
  ASSUME PhotosTypeOK, NEW r \in Req, NEW v, req' = [req EXCEPT ![r] = v]
  PROVE  /\ req'[r] = v
         /\ \A q \in Req : q # r => req'[q] = req[q] /\ Pending(q)' = Pending(q)
  BY DEF PhotosTypeOK, Pending, Writing

\* One step of the book, in the terms of the model.
Attaches(x, p) == /\ p \notin PastNow /\ \A y \in Rows : p \notin photo[y]
                  /\ photo' = [photo EXCEPT ![x] = {p}] /\ PastNow' = PastNow \cup photo[x]
Detaches(x) == photo' = [photo EXCEPT ![x] = {}] /\ PastNow' = PastNow \cup photo[x]
Wastes(P) == /\ \A y \in Rows : P \cap photo[y] = {}
             /\ PastNow' = PastNow \cup P /\ UNCHANGED photo
PageTurns == \/ \E x \in Rows : Detaches(x) \/ \E p \in Photo : Attaches(x, p)
             \/ \E P \in SUBSET Photo : Wastes(P)

\* Nothing is saved or attached: at most, what was saved is given up.
LEMMA OnlyWasted ==
  ASSUME PhotosInv, UNCHANGED <<photo, used>>,
         \A q \in Req : Pending(q)' = Pending(q) \/ Pending(q)' = {}
  PROVE  PageTurns
<1>1. \A p : p \in Unattached <=> \E r \in Req : p \in Pending(r)
  BY DEF Unattached, Pending, Writing
<1>2. \A p : p \in Unattached' <=> \E r \in Req : p \in Pending(r)'
  BY DEF Unattached, Pending, Writing
<1>3. Unattached' \subseteq Unattached BY <1>1, <1>2
<1>. DEFINE P == Unattached \ Unattached'
<1>4. P \in SUBSET Photo BY PendingApart DEF PhotosInv, PhotosTypeOK
<1>5. \A y \in Rows : P \cap photo[y] = {} BY PendingApart
<1>6. Unattached \cap Referenced = {} BY PendingApart DEF Referenced
<1>7. PastNow' = PastNow \cup P
  <2>1. Referenced' = Referenced BY DEF Referenced
  <2>. QED BY <2>1, <1>3, <1>6, PendingApart DEF PastNow
<1>. HIDE DEF P
<1>. QED BY <1>4, <1>5, <1>7 DEF PageTurns, Wastes

\* A row takes what was saved for it, or nothing; what it named is past.
LEMMA RowTurns ==
  ASSUME PhotosInv, NEW b \in Rows, NEW P, UNCHANGED used,
         P \subseteq Unattached, Unattached' = Unattached \ P,
         photo' = [photo EXCEPT ![b] = P],
         P = {} \/ \E p \in Photo : P = {p}
  PROVE  PageTurns
<1>1. /\ photo'[b] = P /\ photo[b] \subseteq used
      /\ \A x \in Rows : x # b => photo'[x] = photo[x] /\ photo[x] \cap photo[b] = {}
  BY DEF PhotosInv, PhotosTypeOK, AllUsed, PhotosNotShared
<1>2. \A p : p \in Referenced <=> \E x \in Rows : p \in photo[x] BY DEF Referenced
<1>3. \A p : p \in Referenced' <=> \E x \in Rows : p \in photo'[x] BY DEF Referenced
<1>4. \A p : p \in Referenced' <=> p \in P \/ (p \in Referenced /\ p \notin photo[b])
  <2>1. \A p \in P : p \notin photo[b] BY PendingApart
  <2>. QED BY <1>1, <1>2, <1>3, <2>1
<1>5. \A p \in photo[b] : p \in used /\ p \notin Unattached /\ p \in Referenced
  BY <1>1, <1>2, PendingApart
<1>6. PastNow' = PastNow \cup photo[b] BY <1>4, <1>5 DEF PastNow
<1>7. CASE P = {} BY <1>6, <1>7 DEF PageTurns, Detaches
<1>8. ASSUME NEW p \in Photo, P = {p} PROVE PageTurns
  <2>1. p \in Unattached BY <1>8
  <2>2. p \notin PastNow BY <2>1 DEF PastNow
  <2>3. \A y \in Rows : p \notin photo[y] BY <2>1, PendingApart
  <2>. QED BY <1>6, <1>8, <2>2, <2>3 DEF PageTurns, Attaches
<1>. QED BY <1>7, <1>8

\* The commit of a request that attaches what it saved, or detaches.
LEMMA CommitTurns ==
  ASSUME PhotosInv, OneNew, NEW r \in Req, NEW b \in Rows, UNCHANGED used,
         req[r].pc = "commit", photo' = [photo EXCEPT ![b] = req[r].new],
         Pending(r)' = {}, \A q \in Req : q # r => Pending(q)' = Pending(q)
  PROVE  PageTurns
<1>. DEFINE P == req[r].new
<1>1. Pending(r) = P BY DEF Pending, Writing
<1>2. \A p : p \in Unattached <=> \E q \in Req : p \in Pending(q)
  BY DEF Unattached, Pending, Writing
<1>3. \A p : p \in Unattached' <=> \E q \in Req : p \in Pending(q)'
  BY DEF Unattached, Pending, Writing
<1>4. P = {} \/ \E p \in Photo : P = {p}
  <2>1. CASE req[r].op = "remove" BY <2>1 DEF PhotosInv, RemoveHasNone
  <2>2. CASE req[r].op # "remove" BY <2>2 DEF OneNew, Writing
  <2>. QED BY <2>1, <2>2
<1>. HIDE DEF P
<1>5. P \subseteq Unattached BY <1>1, <1>2
<1>6. \A q \in Req : q # r => Pending(q) \cap P = {} BY <1>1, PendingApart
<1>7. Unattached' = Unattached \ P
  <2>1. \A p : p \in Unattached' <=> p \in Unattached /\ p \notin P
    BY <1>1, <1>2, <1>3, <1>6
  <2>. QED BY <2>1
<1>8. photo' = [photo EXCEPT ![b] = P] BY DEF P
<1>. QED BY <1>4, <1>5, <1>7, <1>8, RowTurns

LEMMA OneNewInit == PhotosInit => OneNew
  BY IdleFields DEF PhotosInit, OneNew, Writing

\* The steps of one request that save nothing: where they leave it.
Ending(r) == /\ req' = [req EXCEPT ![r] = Idle] /\ UNCHANGED used
             /\ \/ ~ Writing(r) /\ UNCHANGED photo
                \/ InsertCafeRow(r) \/ update_cafe_log(r)
Committing(r) == /\ req' = [req EXCEPT ![r].pc = "unlink"] /\ UNCHANGED used
                 /\ attach_or_replace_photo(r) \/ delete_photo(r)
Starting(r) == /\ UNCHANGED <<photo, used>> /\ req[r] = Idle
               /\ \E v : /\ req' = [req EXCEPT ![r] = v] /\ v.new = {}
                         /\ v.pc = "commit" => v.op = "remove"
                         /\ v.pc # "thumb"

LEMMA OneSteps ==
  ASSUME PhotosNext
  PROVE  \/ UNCHANGED <<photo, used, req>>
         \/ \E c \in Cafes : delete_cafe_log(c)
         \/ \E r \in Req, p \in Photo : process_and_save(r, p)
         \/ \E r \in Req : Starting(r) \/ SaveThumb(r) \/ Committing(r) \/ Ending(r)
         \/ Crash
<1>1. ASSUME NEW b \in Bags, create_bag(b) \/ update_bag_handler(b) \/ archive_bag(b)
      PROVE UNCHANGED <<photo, used, req>>
  BY <1>1 DEF create_bag, create_bag_handler, update_bag_handler, update_bag, archive_bag
<1>2. ASSUME NEW r \in Req, NEW b \in Bags, upload_photo(r, b) \/ delete_photo_handler(r, b)
      PROVE Starting(r)
  <2>1. CASE upload_photo(r, b)
    <3>. DEFINE v == [op |-> "upload", pc |-> "wait", row |-> {b}, old |-> photo[b], new |-> {}]
    <3>1. req' = [req EXCEPT ![r] = v] /\ UNCHANGED <<photo, used>> /\ req[r] = Idle
      BY <2>1 DEF upload_photo, MayStart
    <3>2. v.new = {} /\ v.pc # "thumb" /\ (v.pc = "commit" => v.op = "remove") OBVIOUS
    <3>. HIDE DEF v
    <3>. QED BY <3>1, <3>2 DEF Starting
  <2>2. CASE delete_photo_handler(r, b)
    <3>. DEFINE v == [op |-> "remove", pc |-> "commit", row |-> {b}, old |-> photo[b], new |-> {}]
    <3>1. req' = [req EXCEPT ![r] = v] /\ UNCHANGED <<photo, used>> /\ req[r] = Idle
      BY <2>2 DEF delete_photo_handler, MayStart
    <3>2. v.new = {} /\ v.pc # "thumb" /\ (v.pc = "commit" => v.op = "remove") OBVIOUS
    <3>. HIDE DEF v
    <3>. QED BY <3>1, <3>2 DEF Starting
  <2>. QED BY <1>2, <2>1, <2>2
<1>3. ASSUME NEW r \in Req, NEW c \in Cafes,
             create_cafe_log(r, c) \/ update_cafe_log_handler(r, c)
      PROVE Starting(r)
  <2>1. CASE create_cafe_log(r, c)
    <3>. DEFINE v == [op |-> "cafeadd", pc |-> "wait", row |-> {c}, old |-> {}, new |-> {}]
    <3>1. req' = [req EXCEPT ![r] = v] /\ UNCHANGED <<photo, used>> /\ req[r] = Idle
      BY <2>1 DEF create_cafe_log, MayStart
    <3>2. v.new = {} /\ v.pc # "thumb" /\ (v.pc = "commit" => v.op = "remove") OBVIOUS
    <3>. HIDE DEF v
    <3>. QED BY <3>1, <3>2 DEF Starting
  <2>2. CASE update_cafe_log_handler(r, c)
    <3>. DEFINE v == [op |-> "cafeedit", pc |-> "wait", row |-> {c}, old |-> {}, new |-> {}]
    <3>1. req' = [req EXCEPT ![r] = v] /\ UNCHANGED <<photo, used>> /\ req[r] = Idle
      BY <2>2 DEF update_cafe_log_handler, MayStart
    <3>2. v.new = {} /\ v.pc # "thumb" /\ (v.pc = "commit" => v.op = "remove") OBVIOUS
    <3>. HIDE DEF v
    <3>. QED BY <3>1, <3>2 DEF Starting
  <2>. QED BY <1>3, <2>1, <2>2
<1>4. ASSUME NEW c \in Cafes, create_cafe_log_plain(c) PROVE UNCHANGED <<photo, used, req>>
  BY <1>4 DEF create_cafe_log_plain
<1>5. ASSUME NEW r \in Req, PhotoRejected(r) \/ replace_photo(r) \/ unlink_safe(r)
      PROVE Ending(r)
  BY <1>5 DEF PhotoRejected, replace_photo, unlink_safe, Ending, Writing
<1>6. ASSUME NEW r \in Req, attach_or_replace_photo(r) \/ delete_photo(r)
      PROVE Committing(r)
  BY <1>6 DEF attach_or_replace_photo, delete_photo, Committing
<1>7. ASSUME NEW r \in Req, InsertCafeRow(r) \/ update_cafe_log(r) PROVE Ending(r)
  BY <1>7 DEF InsertCafeRow, update_cafe_log, Ending
<1>8. ASSUME sweep_orphans \/ _sweep_unreferenced PROVE UNCHANGED <<photo, used, req>>
  BY <1>8 DEF sweep_orphans, _sweep_unreferenced
<1>. QED BY <1>1, <1>2, <1>3, <1>4, <1>5, <1>6, <1>7, <1>8 DEF PhotosNext

LEMMA OneNewStep ==
  ASSUME PhotosInv, OneNew, [PhotosNext]_photoVars PROVE OneNew'
<1>0. PhotosTypeOK BY DEF PhotosInv
<1>1. CASE UNCHANGED req BY <1>1 DEF OneNew, Writing
<1>2. ASSUME NEW r \in Req, NEW p \in Photo, process_and_save(r, p) PROVE OneNew'
  BY <1>0, <1>2 DEF process_and_save, PhotosTypeOK, OneNew, Writing
<1>3. ASSUME NEW r \in Req, Starting(r) PROVE OneNew'
  BY <1>0, <1>3 DEF Starting, PhotosTypeOK, OneNew, Writing
<1>4. ASSUME NEW r \in Req, SaveThumb(r) PROVE OneNew'
  BY <1>0, <1>4 DEF SaveThumb, PhotosTypeOK, OneNew, Writing
<1>5. ASSUME NEW r \in Req, Committing(r) PROVE OneNew'
  BY <1>0, <1>5 DEF Committing, PhotosTypeOK, OneNew, Writing
<1>6. ASSUME NEW r \in Req, Ending(r) PROVE OneNew'
  BY <1>0, <1>6, IdleFields DEF Ending, PhotosTypeOK, OneNew, Writing
<1>7. ASSUME Crash PROVE OneNew' BY <1>7, IdleFields DEF Crash, OneNew, Writing
<1>8. ASSUME NEW c \in Cafes, delete_cafe_log(c) PROVE UNCHANGED req
  BY <1>8 DEF delete_cafe_log
<1>. QED BY <1>1, <1>2, <1>3, <1>4, <1>5, <1>6, <1>7, <1>8, OneSteps DEF photoVars

LEMMA BookStep ==
  ASSUME PhotosInv, OneNew, [PhotosNext]_photoVars
  PROVE  PageTurns
<1>0. PhotosTypeOK BY DEF PhotosInv
<1>1. CASE UNCHANGED <<photo, used, req>>
  BY <1>1, OnlyWasted DEF Pending, Writing
<1>2. ASSUME NEW c \in Cafes, delete_cafe_log(c) PROVE PageTurns
  <2>1. Unattached' = Unattached \ {} BY <1>2 DEF delete_cafe_log, Unattached
  <2>. QED BY <1>2, <2>1, RowTurns DEF delete_cafe_log, Rows
<1>3. ASSUME NEW r \in Req, NEW p \in Photo, process_and_save(r, p) PROVE PageTurns
  <2>1. \A q \in Req : q # r => Pending(q)' = Pending(q)
    BY <1>0, <1>3 DEF process_and_save, PhotosTypeOK, Pending, Writing
  <2>2. Pending(r) = {} /\ Pending(r)' = {p}
    BY <1>0, <1>3 DEF process_and_save, PhotosTypeOK, Pending, Writing
  <2>3. \A x : x \in Unattached <=> \E q \in Req : x \in Pending(q)
    BY DEF Unattached, Pending, Writing
  <2>4. \A x : x \in Unattached' <=> \E q \in Req : x \in Pending(q)'
    BY DEF Unattached, Pending, Writing
  <2>5. \A x : x \in Unattached' <=> x \in Unattached \/ x = p BY <2>1, <2>2, <2>3, <2>4
  <2>6. UNCHANGED photo /\ used' = used \cup {p} /\ p \notin used
    BY <1>3 DEF process_and_save, Fresh
  <2>7. Referenced' = Referenced BY <2>6 DEF Referenced
  <2>8. PastNow' = PastNow \cup {} BY <2>5, <2>6, <2>7 DEF PastNow
  <2>. QED BY <2>6, <2>8 DEF PageTurns, Wastes
<1>4. ASSUME NEW r \in Req, Starting(r) PROVE PageTurns
  <2>1. \A q \in Req : Pending(q)' = Pending(q) \/ Pending(q)' = {}
    BY <1>0, <1>4 DEF Starting, PhotosTypeOK, Pending, Writing
  <2>. QED BY <1>4, <2>1, OnlyWasted DEF Starting
<1>5. ASSUME NEW r \in Req, SaveThumb(r) PROVE PageTurns
  <2>1. \A q \in Req : Pending(q)' = Pending(q)
    BY <1>0, <1>5 DEF SaveThumb, PhotosTypeOK, Pending, Writing
  <2>. QED BY <1>5, <2>1, OnlyWasted DEF SaveThumb
<1>6. ASSUME NEW r \in Req, Committing(r) PROVE PageTurns
  <2>1. \A q \in Req : q # r => Pending(q)' = Pending(q)
    BY <1>0, <1>6 DEF Committing, PhotosTypeOK, Pending, Writing
  <2>2. Pending(r)' = {} BY <1>0, <1>6 DEF Committing, PhotosTypeOK, Pending, Writing
  <2>3. PICK b \in Rows : req[r].row = {b}
    BY <1>6 DEF Committing, attach_or_replace_photo, delete_photo, OneRow, PhotosInv
  <2>4. photo' = [photo EXCEPT ![b] = req[r].new] /\ req[r].pc = "commit" /\ UNCHANGED used
    <3>1. CASE attach_or_replace_photo(r) BY <2>3, <3>1 DEF attach_or_replace_photo
    <3>2. CASE delete_photo(r)
      <4>1. req[r].new = {} BY <3>2 DEF delete_photo, PhotosInv, RemoveHasNone
      <4>. QED BY <2>3, <3>2, <4>1 DEF delete_photo
    <3>. QED BY <1>6, <3>1, <3>2 DEF Committing
  <2>. QED BY <2>1, <2>2, <2>4, CommitTurns
<1>7. ASSUME NEW r \in Req, Ending(r) PROVE PageTurns
  <2>1. \A q \in Req : q # r => Pending(q)' = Pending(q)
    BY <1>0, <1>7 DEF Ending, PhotosTypeOK, Pending, Writing
  <2>2. Pending(r)' = {}
    BY <1>0, <1>7, IdleFields DEF Ending, PhotosTypeOK, Pending, Writing
  <2>3. UNCHANGED used BY <1>7 DEF Ending
  <2>4. CASE UNCHANGED photo BY <2>1, <2>2, <2>3, <2>4, OnlyWasted
  <2>5. CASE photo' # photo
    <3>1. InsertCafeRow(r) \/ update_cafe_log(r) BY <1>7, <2>5 DEF Ending
    <3>2. PICK b \in Rows : req[r].row = {b}
      BY <3>1 DEF InsertCafeRow, update_cafe_log, OneRow, PhotosInv
    <3>3. photo' = [photo EXCEPT ![b] = req[r].new] /\ req[r].pc = "commit"
      BY <2>5, <3>1, <3>2 DEF InsertCafeRow, update_cafe_log
    <3>. QED BY <2>1, <2>2, <2>3, <3>3, CommitTurns
  <2>. QED BY <2>4, <2>5
<1>8. ASSUME Crash PROVE PageTurns
  <2>1. \A q \in Req : Pending(q)' = {} BY <1>8, IdleFields DEF Crash, Pending, Writing
  <2>. QED BY <1>8, <2>1, OnlyWasted DEF Crash
<1>. QED
  BY <1>1, <1>2, <1>3, <1>4, <1>5, <1>6, <1>7, <1>8, OneSteps DEF photoVars

\* The pictures of the pages follow the book: whatever the interleaving of
\* uploads, deletes, cafe logs and crashes, with the sweep run on an idle server,
\* a picture is shown in one place, once, and never broken while it is shown.
THEOREM PicturesByTheBook ==
  ASSUME SweepOnline = FALSE PROVE PhotosSpec => BookKept
<1>1. PhotosInit => Book!Init
  BY DEF PhotosInit, Book!Init, Referenced, Unattached
<1>2. ASSUME PhotosInv, PhotosInv', PageTurns PROVE Book!Next
  <2>1. ShownNow = photo /\ ShownNow' = photo'
    <3>1. PhotosInv' => (ShownNow = photo)'
      BY ShownIsPhoto, PTL
    <3>. QED BY <1>2, <3>1, ShownIsPhoto
  <2>. QED
    BY <1>2, <2>1 DEF PageTurns, Detaches, Attaches, Wastes, Book!Next, Book!Show,
       Book!Hide, Book!Waste, ShownNow, PastNow
<1>3. PhotosInv /\ PhotosInv' /\ OneNew /\ [PhotosNext]_photoVars => Book!Next
  BY <1>2, BookStep
<1>4. PhotosInit => OneNew BY OneNewInit
<1>5. PhotosInv /\ OneNew /\ [PhotosNext]_photoVars => OneNew' BY OneNewStep
<1>. QED
  BY <1>1, <1>3, <1>4, <1>5, PhotosAlways, PTL DEF PhotosSpec, BookKept, Book!Spec
=============================================================================
