-------------------------- MODULE ScreenshotDrafts --------------------------
(****************************************************************************)
(* How a payment screenshot becomes a payment: the file that is uploaded,   *)
(* the draft row that points to it, the recognition that fills the row in,  *)
(* and the confirmation, cancellation, deletion or expiry that ends the     *)
(* draft (handlers/payment.go, services/payment.go, dedup_queries.go,       *)
(* draft_cleanup.go).                                                       *)
(*                                                                          *)
(* The database and the directory of files cannot change together, so every *)
(* request is a sequence of statements and file operations, and those of    *)
(* other requests, of the OCR worker and of the sweeper fall between them.  *)
(* The deletion of a trip takes the payments of the trip with it, and their *)
(* screenshots by a list that it has made before.                           *)
(* One user's rows are modelled: every query filters on the owner.          *)
(****************************************************************************)
EXTENDS Integers

CONSTANTS
    Rows,       \* payment ids 1..n, in the order of created_at
    Files,      \* file names 1..n, each generated once (a UUID)
    Hashes,     \* SHA-256 of what is uploaded
    Moments,    \* transaction times of payments of one and the same amount
    Window,     \* two of them this close are taken for one payment
    Clients,    \* concurrent requests
    Mishaps,    \* what the environment does besides
    Unborn, Gone,   \* a row before INSERT, and after DELETE
    None            \* NULL; or an amount or a time that is missing

ASSUME RowsAssumption  == Rows \subseteq Nat /\ Files \subseteq Nat
ASSUME MomentsAssumption == Moments \subseteq Int /\ Window \in Nat
ASSUME MishapsAssumption == Mishaps \subseteq {"cancel", "crash", "fault"}

\* A screenshot's row, and one typed in by hand, whose screenshot_path is what
\* the client says.
PaymentRow ==
    [file: Files, sha: Hashes,
     draft: BOOLEAN, old: BOOLEAN, key: Moments \cup {None}]
    \cup
    [file: Files \cup {None}, sha: {None},
     draft: {FALSE}, old: {FALSE}, key: Moments \cup {None}]

ASSUME NullsAssumption ==
    /\ Unborn # Gone
    /\ {Unborn, Gone} \cap PaymentRow = {}
    /\ None \notin Rows \cup Files \cup Hashes \cup Moments

VARIABLES
    row,    \* table payments: screenshot_path, file_sha256, is_draft,
            \* created_at past the TTL, amount and transaction_time_ts
    disk,   \* files of the uploads directory
    req,    \* requests between two of their steps
    ocr,    \* row in the hands of the recognition task, None if there is none
    sweep   \* files of the rows the sweeper has deleted

vars == <<row, disk, req, ocr, sweep>>

PCs == {"idle", "find", "stat", "repoint", "insert", "mark",
        "hash", "cands", "confirm", "cancel", "delete", "unlink",
        "trip", "files"}

\* f: file in hand; fs: files of the payments of a trip; old: file of the row
\* found; h: hash; r: row in hand; key: amount and time to confirm with; edits:
\* the request carries them.
Request == [pc: PCs, f: Files \cup {None}, old: Files \cup {None},
            h: Hashes \cup {None}, r: Rows \cup {None},
            key: Moments \cup {None}, edits: BOOLEAN, force: BOOLEAN,
            fs: SUBSET Files]

Idle == [pc |-> "idle", f |-> None, old |-> None, h |-> None, r |-> None,
         key |-> None, edits |-> FALSE, force |-> FALSE, fs |-> {}]

TypeOK ==
    /\ row \in [Rows -> PaymentRow \cup {Unborn, Gone}]
    /\ disk \in [Files -> {"free", "kept", "removed"}]
    /\ req \in [Clients -> Request]
    /\ ocr \in Rows \cup {None}
    /\ sweep \subseteq Files

Init ==
    /\ row = [r \in Rows |-> Unborn]
    /\ disk = [f \in Files |-> "free"]
    /\ req = [c \in Clients |-> Idle]
    /\ ocr = None
    /\ sweep = {}

Live == {r \in Rows : row[r] \notin {Unborn, Gone}}
Drafts == {r \in Live : row[r].draft}
Confirmed == {r \in Live : ~row[r].draft}

\* Ids and names are fresh; the ones taken first stand for the earlier ones.
IsNext(r) == row[r] = Unborn /\ \A q \in Rows : q < r => row[q] # Unborn
IsFresh(f) == disk[f] = "free" /\ \A g \in Files : g < f => disk[g] # "free"

Holds(c, pc) == req[c].pc = pc
Goto(c, to) == req' = [req EXCEPT ![c] = to]
Remove(fs) == disk' = [f \in Files |-> IF f \in fs THEN "removed" ELSE disk[f]]

-----------------------------------------------------------------------------
(* Upload.                                                                  *)

\* The file is written under a name of its own and its hash is taken.
UploadSave(c, f, h) ==
    /\ Holds(c, "idle")
    /\ IsFresh(f)
    /\ disk' = [disk EXCEPT ![f] = "kept"]
    /\ Goto(c, [Idle EXCEPT !.pc = "find", !.f = f, !.h = h])
    /\ UNCHANGED <<row, ocr, sweep>>

\* Every return with an error removes the new file first.
UploadDiscards(c) ==
    /\ Remove({req[c].f})
    /\ Goto(c, Idle)

SameHash(h) == {r \in Live : row[r].sha = h}

\* A confirmed row goes before a draft, the newest of them first.
IsBest(r, rs) ==
    \A q \in rs :
        \/ ~row[r].draft /\ row[q].draft
        \/ row[r].draft = row[q].draft /\ q <= r

UploadFind(c) ==
    /\ Holds(c, "find")
    /\ LET same == SameHash(req[c].h)
       IN  \/ /\ same = {}
              /\ Goto(c, [req[c] EXCEPT !.pc = "insert"])
              /\ UNCHANGED disk
           \/ \E found \in same :
              /\ IsBest(found, same)
              /\ IF row[found].draft
                   THEN /\ Goto(c, [req[c] EXCEPT !.pc = "stat", !.r = found,
                                                  !.old = row[found].file])
                        /\ UNCHANGED disk
                   ELSE UploadDiscards(c)
    /\ UNCHANGED <<row, ocr, sweep>>

\* A draft whose file is still there is used again, file and all.
UploadStatLeaves(c) ==
    /\ Holds(c, "stat")
    /\ Goto(c, IF disk[req[c].old] = "kept" THEN Idle
               ELSE [req[c] EXCEPT !.pc = "repoint"])
    /\ UNCHANGED <<row, disk, ocr, sweep>>
UploadStat(c) ==
    /\ Holds(c, "stat")
    /\ IF disk[req[c].old] = "kept"
         THEN UploadDiscards(c)
         ELSE Goto(c, [req[c] EXCEPT !.pc = "repoint"]) /\ UNCHANGED disk
    /\ UNCHANGED <<row, ocr, sweep>>

\* UpdateDraftScreenshotPath: UPDATE ... WHERE is_draft = 1.
Repointed(r, f) ==
    IF r \in Drafts THEN [row EXCEPT ![r].file = f] ELSE row

\* The row is read again, and a row that is gone is an error.
UploadRepoint(c) ==
    /\ Holds(c, "repoint")
    /\ row' = Repointed(req[c].r, req[c].f)
    /\ IF req[c].r \in Live THEN Goto(c, Idle) /\ UNCHANGED disk
                            ELSE UploadDiscards(c)
    /\ UNCHANGED <<ocr, sweep>>

NewDraft(f, h, key) ==
    [file |-> f, sha |-> h, draft |-> TRUE, old |-> FALSE, key |-> key]

\* CreateDraftFromScreenshotUpload: recognition comes later.
UploadInsert(c, r) ==
    /\ Holds(c, "insert")
    /\ IsNext(r)
    /\ row' = [row EXCEPT ![r] = NewDraft(req[c].f, req[c].h, None)]
    /\ Goto(c, Idle)
    /\ UNCHANGED <<disk, ocr, sweep>>

\* CreateFromScreenshot: recognised before INSERT, duplicates looked up after.
UploadInsertRead(c, r, key) ==
    /\ Holds(c, "insert")
    /\ IsNext(r)
    /\ row' = [row EXCEPT ![r] = NewDraft(req[c].f, req[c].h, key)]
    /\ Goto(c, [req[c] EXCEPT !.pc = "mark"])
    /\ UNCHANGED <<disk, ocr, sweep>>

UploadMark(c) ==
    /\ Holds(c, "mark")
    /\ Goto(c, Idle)
    /\ UNCHANGED <<row, disk, ocr, sweep>>

\* A statement fails before it takes effect.
UploadFails(c) ==
    /\ "fault" \in Mishaps
    /\ req[c].pc \in {"find", "repoint", "insert", "mark"}
    /\ UploadDiscards(c)
    /\ UNCHANGED <<row, ocr, sweep>>

\* The UPDATE takes effect and the read after it fails.
UploadRepointUnread(c) ==
    /\ "fault" \in Mishaps
    /\ Holds(c, "repoint")
    /\ row' = Repointed(req[c].r, req[c].f)
    /\ UploadDiscards(c)
    /\ UNCHANGED <<ocr, sweep>>

-----------------------------------------------------------------------------
(* Recognition: the row is read, the image is recognised, and what was      *)
(* recognised is written to the row of that id, whatever it is by then.     *)
(* A task is queued for every upload, for nothing else.                     *)

OCRRead(r) ==
    /\ ocr = None
    /\ r \in Live
    /\ row[r].sha # None
    /\ disk[row[r].file] = "kept"
    /\ ocr' = r
    /\ UNCHANGED <<row, disk, req, sweep>>

\* An amount or a time that is not recognised leaves its column alone.
OCRWrite(key) ==
    /\ ocr # None
    /\ row' = IF ocr \in Live /\ key # None
                THEN [row EXCEPT ![ocr].key = key] ELSE row
    /\ ocr' = None
    /\ UNCHANGED <<disk, req, sweep>>

-----------------------------------------------------------------------------
(* PUT /payments/:id.                                                       *)

\* Confirmed rows of the same amount, less than five minutes away.
Near(k, l) ==
    k # None /\ l # None /\ k - l <= Window /\ l - k <= Window
Candidates(r, key) == {q \in Confirmed \ {r} : Near(row[q].key, key)}

\* Rows of the same file, drafts among them.
HashRivalsSaved(r, h) ==
    IF h = None THEN {} ELSE (SameHash(h) \cap Confirmed) \ {r}
HashRivals(r, h) == IF h = None THEN {} ELSE SameHash(h) \ {r}

ConfirmRead(c, r, edits, key, force) ==
    /\ Holds(c, "idle")
    /\ r \in Live
    /\ Goto(c, [Idle EXCEPT !.pc = "hash", !.r = r, !.h = row[r].sha,
                            !.key = IF edits THEN key ELSE row[r].key,
                            !.edits = edits, !.force = force])
    /\ UNCHANGED <<row, disk, ocr, sweep>>

\* hash duplicate: no override
ConfirmHash(c) ==
    /\ Holds(c, "hash")
    /\ Goto(c, IF HashRivals(req[c].r, req[c].h) # {} THEN Idle
               ELSE [req[c] EXCEPT !.pc = "cands"])
    /\ UNCHANGED <<row, disk, ocr, sweep>>

\* amount and time duplicate: only with force_duplicate_save
ConfirmCandidates(c) ==
    /\ Holds(c, "cands")
    /\ Goto(c, IF Candidates(req[c].r, req[c].key) # {} /\ ~req[c].force
                 THEN Idle
                 ELSE [req[c] EXCEPT !.pc = "confirm"])
    /\ UNCHANGED <<row, disk, ocr, sweep>>

ConfirmWrite(c) ==
    /\ Holds(c, "confirm")
    /\ LET r == req[c].r
       IN  row' = IF r \notin Live THEN row
                  ELSE [row EXCEPT ![r].draft = FALSE,
                                   ![r].key = IF req[c].edits THEN req[c].key
                                                              ELSE @]
    /\ Goto(c, Idle)
    /\ UNCHANGED <<disk, ocr, sweep>>

\* The same request without confirm looks nothing up.
EditPayment(r, key) ==
    /\ r \in Live
    /\ row' = [row EXCEPT ![r].key = key]
    /\ UNCHANGED <<disk, req, ocr, sweep>>

\* A name that a client can have seen: not that of an upload without a row.
Uploading == {"find", "stat", "repoint", "insert"}
HasBeenShown(f) ==
    disk[f] # "free" /\ \A c \in Clients : req[c].pc \in Uploading => req[c].f # f

\* POST /payments: typed in by hand, confirmed from the start.  The path comes
\* with the request, and nobody asks whose file it is.
CreatePayment(r, f, key) ==
    /\ IsNext(r)
    /\ f # None => HasBeenShown(f)
    /\ row' = [row EXCEPT ![r] = [file |-> f, sha |-> None, draft |-> FALSE,
                                  old |-> FALSE, key |-> key]]
    /\ UNCHANGED <<disk, req, ocr, sweep>>

-----------------------------------------------------------------------------
(* The ends of a draft.                                                     *)

\* POST /payments/upload-screenshot/cancel with a path: first the file ...
CancelRemove(c, f) ==
    /\ "cancel" \in Mishaps
    /\ Holds(c, "idle")
    /\ \E r \in Live : row[r].file = f
    /\ Remove({f})
    /\ Goto(c, [Idle EXCEPT !.pc = "cancel", !.f = f])
    /\ UNCHANGED <<row, ocr, sweep>>

\* ... then the drafts that point to it.
CancelDelete(c) ==
    /\ Holds(c, "cancel")
    /\ row' = [r \in Rows |-> IF r \in Drafts /\ row[r].file = req[c].f
                                THEN Gone ELSE row[r]]
    /\ Goto(c, Idle)
    /\ UNCHANGED <<disk, ocr, sweep>>

DeleteReadFileFirst(c, r) ==
    /\ Holds(c, "idle")
    /\ r \in Live
    /\ Remove({row[r].file})
    /\ Goto(c, [Idle EXCEPT !.pc = "delete", !.r = r, !.f = row[r].file,
                            !.h = row[r].sha])
    /\ UNCHANGED <<row, ocr, sweep>>
DeleteRead(c, r) ==
    /\ Holds(c, "idle")
    /\ r \in Live
    /\ Goto(c, [Idle EXCEPT !.pc = "delete", !.r = r, !.f = row[r].file,
                            !.h = row[r].sha])
    /\ UNCHANGED <<row, disk, ocr, sweep>>

DeleteCommit(c) ==
    /\ Holds(c, "delete")
    /\ IF req[c].r \in Live
         THEN /\ row' = [row EXCEPT ![req[c].r] = Gone]
              /\ Goto(c, IF req[c].f = None THEN Idle
                         ELSE [req[c] EXCEPT !.pc = "unlink"])
         ELSE Goto(c, Idle) /\ UNCHANGED row
    /\ UNCHANGED <<disk, ocr, sweep>>

DeleteFile(c) ==
    /\ Holds(c, "unlink")
    /\ Remove({req[c].f})
    /\ Goto(c, Idle)
    /\ UNCHANGED <<row, ocr, sweep>>

\* DELETE /trips/:id with the payments.  Which they are is not kept here: any
\* request may move a payment in or out between two steps (TripLedger), so the
\* trip is some set of payments when the preview lists their screenshots ...
TripList(c, inTrip) ==
    /\ Holds(c, "idle")
    /\ Goto(c, [Idle EXCEPT !.pc = "trip",
                            !.fs = {row[r].file : r \in inTrip} \ {None}])
    /\ UNCHANGED <<row, disk, ocr, sweep>>

\* ... and some set when the transaction deletes it.  The list stays as it is.
TripCommit(c, inTrip) ==
    /\ Holds(c, "trip")
    /\ row' = [r \in Rows |-> IF r \in inTrip THEN Gone ELSE row[r]]
    /\ Goto(c, IF req[c].fs = {} THEN Idle ELSE [req[c] EXCEPT !.pc = "files"])
    /\ UNCHANGED <<disk, ocr, sweep>>

\* The trip is gone already, or locked, or a statement fails.
TripRefused(c) ==
    /\ Holds(c, "trip")
    /\ Goto(c, Idle)
    /\ UNCHANGED <<row, disk, ocr, sweep>>

TripFile(c, f) ==
    /\ Holds(c, "files")
    /\ f \in req[c].fs
    /\ Remove({f})
    /\ LET rest == req[c].fs \ {f}
       IN  Goto(c, IF rest = {} THEN Idle ELSE [req[c] EXCEPT !.fs = rest])
    /\ UNCHANGED <<row, ocr, sweep>>

\* created_at falls behind the cutoff.
Expire(r) ==
    /\ r \in Drafts
    /\ ~row[r].old
    /\ row' = [row EXCEPT ![r].old = TRUE]
    /\ UNCHANGED <<disk, req, ocr, sweep>>

ExpiredIdle == {r \in Drafts : row[r].old /\ ocr # r}
Expired == {r \in Drafts : row[r].old}

\* cleanupDraftsOnce: one transaction for the rows, then the files.
SweepRows ==
    /\ sweep = {}
    /\ Expired # {}
    /\ row' = [r \in Rows |-> IF r \in Expired THEN Gone ELSE row[r]]
    /\ sweep' = {row[r].file : r \in Expired}
    /\ UNCHANGED <<disk, req, ocr>>

SweepFile(f) ==
    /\ f \in sweep
    /\ Remove({f})
    /\ sweep' = sweep \ {f}
    /\ UNCHANGED <<row, req, ocr>>

\* The process dies and is started again: nothing is resumed.
Crash ==
    /\ "crash" \in Mishaps
    /\ req' = [c \in Clients |-> Idle]
    /\ ocr' = None
    /\ sweep' = {}
    /\ UNCHANGED <<row, disk>>

-----------------------------------------------------------------------------
Upload(c) ==
    \/ \E f \in Files, h \in Hashes : UploadSave(c, f, h)
    \/ UploadFind(c)
    \/ UploadStat(c)
    \/ UploadRepoint(c)
    \/ \E r \in Rows : UploadInsert(c, r)
    \/ \E r \in Rows, key \in Moments \cup {None} : UploadInsertRead(c, r, key)
    \/ UploadMark(c)
    \/ UploadFails(c)
    \/ UploadRepointUnread(c)

Confirm(c) ==
    \/ \E r \in Rows, edits, force \in BOOLEAN, key \in Moments :
          ConfirmRead(c, r, edits, key, force)
    \/ ConfirmHash(c)
    \/ ConfirmCandidates(c)
    \/ ConfirmWrite(c)

Discard(c) ==
    \/ \E f \in Files : CancelRemove(c, f)
    \/ CancelDelete(c)
    \/ \E r \in Rows : DeleteRead(c, r)
    \/ DeleteCommit(c)
    \/ DeleteFile(c)

DeleteTrip(c) ==
    \/ \E inTrip \in SUBSET Confirmed : TripList(c, inTrip) \/ TripCommit(c, inTrip)
    \/ TripRefused(c)
    \/ \E f \in Files : TripFile(c, f)

Background ==
    \/ \E r \in Rows : OCRRead(r) \/ Expire(r)
    \/ \E key \in Moments \cup {None} : OCRWrite(key)
    \/ SweepRows
    \/ \E f \in Files : SweepFile(f)
    \/ Crash

Next ==
    \/ \E c \in Clients : Upload(c) \/ Confirm(c) \/ Discard(c) \/ DeleteTrip(c)
    \/ \E r \in Rows, key \in Moments :
          \/ EditPayment(r, key)
          \/ \E f \in Files \cup {None} : CreatePayment(r, f, key)
    \/ Background

Spec == Init /\ [][Next]_vars

\* The sweeper runs when the process starts and at every tick after that, and
\* goes through the files of the rows it has deleted without waiting.
FairSpec ==
    /\ Spec
    /\ WF_vars(SweepRows)
    /\ WF_vars(\E f \in Files : SweepFile(f))

-----------------------------------------------------------------------------
(* Properties.                                                              *)

\* One screenshot is saved as at most one payment, whatever uploads and
\* confirmations overlap: the hash of a row being confirmed is compared with
\* those of drafts too, so of two drafts of one file neither gets through.
OneConfirmedPerFile ==
    \A q, r \in Confirmed :
        q # r /\ row[q].sha # None => row[q].sha # row[r].sha

\* A confirmation is as good as one step, though it looks up the hash, looks up
\* amount and time and writes in three statements: the payments are rows as
\* UploadLifecycle has them, whatever falls between.
Document(r) ==
    CASE row[r] = Unborn -> [life |-> "absent", content |-> None]
      [] row[r] = Gone   -> [life |-> "gone", content |-> None]
      [] OTHER           -> [life |-> IF row[r].draft THEN "draft" ELSE "saved", content |-> row[r].sha]
Uploads == INSTANCE UploadLifecycle
             WITH Contents <- Hashes, documents <- [r \in Rows |-> Document(r)]
Lifecycle == Uploads!Spec

HasFile(r) == row[r].file # None => disk[row[r].file] = "kept"

\* Four ways in which a file goes that a row may still point to.  An upload is
\* cancelled; or it fails after its row was written.
Cancels(c, f) == Holds(c, "idle") /\ Holds(c, "cancel")' /\ req'[c].f = f
FailsLate(c, f) ==
    /\ "fault" \in Mishaps
    /\ req[c].pc \in {"repoint", "mark"} /\ Holds(c, "idle")' /\ req[c].f = f

\* A trip is deleted with the files its payments had before: the payment has
\* left the trip meanwhile.
GoesByList(c, f) == Holds(c, "files") /\ f \in req[c].fs

\* A payment typed in by hand is deleted with the file that it names.
GoesByName(c, f) == Holds(c, "unlink") /\ req[c].h = None /\ req[c].f = f

\* A payment made from a screenshot keeps its file while it stays, or is given a
\* file that is there, in every step but those four: a draft that is used again,
\* swept, deleted or confirmed by another request never costs a row its file.
ScreenshotsStay ==
    [][\A r \in Rows :
          r \in Live /\ row[r].sha # None /\ HasFile(r) /\ (r \in Live)' /\ ~HasFile(r)'
            => \E c \in Clients :
                  LET f == row'[r].file
                  IN  Cancels(c, f) \/ FailsLate(c, f) \/ GoesByList(c, f) \/ GoesByName(c, f)]_vars

\* Whoever has a file in hand removes it yet, or gives it to a row.
InHand(f) ==
    \/ f \in sweep
    \/ \E c \in Clients :
          \/ req[c].f = f /\ ~Holds(c, "delete") /\ ~Holds(c, "mark")
          \/ Holds(c, "files") /\ f \in req[c].fs
Accounted(f) == InHand(f) \/ \E r \in Live : row[r].file = f

\* The row is no longer what the request has read: deleted with another file,
\* or confirmed, or pointed at another file, while it was to be pointed at the
\* new one.
Outdated(c) ==
    /\ req[c].r \in Live
    /\ \/ Holds(c, "delete") /\ row[req[c].r].file # req[c].f
       \/ Holds(c, "repoint") /\ ~row[req[c].r].draft
       \/ Holds(c, "repoint") /\ row[req[c].r].file # req[c].old

\* The trip was listed without the file: its payment has joined since.
Unlisted(c, f) == Holds(c, "trip") /\ f \notin req[c].fs

\* The directory keeps no file that nobody knows of: a file some row points to,
\* or some request or the sweeper is busy with, is removed before the last of
\* them lets go of it, unless the process dies with the file in its hands or a
\* request writes by what it has read of a row, or of a trip, that has changed
\* since.
NoFileIsForgotten ==
    [][\A f \in Files :
          disk[f] = "kept" /\ Accounted(f) /\ disk'[f] = "kept" /\ ~Accounted(f)'
            => \/ Crash
               \/ \E c \in Clients : (Outdated(c) \/ Unlisted(c, f)) /\ req'[c] # req[c]]_vars

\* A draft past its TTL that nobody confirms does not stay.
AbandonedDraftsGo ==
    \A r \in Rows : r \in Expired ~> r \notin Drafts

=============================================================================
