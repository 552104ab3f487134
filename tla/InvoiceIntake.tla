---------------------------- MODULE InvoiceIntake -----------------------------
(****************************************************************************)
(* How invoices come in and go (handlers/invoice.go, services/invoice.go,   *)
(* invoice_parsed.go, dedup_queries.go, draft_cleanup.go, the control of    *)
(* ParseEmailLogCtx in email_parse.go): uploads make drafts that a user     *)
(* confirms, a message of the mailbox is imported as saved invoices at      *)
(* once, recognition writes the invoice number later, attachments hang on   *)
(* an invoice, and rows are removed by requests, by the draft sweeper and   *)
(* with a trip.  Rows, files and the log of the message change in           *)
(* different steps of requests that overlap.                                *)
(*                                                                          *)
(* A request is a process with a program counter; one SQL statement, one    *)
(* transaction or one file operation is a step.  Links to payments are      *)
(* those of TripLedger; tasks are those of TaskQueue, so that recognition   *)
(* of an uploaded row may run at any time.                                  *)
(****************************************************************************)
EXTENDS Naturals, FiniteSets

CONSTANTS
    Rows,       \* ids of invoices
    Atts,       \* ids of attachments
    Files,      \* names of stored files; each is given once
    Hashes,     \* contents of files
    Numbers,    \* invoice numbers
    Clients,    \* requests and background goroutines in flight
    MaxEvents,  \* bound on the requests that begin, the statements that fail, the crashes
    None        \* NULL

ASSUME EventsAssumption == MaxEvents \in Nat
ASSUME NoneAssumption ==
    None \notin Rows \cup Files \cup Hashes \cup Numbers

VARIABLES
    inv,        \* table invoices, with the flag that invoice_ocr_blobs has a row
    att,        \* table invoice_attachments
    disk,       \* the upload directory
    log,        \* the email_logs row of the message
    req,        \* requests in flight
    swept,      \* files the sweeper has still to remove
    rough,      \* history: a crash or a failing statement
    events      \* how many of those there have been

vars == <<inv, att, disk, log, req, swept, rough, events>>

Lives == {"unborn", "draft", "saved", "gone"}
Marks == {"ok", "suspected", "forced"}

\* asMade: an imported row whose number and mark nobody has changed since.
InvoiceRow == [life: Lives, file: Files \cup {None}, hash: Hashes \cup {None},
               number: Numbers \cup {None}, dedup: Marks, blob: BOOLEAN,
               imported: BOOLEAN, asMade: BOOLEAN, old: BOOLEAN]
Unborn == [life |-> "unborn", file |-> None, hash |-> None, number |-> None, dedup |-> "ok",
           blob |-> FALSE, imported |-> FALSE, asMade |-> FALSE, old |-> FALSE]

AttRow == [life: {"unborn", "live", "gone"}, inv: Rows \cup {None},
           file: Files \cup {None}, hash: Hashes \cup {None}]

Points == {"idle", "find", "stat", "repoint", "insert", "look", "mark", "parse",
           "hash", "number", "status", "confirm", "delete", "files", "count", "attach",
           "message", "fetch", "pdf", "extras", "trip", "tripfiles"}
Kinds  == {"none", "sync", "async", "task", "reparse", "xml", "pdf", "extra", "manual"}

\* main, made: the invoice an import has made first, and all of them; todo:
\* files to remove, or the one an existing draft had.
Request == [pc: Points, kind: Kinds, row: Rows \cup {None}, main: Rows \cup {None}, made: SUBSET Rows,
            file: Files \cup {None}, hash: Hashes \cup {None}, num: Numbers \cup {None},
            force: BOOLEAN, mark: Marks, todo: SUBSET Files]
NoReq == [pc |-> "idle", kind |-> "none", row |-> None, main |-> None, made |-> {}, file |-> None,
          hash |-> None, num |-> None, force |-> FALSE, mark |-> "ok", todo |-> {}]

TypeOK ==
    /\ inv \in [Rows -> InvoiceRow]
    /\ att \in [Atts -> AttRow]
    /\ disk \in [Files -> {"unused", "there", "removed"}]
    /\ log \in [status: {"received", "parsing", "parsed", "error"}, ref: Rows \cup {None}]
    /\ req \in [Clients -> Request]
    /\ swept \subseteq Files
    /\ rough \in BOOLEAN /\ events \in 0 .. MaxEvents
    \* A row that was inserted has its file, a draft was not imported.
    /\ \A r \in Rows : inv[r].life # "unborn" => inv[r].file # None /\ inv[r].hash # None
    /\ \A r \in Rows : inv[r].life = "draft" => ~inv[r].imported

Init ==
    /\ inv = [r \in Rows |-> Unborn]
    /\ att = [a \in Atts |-> [life |-> "unborn", inv |-> None, file |-> None, hash |-> None]]
    /\ disk = [f \in Files |-> "unused"]
    /\ log = [status |-> "received", ref |-> None]
    /\ req = [c \in Clients |-> NoReq]
    /\ swept = {} /\ rough = FALSE /\ events = 0

------------------------------------------------------------------------------
Live(r) == inv[r].life \in {"draft", "saved"}
At(c, pc) == req[c].pc = pc
Happens == events < MaxEvents /\ events' = events + 1
Begins(c) == At(c, "idle") /\ Happens
Done(c) == req' = [req EXCEPT ![c] = NoReq]
Goes(c, pc) == req' = [req EXCEPT ![c].pc = pc]

\* os.Remove of what is there; a file that is missing is passed over.
Without(fs) == [f \in Files |-> IF f \in fs /\ disk[f] = "there" THEN "removed" ELSE disk[f]]
Stored(f) == [disk EXCEPT ![f] = "there"]

SameHash(h, but) == {r \in Rows \ {but} : Live(r) /\ inv[r].hash = h}
\* Mutant: only what a user has uploaded is a candidate.
Candidates_own(n, but) ==
    {r \in Rows \ {but} : inv[r].life = "saved" /\ ~inv[r].imported /\ inv[r].number = n /\ n # None}

Candidates(n, but) == {r \in Rows \ {but} : inv[r].life = "saved" /\ inv[r].number = n /\ n # None}

AttsOf(rs) == {a \in Atts : att[a].life = "live" /\ att[a].inv \in rs}

\* DELETE of attachments with their invoice.
AttsGone(rs) == [a \in Atts |-> IF a \in AttsOf(rs) THEN [att[a] EXCEPT !.life = "gone"] ELSE att[a]]
RowGone(row) == [row EXCEPT !.life = "gone", !.blob = FALSE]

\* UPDATE ... WHERE id = r: nothing if the row is gone.
Updated(r, row) == IF Live(r) THEN [inv EXCEPT ![r] = row] ELSE inv

------------------------------------------------------------------------------
(* Upload, UploadAsync and the two for several files, which repeat them.    *)

\* The file is written under a name of its own and its hash is taken.
FileSaved(c, kind) ==
    /\ Begins(c)
    /\ \E f \in Files, h \in Hashes :
         /\ disk[f] = "unused"
         /\ disk' = Stored(f)
         /\ req' = [req EXCEPT ![c] = [NoReq EXCEPT !.pc = "find", !.kind = kind, !.file = f, !.hash = h]]
    /\ UNCHANGED <<inv, att, log, swept, rough>>

UploadSave(c) == FileSaved(c, "sync")
AsyncSave(c) == FileSaved(c, "async")

\* Mutant: the file the row has is taken for the one that is not needed.
Discards_old(c) == disk' = Without(IF req[c].todo = {} THEN {req[c].file} ELSE req[c].todo) /\ Done(c)

Discards(c) == disk' = Without({req[c].file}) /\ Done(c)

\* Any row of the same content is the answer.
UploadFind(c) ==
    /\ At(c, "find") /\ req[c].kind = "sync"
    /\ IF SameHash(req[c].hash, None) = {}
       THEN Goes(c, "insert") /\ UNCHANGED disk
       ELSE Discards(c)
    /\ UNCHANGED <<inv, att, log, swept, rough, events>>

\* Saved rows come first; a draft is used again.
AsyncFind(c) ==
    /\ At(c, "find") /\ req[c].kind = "async"
    /\ LET rivals == SameHash(req[c].hash, None)
           saved  == {r \in rivals : inv[r].life = "saved"}
       IN  \/ rivals = {} /\ Goes(c, "insert") /\ UNCHANGED disk
           \/ saved # {} /\ Discards(c)
           \/ /\ saved = {}
              /\ \E r \in rivals :
                   req' = [req EXCEPT ![c].pc = "stat", ![c].row = r, ![c].todo = {inv[r].file}]
              /\ UNCHANGED disk
    /\ UNCHANGED <<inv, att, log, swept, rough, events>>

\* The draft's file is still there, or the draft is pointed at the new one.
UploadStat(c) ==
    /\ At(c, "stat")
    /\ IF \A f \in req[c].todo : disk[f] = "there"
       THEN Discards(c)
       ELSE UNCHANGED disk /\ req' = [req EXCEPT ![c].pc = "repoint", ![c].todo = {}]
    /\ UNCHANGED <<inv, att, log, swept, rough, events>>

Repointed(c) ==
    LET r == req[c].row IN
    IF inv[r].life = "draft" THEN [inv EXCEPT ![r].file = req[c].file] ELSE inv

\* The UPDATE touches drafts only; the read after it finds any row.
UploadRepoint(c) ==
    /\ At(c, "repoint")
    /\ inv' = Repointed(c)
    /\ IF Live(req[c].row) THEN UNCHANGED disk ELSE disk' = Without({req[c].file})
    /\ Done(c)
    /\ UNCHANGED <<att, log, swept, rough, events>>

NewRow(c, life, n) ==
    [Unborn EXCEPT !.life = life, !.file = req[c].file, !.hash = req[c].hash, !.number = n,
                   !.blob = req[c].kind \notin {"async", "xml"},
                   !.imported = life = "saved", !.asMade = life = "saved"]

\* CreateDraftFromUpload leaves recognition to a task.
UploadInsert(c) ==
    /\ At(c, "insert") /\ req[c].kind = "async"
    /\ \E r \in Rows :
         /\ inv[r].life = "unborn"
         /\ inv' = [inv EXCEPT ![r] = NewRow(c, "draft", None)]
    /\ Done(c)
    /\ UNCHANGED <<att, disk, log, swept, rough, events>>

\* Create and CreateFromExtracted: recognition comes before the INSERT, the
\* search for duplicates after it.
CreateInsert(c) ==
    /\ At(c, "insert") /\ req[c].kind # "async"
    /\ \E r \in Rows, n \in Numbers \cup {None} :
         /\ inv[r].life = "unborn"
         /\ req[c].kind = "xml" => n # None
         /\ inv' = [inv EXCEPT ![r] = NewRow(c, IF req[c].kind = "sync" THEN "draft" ELSE "saved", n)]
         /\ req' = [req EXCEPT ![c].pc = "look", ![c].row = r, ![c].num = n]
    /\ UNCHANGED <<att, disk, log, swept, rough, events>>

\* What follows a created row: the response, or the rest of the message.
Created(c) ==
    IF req[c].kind \in {"xml", "pdf", "extra"}
    THEN req' = [req EXCEPT ![c] = [NoReq EXCEPT !.pc = "extras", !.made = req[c].made \cup {req[c].row},
                                     !.main = IF req[c].main = None THEN req[c].row ELSE req[c].main]]
    ELSE Done(c)

\* A task looks up the number its row has by now and clears the mark when
\* there are no candidates; the others only set it.
Look(c) ==
    /\ At(c, "look")
    /\ LET r == req[c].row
           n == IF req[c].kind = "task" THEN inv[r].number ELSE req[c].num
           found == Candidates(n, r)
       IN  \/ found # {} /\ req' = [req EXCEPT ![c].pc = "mark", ![c].mark = "suspected"]
           \/ found = {} /\ n # None /\ req[c].kind = "task" /\ Live(r)
              /\ req' = [req EXCEPT ![c].pc = "mark", ![c].mark = "ok"]
           \/ found = {} /\ (n = None \/ req[c].kind # "task" \/ ~Live(r)) /\ Created(c)
    /\ UNCHANGED <<inv, att, disk, log, swept, rough, events>>

Mark(c) ==
    /\ At(c, "mark")
    /\ inv' = Updated(req[c].row, [inv[req[c].row] EXCEPT !.dedup = req[c].mark])
    /\ Created(c)
    /\ UNCHANGED <<att, disk, log, swept, rough, events>>

\* The search for the hash or the INSERT fails, or the payment the draft is
\* to be linked with does not exist: the new file is taken back.
UploadFails(c) ==
    /\ req[c].pc \in {"find", "repoint"} \/ (At(c, "insert") /\ req[c].kind \in {"sync", "async"})
    /\ Discards(c)
    /\ UNCHANGED <<inv, att, log, swept, rough, events>>

\* The PDF is attached to an invoice of the message, or left where it is if
\* each of them has one (chooseAttachmentTarget).
AttachesTo(c, to) ==
    \/ \E r \in to.made : req' = [req EXCEPT ![c] = [to EXCEPT !.pc = "count", !.row = r]]
    \/ req' = [req EXCEPT ![c] = [NoReq EXCEPT !.pc = "extras", !.main = to.main, !.made = to.made]]

\* Create fails when the row is there already: the handler takes the file
\* back, an import creates another row for the same file.
CreateUnmarked(c) ==
    /\ Happens /\ req[c].pc \in {"look", "mark"}
    /\ rough' = TRUE
    /\ CASE req[c].kind = "sync" -> Discards(c) /\ UNCHANGED log
         [] req[c].kind = "task" -> Done(c) /\ UNCHANGED <<disk, log>>
         [] req[c].kind = "xml" ->
              /\ \E kind \in {"xml", "pdf"} :
                   req' = [req EXCEPT ![c] = [@ EXCEPT !.pc = "insert", !.kind = kind, !.row = None,
                                                       !.num = None, !.mark = "ok"]]
              /\ UNCHANGED <<disk, log>>
         [] req[c].kind = "pdf" -> Done(c) /\ log' = [log EXCEPT !.status = "error"] /\ UNCHANGED disk
         [] req[c].kind = "extra" ->
              /\ AttachesTo(c, [req[c] EXCEPT !.num = None, !.mark = "ok"])
              /\ UNCHANGED <<disk, log>>
    /\ UNCHANGED <<inv, att, swept>>

\* The UPDATE takes effect and the read after it fails.
UploadRepointUnread(c) ==
    /\ Happens /\ At(c, "repoint")
    /\ rough' = TRUE
    /\ inv' = Repointed(c)
    /\ Discards(c)
    /\ UNCHANGED <<att, log, swept>>

------------------------------------------------------------------------------
(* Recognition: ProcessInvoiceOCRTask, and Reparse on request.              *)

ParseRead(c) ==
    /\ Begins(c)
    /\ \E r \in Rows, kind \in {"task", "reparse"} :
         /\ Live(r)
         /\ kind = "task" => ~inv[r].imported
         /\ req' = [req EXCEPT ![c] = [NoReq EXCEPT !.pc = "parse", !.kind = kind, !.row = r]]
    /\ UNCHANGED <<inv, att, disk, log, swept, rough>>

\* Row and blob in one transaction, which is given up if the row has gone.
Parsed(r, n) ==
    Updated(r, [inv[r] EXCEPT !.number = n, !.blob = TRUE, !.asMade = FALSE])

ParseWrite(c) ==
    /\ At(c, "parse")
    /\ LET r == req[c].row IN
       \E n \in Numbers \cup {None} :
         /\ inv' = Parsed(r, IF n = None /\ req[c].kind = "reparse" THEN inv[r].number ELSE n)
         /\ IF Live(r) /\ req[c].kind = "task" /\ n # None THEN Goes(c, "look") ELSE Done(c)
    /\ UNCHANGED <<att, disk, log, swept, rough, events>>

------------------------------------------------------------------------------
(* InvoiceService.Update, with and without confirm.                         *)

ConfirmRead(c) ==
    /\ Begins(c)
    /\ \E r \in Rows, n \in Numbers \cup {None}, force \in BOOLEAN :
         /\ Live(r)
         /\ req' = [req EXCEPT ![c] = [NoReq EXCEPT !.pc = "hash", !.row = r, !.hash = inv[r].hash,
                                        !.num = IF n = None THEN inv[r].number ELSE n, !.force = force]]
    /\ UNCHANGED <<inv, att, disk, log, swept, rough>>

\* Mutant: only saved invoices block, as everywhere else.
HashRivals_saved(c) == {r \in SameHash(req[c].hash, req[c].row) : inv[r].life = "saved"}

\* Drafts count, too: the same file is never let through.
HashRivals(c) == SameHash(req[c].hash, req[c].row)
ConfirmHash(c) ==
    /\ At(c, "hash")
    /\ IF HashRivals(c) = {} THEN Goes(c, "number") ELSE Done(c)
    /\ UNCHANGED <<inv, att, disk, log, swept, rough, events>>

ConfirmNumber(c) ==
    /\ At(c, "number")
    /\ IF Candidates(req[c].num, req[c].row) # {} /\ ~req[c].force THEN Done(c) ELSE Goes(c, "status")
    /\ UNCHANGED <<inv, att, disk, log, swept, rough, events>>

ConfirmStatus(c) ==
    /\ At(c, "status")
    /\ req' = [req EXCEPT ![c].pc = "confirm",
                 ![c].mark = IF Candidates(req[c].num, req[c].row) = {} THEN "ok"
                             ELSE IF req[c].force THEN "forced" ELSE "suspected"]
    /\ UNCHANGED <<inv, att, disk, log, swept, rough, events>>

ConfirmWrite(c) ==
    /\ At(c, "confirm")
    /\ LET r == req[c].row IN
       \E given \in BOOLEAN :
         inv' = Updated(r, [inv[r] EXCEPT !.life = "saved", !.dedup = req[c].mark, !.asMade = FALSE,
                                          !.number = IF given /\ req[c].num # None THEN req[c].num ELSE @])
    /\ Done(c)
    /\ UNCHANGED <<att, disk, log, swept, rough, events>>

EditInvoice ==
    /\ Happens
    /\ \E r \in Rows, n \in Numbers :
         Live(r) /\ inv' = [inv EXCEPT ![r].number = n, ![r].asMade = FALSE]
    /\ UNCHANGED <<att, disk, log, req, swept, rough>>

------------------------------------------------------------------------------
(* Delete, attachments, the sweeper, and the deletion of a trip.            *)

DeleteRead(c) ==
    /\ Begins(c)
    /\ \E r \in Rows :
         /\ Live(r)
         /\ req' = [req EXCEPT ![c] = [NoReq EXCEPT !.pc = "delete", !.row = r,
                      !.todo = {inv[r].file} \cup {att[a].file : a \in AttsOf({r})}]]
    /\ UNCHANGED <<inv, att, disk, log, swept, rough>>

\* Links, attachments, blob, the log's reference and the row together.
DeleteCommit(c) ==
    /\ At(c, "delete")
    /\ LET r == req[c].row IN
         IF Live(r)
         THEN /\ inv' = [inv EXCEPT ![r] = RowGone(@)]
              /\ att' = AttsGone({r})
              /\ log' = IF log.ref = r THEN [status |-> "received", ref |-> None] ELSE log
              /\ Goes(c, "files")
         ELSE Done(c) /\ UNCHANGED <<inv, att, log>>
    /\ UNCHANGED <<disk, swept, rough, events>>

RemoveFiles(c) ==
    /\ req[c].pc \in {"files", "tripfiles"}
    /\ disk' = Without(req[c].todo)
    /\ Done(c)
    /\ UNCHANGED <<inv, att, log, swept, rough, events>>

AttachSave(c) ==
    /\ Begins(c)
    /\ \E r \in Rows, f \in Files, h \in Hashes :
         /\ Live(r) /\ disk[f] = "unused"
         /\ disk' = Stored(f)
         /\ req' = [req EXCEPT ![c] = [NoReq EXCEPT !.pc = "count", !.kind = "manual", !.row = r,
                                                    !.file = f, !.hash = h]]
    /\ UNCHANGED <<inv, att, log, swept, rough>>

\* The attachment that has the content already is the answer.
AttachCount(c) ==
    /\ At(c, "count")
    /\ IF \E a \in AttsOf({req[c].row}) : att[a].hash = req[c].hash
       THEN Created(c) ELSE Goes(c, "attach")
    /\ UNCHANGED <<inv, att, disk, log, swept, rough, events>>

AttachInsert(c) ==
    /\ At(c, "attach")
    /\ \E a \in Atts :
         /\ att[a].life = "unborn"
         /\ att' = [att EXCEPT ![a] = [life |-> "live", inv |-> req[c].row,
                                       file |-> req[c].file, hash |-> req[c].hash]]
    /\ Created(c)
    /\ UNCHANGED <<inv, disk, log, swept, rough, events>>

\* The handler takes the file back; an import leaves it where it is.
AttachFails(c) ==
    /\ req[c].pc \in {"count", "attach"}
    /\ IF req[c].kind = "manual" THEN Discards(c) ELSE Created(c) /\ UNCHANGED disk
    /\ UNCHANGED <<inv, att, log, swept, rough, events>>

DeleteAttachment(c) ==
    /\ Begins(c)
    /\ \E a \in Atts :
         /\ att[a].life = "live"
         /\ att' = [att EXCEPT ![a].life = "gone"]
         /\ req' = [req EXCEPT ![c] = [NoReq EXCEPT !.pc = "files", !.todo = {att[a].file}]]
    /\ UNCHANGED <<inv, disk, log, swept, rough>>

\* A draft reaches the age at which it is swept.
Expire(r) ==
    /\ inv[r].life = "draft" /\ ~inv[r].old
    /\ inv' = [inv EXCEPT ![r].old = TRUE]
    /\ UNCHANGED <<att, disk, log, req, swept, rough, events>>

Expired == {r \in Rows : inv[r].life = "draft" /\ inv[r].old}

SweepRows ==
    /\ swept = {} /\ Expired # {}
    /\ inv' = [r \in Rows |-> IF r \in Expired THEN RowGone(inv[r]) ELSE inv[r]]
    /\ att' = AttsGone(Expired)
    /\ swept' = {inv[r].file : r \in Expired} \cup {att[a].file : a \in AttsOf(Expired)}
    /\ UNCHANGED <<disk, log, req, rough, events>>

SweepFiles ==
    /\ swept # {}
    /\ disk' = Without(swept)
    /\ swept' = {}
    /\ UNCHANGED <<inv, att, log, req, rough, events>>

\* The preview lists the files of invoices linked to the trip's payments only.
TripPreview(c) ==
    /\ Begins(c)
    /\ \E r \in Rows :
         /\ Live(r)
         /\ req' = [req EXCEPT ![c] = [NoReq EXCEPT !.pc = "trip", !.row = r, !.todo = {inv[r].file}]]
    /\ UNCHANGED <<inv, att, disk, log, swept, rough>>

\* The transaction follows the links of its own time, which may keep the row;
\* it knows of no blob, attachment or log.
TripCommit(c) ==
    /\ At(c, "trip")
    /\ \/ inv' = Updated(req[c].row, [inv[req[c].row] EXCEPT !.life = "gone"])
       \/ UNCHANGED inv
    /\ Goes(c, "tripfiles")
    /\ UNCHANGED <<att, disk, log, swept, rough, events>>

TripRefused(c) ==
    /\ At(c, "trip")
    /\ Done(c)
    /\ UNCHANGED <<inv, att, disk, log, swept, rough, events>>

------------------------------------------------------------------------------
(* ParseEmailLogCtx.                                                        *)

\* A parsed log whose invoice is there is answered at once.
ImportRead(c) ==
    /\ Begins(c)
    /\ ~(log.status = "parsed" /\ log.ref # None /\ Live(log.ref))
    /\ Goes(c, "message")
    /\ log' = IF log.status = "parsed" THEN [status |-> "received", ref |-> None] ELSE log
    /\ UNCHANGED <<inv, att, disk, swept, rough>>

ImportParsing(c) ==
    /\ At(c, "message")
    /\ log' = [log EXCEPT !.status = "parsing"]
    /\ Goes(c, "fetch")
    /\ UNCHANGED <<inv, att, disk, swept, rough, events>>

\* Mutant: an early return that leaves the status alone.
ImportFails_silent(c) ==
    /\ At(c, "fetch")
    /\ Done(c)
    /\ UNCHANGED <<inv, att, disk, log, swept, rough, events>>

\* No configuration, no connection, or no message.
ImportFails(c) ==
    /\ At(c, "fetch")
    /\ log' = [log EXCEPT !.status = "error"]
    /\ Done(c)
    /\ UNCHANGED <<inv, att, disk, swept, rough, events>>

\* The message is read: its PDFs, its XML, and what its text links to.
ImportFetch(c) ==
    /\ At(c, "fetch")
    /\ Goes(c, "pdf")
    /\ UNCHANGED <<inv, att, disk, log, swept, rough, events>>

\* Neither an attachment nor a link has a PDF.
ImportNoPdf(c) ==
    /\ At(c, "pdf")
    /\ log' = [log EXCEPT !.status = "error"]
    /\ Done(c)
    /\ UNCHANGED <<inv, att, disk, swept, rough, events>>

\* The PDF cannot be made an invoice.
ImportNoInvoice(c) ==
    /\ At(c, "insert") /\ req[c].kind = "pdf"
    /\ log' = [log EXCEPT !.status = "error"]
    /\ Done(c)
    /\ UNCHANGED <<inv, att, disk, swept, rough, events>>

\* No row for the XML: the PDF is read; none for a further PDF: it is attached.
ImportRetries(c) ==
    /\ At(c, "insert")
    /\ \/ req[c].kind = "xml" /\ req' = [req EXCEPT ![c].kind = "pdf"]
       \/ req[c].kind = "extra" /\ AttachesTo(c, req[c])
    /\ UNCHANGED <<inv, att, disk, log, swept, rough, events>>

ImportSave(c) ==
    /\ At(c, "pdf")
    /\ \E f \in Files, h \in Hashes, kind \in {"xml", "pdf"} :
         /\ disk[f] = "unused"
         /\ disk' = Stored(f)
         /\ req' = [req EXCEPT ![c] = [NoReq EXCEPT !.pc = "insert", !.kind = kind, !.file = f, !.hash = h]]
    /\ UNCHANGED <<inv, att, log, swept, rough, events>>

\* Another PDF of the message: an invoice, or an attachment of the first one.
ImportExtra(c) ==
    /\ At(c, "extras")
    /\ \E f \in Files, h \in Hashes, asInvoice \in BOOLEAN :
         /\ disk[f] = "unused"
         /\ disk' = Stored(f)
         /\ LET extra == [req[c] EXCEPT !.pc = "insert", !.kind = "extra", !.file = f, !.hash = h]
            IN  IF asInvoice THEN req' = [req EXCEPT ![c] = extra] ELSE AttachesTo(c, extra)
    /\ UNCHANGED <<inv, att, log, swept, rough, events>>

ImportFinish(c) ==
    /\ At(c, "extras")
    /\ log' = [status |-> "parsed", ref |-> req[c].main]
    /\ Done(c)
    /\ UNCHANGED <<inv, att, disk, swept, rough, events>>

\* The process dies; requests are lost, recognition is queued again later.
Crash ==
    /\ Happens
    /\ req' = [c \in Clients |-> NoReq] /\ swept' = {}
    /\ rough' = TRUE
    /\ UNCHANGED <<inv, att, disk, log>>

------------------------------------------------------------------------------
\* The handlers of several files repeat these for one file after the other.
UploadStep(c) == UploadSave(c) \/ UploadFind(c) \/ UploadFails(c)
AsyncStep(c) ==
    \/ AsyncSave(c) \/ AsyncFind(c) \/ UploadStat(c) \/ UploadRepoint(c) \/ UploadInsert(c)
    \/ UploadRepointUnread(c)
CreateStep(c) == CreateInsert(c) \/ Look(c) \/ Mark(c) \/ CreateUnmarked(c)
ParseStep(c) == ParseRead(c) \/ ParseWrite(c)
ConfirmStep(c) ==
    \/ ConfirmRead(c) \/ ConfirmHash(c) \/ ConfirmNumber(c) \/ ConfirmStatus(c) \/ ConfirmWrite(c)
RemovalStep(c) ==
    \/ DeleteRead(c) \/ DeleteCommit(c) \/ RemoveFiles(c) \/ DeleteAttachment(c)
    \/ TripPreview(c) \/ TripCommit(c) \/ TripRefused(c)
AttachStep(c) == AttachSave(c) \/ AttachCount(c) \/ AttachInsert(c) \/ AttachFails(c)
ImportStep(c) ==
    \/ ImportRead(c) \/ ImportParsing(c) \/ ImportFails(c) \/ ImportFetch(c)
    \/ ImportNoPdf(c) \/ ImportNoInvoice(c) \/ ImportSave(c)
    \/ ImportRetries(c) \/ ImportExtra(c) \/ ImportFinish(c)

Next ==
    \/ \E c \in Clients :
         \/ UploadStep(c) \/ AsyncStep(c) \/ CreateStep(c) \/ ParseStep(c) \/ ConfirmStep(c)
         \/ RemovalStep(c) \/ AttachStep(c) \/ ImportStep(c)
    \/ EditInvoice \/ SweepRows \/ SweepFiles \/ Crash
    \/ \E r \in Rows : Expire(r)

Spec == Init /\ [][Next]_vars

------------------------------------------------------------------------------
(* Properties.                                                              *)

\* One uploaded file becomes at most one invoice, however uploads and
\* confirmations interleave (the "hard block" of InvoiceService.Update).
\* What a message brings is saved without that check and does not count.
OneInvoicePerUpload ==
    \A i, j \in Rows :
        /\ inv[i].life = "saved" /\ ~inv[i].imported
        /\ inv[j].life = "saved" /\ ~inv[j].imported
        /\ inv[i].hash = inv[j].hash
        => i = j

\* A confirmation is as good as one step, though it looks up the content, the
\* number and the mark and writes in four statements: the invoices are rows as
\* UploadLifecycle has them, whatever falls between.
Document(r) ==
    CASE inv[r].life = "unborn" -> [life |-> "absent", content |-> None]
      [] inv[r].life = "gone"   -> [life |-> "gone", content |-> None]
      [] Live(r)                -> [life |-> inv[r].life,
                                    content |-> IF inv[r].imported THEN None ELSE inv[r].hash]
Uploads == INSTANCE UploadLifecycle
             WITH Contents <- Hashes, documents <- [r \in Rows |-> Document(r)]
Lifecycle == Uploads!Spec

\* Two imports of one invoice number do not both go unnoticed: each inserts
\* its row before it looks for the other's (CreateFromExtracted, Create).
Unmarked(r) == inv[r].life = "saved" /\ inv[r].asMade /\ inv[r].dedup = "ok"
               /\ ~\E c \in Clients : req[c].row = r /\ req[c].pc \in {"look", "mark"}
TwinsAreNoticed ==
    ~rough => \A i, j \in Rows :
        Unmarked(i) /\ Unmarked(j) /\ inv[i].number = inv[j].number /\ inv[i].number # None => i = j

\* A stored file is taken away only when no row has it, whatever overlaps: a
\* deletion, the sweeper, a reused draft, a discarded upload.  The deletion of
\* a trip, whose list of files is older than its transaction, is the exception,
\* and statements that fail are.
Holders(f) == {r \in Rows : Live(r) /\ inv[r].file = f}
Attached(f) == {a \in Atts : att[a].life = "live" /\ att[a].file = f}
OnlyTripsStrand ==
    [][~rough' /\ (\A c \in Clients : At(c, "tripfiles") => req'[c] = req[c]) =>
         \A f \in Files : disk[f] = "there" /\ disk'[f] = "removed" =>
             Holders(f)' = {} /\ Attached(f)' = {}]_vars

\* While a log says "parsing" somebody parses it: no way out of the import
\* forgets to say how it went.
ParsingIsHeld ==
    log.status = "parsing" /\ ~rough =>
        \E c \in Clients : \/ req[c].pc \in {"fetch", "pdf", "extras"}
                           \/ req[c].kind \in {"xml", "pdf", "extra"}
=============================================================================
