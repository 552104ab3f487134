---------------------------- MODULE InvoiceProofs ----------------------------
(* Proofs about InvoiceIntake, for any number of invoices, attachments,     *)
(* files, contents, numbers and overlapping requests.                       *)
EXTENDS InvoiceIntake, TLAPS

-----------------------------------------------------------------------------
(* Types, and what a request has in hand. *)

Imports == {"xml", "pdf", "extra"}

\* A request that holds a new file, or is about to attach it.
Holding == {"find", "stat", "repoint", "insert", "count", "attach"}

\* What makes sense at each step.
Fits(q) ==
    /\ q.pc = "idle" => q = NoReq
    /\ q.kind \in {"xml", "pdf"} => q.pc \in {"insert", "look", "mark"}
    /\ q.kind = "extra" => q.pc \in {"insert", "look", "mark", "count", "attach"}
    /\ q.kind = "task" => q.pc \in {"parse", "look", "mark"}
    /\ q.pc = "find" => q.kind \in {"sync", "async"}
    /\ q.pc \in {"stat", "repoint"} => q.kind = "async"
    /\ q.pc = "insert" => q.kind \in {"sync", "async"} \cup Imports
    /\ q.pc \in {"look", "mark"} => q.kind \in {"sync", "task"} \cup Imports
    /\ q.pc \in {"count", "attach"} => q.kind \in {"manual", "extra"}
    /\ q.pc = "mark" /\ q.kind # "task" => q.mark = "suspected"
    /\ q.pc \in Holding \/ q.kind \in Imports => q.file \in Files /\ q.hash \in Hashes
    /\ q.pc \in {"count", "attach", "trip"} => q.row \in Rows

\* The row of a request that works on it has been inserted.
OnRow == {"stat", "repoint", "look", "mark", "parse", "hash", "number", "status", "confirm", "delete"}
Sees(q) == q.pc \in OnRow => q.row \in Rows /\ inv[q.row].life # "unborn"

RequestsFit == \A c \in Clients : Fits(req[c]) /\ Sees(req[c])

\* An attachment has its file and its invoice.
AttsFit == \A a \in Atts : att[a].life # "unborn" => att[a].file \in Files /\ att[a].inv \in Rows
Typed == TypeOK /\ RequestsFit /\ AttsFit

-----------------------------------------------------------------------------
(* One invoice of an upload. *)

\* A confirmation goes by the content its row has had from the beginning.
Confirming == {"number", "status", "confirm"}
HeldHash ==
    \A c \in Clients : req[c].pc \in {"hash"} \cup Confirming => req[c].hash = inv[req[c].row].hash

\* Confirmed, or past the look-up of the content.
Cleared(r) ==
    \/ inv[r].life = "saved"
    \/ \E c \in Clients : req[c].pc \in Confirming /\ req[c].row = r

OneCleared ==
    \A i, j \in Rows :
        /\ Live(i) /\ ~inv[i].imported /\ Cleared(i)
        /\ Live(j) /\ ~inv[j].imported /\ Cleared(j)
        /\ inv[i].hash = inv[j].hash
        => i = j

UploadInv == Typed /\ HeldHash /\ OneCleared

-----------------------------------------------------------------------------
(* Twins of one number. *)

\* Only what was imported is as it was made, and no task is about it.
AsMadeIsImported ==
    /\ \A r \in Rows : inv[r].asMade => inv[r].imported /\ inv[r].life \in {"saved", "gone"}
    /\ \A c \in Clients : req[c].kind = "task" => ~inv[req[c].row].imported

\* Who has made a row and looks for others of its number.
Looking(c, r) == req[c].pc \in {"look", "mark"} /\ req[c].kind # "task" /\ req[c].row = r
LooksByNumber == \A c \in Clients, r \in Rows : Looking(c, r) /\ inv[r].asMade => req[c].num = inv[r].number

\* As the import has made it, and nothing is known of a twin.
Plain(r) == inv[r].life = "saved" /\ inv[r].asMade /\ inv[r].dedup = "ok"
TwinsArePending ==
    ~rough => \A i, j \in Rows :
        Plain(i) /\ Plain(j) /\ inv[i].number = inv[j].number /\ inv[i].number # None /\ i # j
          => \E c \in Clients : Looking(c, i) \/ Looking(c, j)

TwinInv == Typed /\ AsMadeIsImported /\ LooksByNumber /\ TwinsArePending

-----------------------------------------------------------------------------
(* Files. *)

Own    == [r \in Rows |-> IF Live(r) THEN inv[r].file ELSE None]
AttOwn == [a \in Atts |-> IF att[a].life = "live" THEN att[a].file ELSE None]
Hand   == [c \in Clients |-> IF req[c].pc \in Holding THEN req[c].file ELSE None]
\* What is removed without a further look, and what a deletion is going to remove.
Doomed == swept \cup UNION {req[c].todo : c \in {b \in Clients : req[b].pc = "files"}}
Listed == [c \in Clients |-> IF req[c].pc = "delete" THEN req[c].todo ELSE {}]

\* f is nobody's.
Free(f, own, ao, hand) ==
    /\ \A r \in Rows : own[r] # f
    /\ \A a \in Atts : ao[a] # f
    /\ \A c \in Clients : hand[c] # f

\* f is at most the row's, or one of its attachments'.
MostlyOf(f, r, own, ao, hand, of) ==
    /\ \A q \in Rows : own[q] = f => q = r
    /\ \A a \in Atts : ao[a] = f => of[a].inv = r
    /\ \A c \in Clients : hand[c] # f

NamesTaken(own, ao, hand, doom, list, dk) ==
    /\ \A r \in Rows : own[r] # None => dk[own[r]] # "unused"
    /\ \A a \in Atts : ao[a] # None => dk[ao[a]] # "unused"
    /\ \A c \in Clients : hand[c] # None => dk[hand[c]] # "unused"
    /\ \A f \in doom : dk[f] # "unused"
    /\ \A c \in Clients : \A f \in list[c] : dk[f] # "unused"

ClaimsApart(own, ao, hand) ==
    /\ \A q, r \in Rows : own[q] # None /\ own[q] = own[r] => q = r
    /\ \A a, b \in Atts : ao[a] # None /\ ao[a] = ao[b] => a = b
    /\ \A b, c \in Clients : hand[b] # None /\ hand[b] = hand[c] => b = c
    /\ \A r \in Rows, a \in Atts : own[r] # None => ao[a] # own[r]
    /\ \A c \in Clients : hand[c] # None =>
          (\A r \in Rows : own[r] # hand[c]) /\ (\A a \in Atts : ao[a] # hand[c])

Sound(own, ao, hand, doom, list, dk, rq, of) ==
    /\ NamesTaken(own, ao, hand, doom, list, dk)
    /\ ClaimsApart(own, ao, hand)
    /\ \A f \in doom : Free(f, own, ao, hand)
    /\ \A c \in Clients : \A f \in list[c] : MostlyOf(f, rq[c].row, own, ao, hand, of)

FilesAreApart == ~rough => Sound(Own, AttOwn, Hand, Doomed, Listed, disk, req, att)
FileInv == Typed /\ FilesAreApart

-----------------------------------------------------------------------------
(* Types are kept. *)

\* What TypeOK says of the rows.
RowsFit ==
    /\ inv \in [Rows -> InvoiceRow]
    /\ \A r \in Rows : inv[r].life # "unborn" => inv[r].file # None /\ inv[r].hash # None
    /\ \A r \in Rows : inv[r].life = "draft" => ~inv[r].imported

\* Rows that were inserted stay so.
Onwards == \A r \in Rows : inv[r].life # "unborn" => inv'[r].life # "unborn"

RestFits ==
    /\ att \in [Atts -> AttRow]
    /\ disk \in [Files -> {"unused", "there", "removed"}]
    /\ log \in [status: {"received", "parsing", "parsed", "error"}, ref: Rows \cup {None}]
    /\ swept \subseteq Files
    /\ rough \in BOOLEAN /\ events \in 0 .. MaxEvents

LEMMA TypeParts == TypeOK <=> RowsFit /\ RestFits /\ req \in [Clients -> Request]
BY DEF TypeOK, RowsFit, RestFits

LEMMA TypePartsNext == RowsFit' /\ RestFits' /\ (req \in [Clients -> Request])' => TypeOK'
BY DEF TypeOK, RowsFit, RestFits

LEMMA NoReqFits == NoReq \in Request /\ Fits(NoReq) /\ NoReq.pc = "idle" /\ NoReq.kind = "none"
BY DEF NoReq, Request, Points, Kinds, Marks, Fits, Holding, Imports

\* One request goes on.
Turn(c, q) == q \in Request /\ Fits(q) /\ req' = [req EXCEPT ![c] = q]

LEMMA TurnFits ==
    ASSUME Typed, Onwards, NEW c \in Clients, NEW q, Turn(c, q),
           q.pc \in OnRow => q.row \in Rows /\ inv'[q.row].life # "unborn"
    PROVE  (req \in [Clients -> Request])' /\ RequestsFit'
BY DEF Typed, TypeOK, RequestsFit, Sees, Onwards, Turn

LEMMA RowWritten ==
    ASSUME RowsFit, NEW r \in Rows, NEW x \in InvoiceRow, inv' = [inv EXCEPT ![r] = x],
           x.life # "unborn", x.file # None, x.hash # None, x.life = "draft" => ~x.imported
    PROVE  RowsFit' /\ Onwards /\ inv'[r] = x
BY DEF RowsFit, Onwards

LEMMA RowsAlone == ASSUME RowsFit, UNCHANGED inv PROVE RowsFit' /\ Onwards
BY DEF RowsFit, Onwards

LEMMA StoredThere == ASSUME Typed, NEW f \in Files, disk' = Stored(f) PROVE disk'[f] = "there"
BY DEF Stored, Typed, TypeOK

LEMMA DiskFits ==
    ASSUME disk \in [Files -> {"unused", "there", "removed"}]
    PROVE  /\ \A fs : Without(fs) \in [Files -> {"unused", "there", "removed"}]
           /\ \A f \in Files : Stored(f) \in [Files -> {"unused", "there", "removed"}]
BY DEF Without, Stored

\* The steps a request takes without a change of what it has in hand.
Same(p, q) ==
    /\ p.kind = q.kind /\ p.row = q.row /\ p.main = q.main /\ p.made = q.made /\ p.file = q.file
    /\ p.hash = q.hash /\ p.num = q.num /\ p.force = q.force /\ p.mark = q.mark /\ p.todo = q.todo

LEMMA GoesShape ==
    ASSUME req \in [Clients -> Request], NEW c \in Clients, NEW pc \in Points, Goes(c, pc)
    PROVE  \E q \in Request : req' = [req EXCEPT ![c] = q] /\ q.pc = pc /\ Same(q, req[c])
<1>. DEFINE q == [req[c] EXCEPT !.pc = pc]
<1>1. req[c] \in Request OBVIOUS
<1>2. q \in Request /\ q.pc = pc /\ Same(q, req[c]) BY <1>1 DEF Request, Same
<1>3. req' = [req EXCEPT ![c] = q] BY DEF Goes
<1>. QED BY <1>2, <1>3

LEMMA DoneShape == ASSUME NEW c, Done(c) PROVE Turn(c, NoReq)
BY NoReqFits DEF Done, Turn

LEMMA CreatedShape ==
    ASSUME Typed, NEW c \in Clients, Created(c), req[c].row \in Rows
    PROVE  \E q : /\ Turn(c, q) /\ q.pc \in {"idle", "extras"} /\ q.kind = "none"
                  /\ q.pc = "idle" <=> req[c].kind \notin Imports
<1>0. req[c] \in Request BY DEF Typed, TypeOK
<1>1. CASE req[c].kind \in Imports
  <2>. DEFINE q == [NoReq EXCEPT !.pc = "extras", !.made = req[c].made \cup {req[c].row},
                                 !.main = IF req[c].main = None THEN req[c].row ELSE req[c].main]
  <2>0. /\ req[c].made \cup {req[c].row} \in SUBSET Rows
        /\ (IF req[c].main = None THEN req[c].row ELSE req[c].main) \in Rows \cup {None}
    BY <1>0 DEF Request
  <2>1. q \in Request /\ q.pc = "extras" /\ q.kind = "none"
    BY <2>0 DEF NoReq, Request, Points, Kinds, Marks
  <2>2. req' = [req EXCEPT ![c] = q] BY <1>1 DEF Created, Imports
  <2>. HIDE DEF q
  <2>3. Fits(q) BY <2>1 DEF Fits, Holding, Imports
  <2>. QED BY <1>1, <2>1, <2>2, <2>3 DEF Turn
<1>2. CASE req[c].kind \notin Imports
  BY <1>2, DoneShape, NoReqFits DEF Created, Imports
<1>. QED BY <1>1, <1>2

LEMMA AttachesShape ==
    ASSUME NEW c \in Clients, NEW to \in Request, to.kind = "extra", to.file \in Files, to.hash \in Hashes,
           AttachesTo(c, to)
    PROVE  \E q : /\ Turn(c, q)
                  /\ \/ q.pc = "count" /\ q.kind = "extra" /\ q.file = to.file /\ q.row \in Rows
                     \/ q.pc = "extras" /\ q.kind = "none"
<1>1. ASSUME NEW r \in to.made, req' = [req EXCEPT ![c] = [to EXCEPT !.pc = "count", !.row = r]]
      PROVE  \E q : Turn(c, q) /\ q.pc = "count" /\ q.kind = "extra" /\ q.file = to.file /\ q.row \in Rows
  <2>. DEFINE q == [to EXCEPT !.pc = "count", !.row = r]
  <2>1. r \in Rows BY DEF Request
  <2>2. q \in Request /\ q.pc = "count" /\ q.kind = "extra" /\ q.file = to.file /\ q.row = r /\ q.hash = to.hash
    BY <2>1 DEF Request, Points
  <2>3. req' = [req EXCEPT ![c] = q] BY <1>1
  <2>. HIDE DEF q
  <2>4. Fits(q) BY <2>1, <2>2 DEF Fits, Holding, Imports
  <2>. QED BY <2>1, <2>2, <2>3, <2>4 DEF Turn
<1>2. ASSUME req' = [req EXCEPT ![c] = [NoReq EXCEPT !.pc = "extras", !.main = to.main, !.made = to.made]]
      PROVE  \E q : Turn(c, q) /\ q.pc = "extras" /\ q.kind = "none"
  <2>. DEFINE q == [NoReq EXCEPT !.pc = "extras", !.main = to.main, !.made = to.made]
  <2>1. q \in Request /\ q.pc = "extras" /\ q.kind = "none" BY DEF NoReq, Request, Points, Kinds, Marks
  <2>2. req' = [req EXCEPT ![c] = q] BY <1>2
  <2>. HIDE DEF q
  <2>3. Fits(q) BY <2>1 DEF Fits, Holding, Imports
  <2>. QED BY <2>1, <2>2, <2>3 DEF Turn
<1>. QED BY <1>1, <1>2 DEF AttachesTo

-----------------------------------------------------------------------------
(* What a request takes from one step to the next. *)

Parses(q) == q.pc \in {"fetch", "pdf", "extras"} \/ q.kind \in Imports
Looks(q) == q.pc \in {"look", "mark"} /\ q.kind # "task"

Carries(p, q) ==
    /\ q.pc \in OnRow => q.row \in Rows /\ inv'[q.row].life # "unborn"
    /\ q.pc = "hash" => q.hash = inv[q.row].hash /\ Live(q.row)
    /\ q.pc \in Confirming =>
          /\ p.pc \in {"hash"} \cup Confirming /\ q.row = p.row /\ q.hash = p.hash
          /\ p.pc = "hash" => SameHash(p.hash, p.row) = {}
    /\ Looks(q) =>
          \/ Looks(p) /\ q.row = p.row /\ q.num = p.num
          \/ q.row \in Rows /\ inv[q.row].life = "unborn" /\ inv'[q.row].number = q.num
    /\ q.kind = "task" =>
          \/ p.kind = "task" /\ q.row = p.row
          \/ q.row \in Rows /\ inv[q.row].life # "unborn" /\ ~inv[q.row].imported
    /\ q.pc \in Holding => \/ p.pc \in Holding /\ q.file = p.file
                           \/ disk[q.file] = "unused" /\ disk'[q.file] = "there"
                           \/ rough'
    /\ q.pc = "delete" => \E c \in Clients : DeleteRead(c)
    /\ q.pc = "files" => \E c \in Clients : DeleteCommit(c) \/ DeleteAttachment(c)
    /\ Parses(p) => Parses(q) \/ log'.status # "parsing" \/ rough'

Proceeds(c) == \E q : Turn(c, q) /\ Carries(req[c], q)

\* A request that ends, if it is not an import that says nothing.
LEMMA EndCarries ==
    ASSUME NEW c \in Clients, Done(c), Parses(req[c]) => log'.status # "parsing" \/ rough'
    PROVE  Proceeds(c)
<1>1. Carries(req[c], NoReq)
  BY NoReqFits DEF Carries, OnRow, Confirming, Looks, Holding
<1>. QED BY <1>1, DoneShape DEF Proceeds

LEMMA DiscardCarries ==
    ASSUME NEW c \in Clients, Discards(c), ~Parses(req[c]) \/ rough'
    PROVE  Proceeds(c)
BY EndCarries DEF Discards

\* What follows a row or an attachment.
LEMMA CreatedCarries ==
    ASSUME Typed, NEW c \in Clients, Created(c), req[c].row \in Rows,
           req[c].pc \in {"look", "mark", "count", "attach"}
    PROVE  Proceeds(c)
<1>1. PICK q : /\ Turn(c, q) /\ q.pc \in {"idle", "extras"} /\ q.kind = "none"
               /\ q.pc = "idle" <=> req[c].kind \notin Imports
  BY CreatedShape
<1>2. Parses(req[c]) => Parses(q) BY <1>1 DEF Parses
<1>3. Carries(req[c], q) BY <1>1, <1>2 DEF Carries, OnRow, Confirming, Looks, Holding
<1>. QED BY <1>1, <1>3 DEF Proceeds

\* A file is stored for an upload.
LEMMA SavedCarries ==
    ASSUME Typed, NEW c \in Clients, NEW kind \in {"sync", "async"}, FileSaved(c, kind)
    PROVE  Proceeds(c)
<1>0. req[c] \in Request /\ Fits(req[c]) /\ req \in [Clients -> Request]
  BY DEF Typed, TypeOK, RequestsFit
<1>1. PICK f \in Files, h \in Hashes :
        /\ disk[f] = "unused" /\ disk'[f] = "there"
        /\ req' = [req EXCEPT ![c] = [NoReq EXCEPT !.pc = "find", !.kind = kind, !.file = f, !.hash = h]]
  BY StoredThere DEF FileSaved
<1>. DEFINE q == [NoReq EXCEPT !.pc = "find", !.kind = kind, !.file = f, !.hash = h]
<1>2. q \in Request /\ q.pc = "find" /\ q.kind = kind /\ q.file = f /\ q.hash = h
  BY DEF NoReq, Request, Points, Kinds, Marks
<1>3. req' = [req EXCEPT ![c] = q] BY <1>1
<1>. HIDE DEF q
<1>4. Turn(c, q) BY <1>2, <1>3 DEF Turn, Fits, Holding, Imports
<1>5. ~Parses(req[c]) BY <1>0, NoReqFits DEF FileSaved, Begins, At, Fits, Parses, Imports
<1>6. Carries(req[c], q) BY <1>1, <1>2, <1>5 DEF Carries, OnRow, Confirming, Looks, Holding
<1>. QED BY <1>4, <1>6 DEF Proceeds

LEMMA UploadCarries == ASSUME Typed, NEW c \in Clients, UploadStep(c) PROVE Proceeds(c)
<1>0. req[c] \in Request /\ Fits(req[c]) /\ req \in [Clients -> Request]
  BY DEF Typed, TypeOK, RequestsFit
<1>1. CASE UploadSave(c) BY <1>1, SavedCarries DEF UploadSave
<1>2. CASE UploadFind(c)
  <2>1. req[c].pc = "find" /\ ~Parses(req[c]) BY <1>0, <1>2 DEF UploadFind, At, Parses, Imports
  <2>2. CASE Discards(c) BY <2>1, <2>2, DiscardCarries
  <2>3. CASE Goes(c, "insert")
    <3>1. PICK q \in Request : req' = [req EXCEPT ![c] = q] /\ q.pc = "insert" /\ Same(q, req[c])
      BY <1>0, <2>3, GoesShape DEF Points
    <3>2. Turn(c, q) BY <1>0, <1>2, <2>1, <3>1 DEF Turn, Fits, Same, Holding, Imports, UploadFind
    <3>3. Carries(req[c], q)
      BY <1>0, <1>2, <2>1, <3>1 DEF Carries, OnRow, Confirming, Looks, Holding, Same, UploadFind
    <3>. QED BY <3>2, <3>3 DEF Proceeds
  <2>. QED BY <1>2, <2>2, <2>3 DEF UploadFind
<1>3. CASE UploadFails(c)
  BY <1>0, <1>3, DiscardCarries DEF UploadFails, Fits, At, Parses, Imports
<1>. QED BY <1>1, <1>2, <1>3 DEF UploadStep

-----------------------------------------------------------------------------
(* What becomes of a row. *)

\* A statement of which only the row with id r is the object.
Develops(x, y, r) ==
    /\ x.life # "unborn" /\ y.life # "unborn"
    /\ y.hash = x.hash /\ y.imported = x.imported
    /\ y.file # x.file => \E c \in Clients : UploadRepoint(c) \/ UploadRepointUnread(c)
    /\ x.life = "saved" => y.life \in {"saved", "gone"}
    /\ x.life = "gone" => y.life = "gone"
    /\ y.life = "saved" /\ x.life # "saved" => \E c \in Clients : At(c, "confirm") /\ req[c].row = r
    /\ y.asMade =>
          /\ x.asMade /\ y.number = x.number /\ y.life \in {x.life, "gone"}
          /\ y.dedup # x.dedup => \E c \in Clients :
                At(c, "mark") /\ req[c].row = r /\ y.dedup = req[c].mark

Inserted(x, y) ==
    /\ x.life = "unborn"
    /\ y.file \in Files /\ y.hash \in Hashes
    /\ \/ y.life = "draft" /\ ~y.imported /\ ~y.asMade
       \/ y.life = "saved" /\ y.imported /\ y.asMade
    /\ \E c \in Clients : UploadInsert(c) \/ CreateInsert(c)

RowsGoOn ==
    \A r \in Rows : \/ inv'[r] = inv[r] \/ Inserted(inv[r], inv'[r])
                    \/ Develops(inv[r], inv'[r], r)

\* One row is written, or rows are deleted.
AtOnce ==
    \/ \E r \in Rows : \A q \in Rows \ {r} : inv'[q] = inv[q]
    \/ \A q \in Rows : inv'[q] # inv[q] => Live(q) /\ inv'[q].life = "gone"

RowsNext == RowsFit' /\ Onwards /\ RowsGoOn /\ AtOnce

\* One row is written.
LEMMA OneRow ==
    ASSUME Typed, NEW r \in Rows, NEW x \in InvoiceRow, inv' = [inv EXCEPT ![r] = x],
           x.file # None, x.hash # None, x.life = "draft" => ~x.imported,
           Inserted(inv[r], x) \/ Develops(inv[r], x, r)
    PROVE  RowsNext
<1>1. RowsFit BY DEF Typed, TypeOK, RowsFit
<1>2. x.life # "unborn" BY DEF Inserted, Develops
<1>3. RowsFit' /\ Onwards BY <1>1, <1>2, RowWritten
<1>4. RowsGoOn BY <1>1 DEF RowsFit, RowsGoOn
<1>5. AtOnce BY <1>1 DEF RowsFit, AtOnce
<1>. QED BY <1>3, <1>4, <1>5 DEF RowsNext

LEMMA NoRowWritten == ASSUME Typed, UNCHANGED inv PROVE RowsNext
BY DEF Typed, TypeOK, RowsFit, Onwards, RowsNext, RowsGoOn, AtOnce

\* An UPDATE of a row that may be gone.
LEMMA RowUpdated ==
    ASSUME Typed, NEW r \in Rows, NEW x \in InvoiceRow, inv' = Updated(r, x),
           Live(r) => /\ x.file # None /\ x.hash # None /\ (x.life = "draft" => ~x.imported)
                      /\ Develops(inv[r], x, r)
    PROVE  RowsNext
<1>1. CASE Live(r) BY <1>1, OneRow DEF Updated
<1>2. CASE ~Live(r) BY <1>2, NoRowWritten DEF Updated
<1>. QED BY <1>1, <1>2

\* What holds of a row that is there.
LEMMA LiveRow ==
    ASSUME Typed, NEW r \in Rows
    PROVE  /\ inv[r] \in InvoiceRow /\ inv[r].life \in Lives /\ inv[r].imported \in BOOLEAN
           /\ inv[r].life # "unborn" => inv[r].file # None /\ inv[r].hash # None
           /\ inv[r].life = "draft" => ~inv[r].imported
           /\ Live(r) => inv[r].life # "unborn" /\ inv[r].life # "gone"
BY DEF Typed, TypeOK, InvoiceRow, Live

LEMMA InsertedRow ==
    ASSUME Typed, NEW c \in Clients, At(c, "insert"), UploadInsert(c) \/ CreateInsert(c),
           NEW r \in Rows, inv[r].life = "unborn",
           NEW n \in Numbers \cup {None}, NEW life \in {"draft", "saved"},
           inv' = [inv EXCEPT ![r] = NewRow(c, life, n)]
    PROVE  RowsNext /\ inv'[r].life = life /\ inv'[r].number = n
<1>. DEFINE x == NewRow(c, life, n)
<1>0. req[c] \in Request /\ Fits(req[c]) BY DEF Typed, TypeOK, RequestsFit
<1>1. req[c].file \in Files /\ req[c].hash \in Hashes BY <1>0 DEF Fits, Holding, At
<1>2. /\ x \in InvoiceRow /\ x.life = life /\ x.file = req[c].file /\ x.hash = req[c].hash /\ x.number = n
      /\ x.imported = (life = "saved") /\ x.asMade = (life = "saved")
  BY <1>1 DEF NewRow, Unborn, InvoiceRow, Lives, Marks
<1>. HIDE DEF x
<1>3. Inserted(inv[r], x) BY <1>1, <1>2 DEF Inserted
<1>4. RowsNext BY <1>1, <1>2, <1>3, OneRow, NoneAssumption DEF x
<1>5. inv'[r] = x BY DEF Typed, TypeOK, x
<1>. QED BY <1>2, <1>4, <1>5

LEMMA RepointedRow ==
    ASSUME Typed, NEW c \in Clients, At(c, "repoint"), inv' = Repointed(c),
           UploadRepoint(c) \/ UploadRepointUnread(c)
    PROVE  RowsNext
<1>. DEFINE r == req[c].row
            x == [inv[r] EXCEPT !.file = req[c].file]
<1>0. r \in Rows /\ req[c].file \in Files BY DEF Typed, RequestsFit, Fits, Sees, At, OnRow, Holding
<1>1. CASE inv[r].life = "draft"
  <2>0. inv[r] \in InvoiceRow /\ inv[r].hash # None /\ ~inv[r].imported BY <1>0, <1>1, LiveRow
  <2>1. /\ x \in InvoiceRow /\ x.life = inv[r].life /\ x.hash = inv[r].hash /\ x.imported = inv[r].imported
        /\ x.file = req[c].file /\ x.asMade = inv[r].asMade /\ x.number = inv[r].number
        /\ x.dedup = inv[r].dedup
    BY <1>0, <2>0 DEF InvoiceRow
  <2>2. inv' = [inv EXCEPT ![r] = x] BY <1>1 DEF Repointed
  <2>. HIDE DEF x
  <2>3. Develops(inv[r], x, r) BY <1>1, <2>1 DEF Develops
  <2>. HIDE DEF r
  <2>. QED BY <1>0, <2>0, <2>1, <2>2, <2>3, OneRow, NoneAssumption
<1>2. CASE inv[r].life # "draft" BY <1>2, NoRowWritten DEF Repointed
<1>. QED BY <1>1, <1>2

LEMMA MarkedRow ==
    ASSUME Typed, NEW c \in Clients, Mark(c)
    PROVE  RowsNext
<1>. DEFINE r == req[c].row
            x == [inv[r] EXCEPT !.dedup = req[c].mark]
<1>0. r \in Rows /\ req[c].mark \in Marks /\ At(c, "mark")
  BY DEF Typed, TypeOK, RequestsFit, Sees, At, OnRow, Mark, Request
<1>1. inv[r] \in InvoiceRow /\ inv' = Updated(r, x) BY <1>0, LiveRow DEF Mark
<1>2. /\ x \in InvoiceRow /\ x.life = inv[r].life /\ x.hash = inv[r].hash /\ x.imported = inv[r].imported
      /\ x.file = inv[r].file /\ x.asMade = inv[r].asMade /\ x.number = inv[r].number
      /\ x.dedup = req[c].mark
  BY <1>0, <1>1 DEF InvoiceRow
<1>. HIDE DEF x
<1>3. Live(r) => Develops(inv[r], x, r) BY <1>0, <1>2, LiveRow DEF Develops
<1>. HIDE DEF r
<1>. QED BY <1>0, <1>1, <1>2, <1>3, LiveRow, RowUpdated

LEMMA ParsedRow ==
    ASSUME Typed, NEW r \in Rows, NEW n \in Numbers \cup {None}, inv' = Parsed(r, n)
    PROVE  RowsNext
<1>. DEFINE x == [inv[r] EXCEPT !.number = n, !.blob = TRUE, !.asMade = FALSE]
<1>1. inv[r] \in InvoiceRow /\ inv' = Updated(r, x) BY LiveRow DEF Parsed
<1>2. /\ x \in InvoiceRow /\ x.life = inv[r].life /\ x.hash = inv[r].hash /\ x.imported = inv[r].imported
      /\ x.file = inv[r].file /\ ~x.asMade
  BY <1>1 DEF InvoiceRow
<1>. HIDE DEF x
<1>3. Live(r) => Develops(inv[r], x, r) BY <1>2, LiveRow DEF Develops
<1>. QED BY <1>1, <1>2, <1>3, LiveRow, RowUpdated

LEMMA ConfirmedRow ==
    ASSUME Typed, NEW c \in Clients, ConfirmWrite(c)
    PROVE  RowsNext
<1>. DEFINE r == req[c].row
<1>0. r \in Rows /\ req[c].mark \in Marks /\ req[c].num \in Numbers \cup {None} /\ At(c, "confirm")
  BY DEF Typed, TypeOK, RequestsFit, Sees, At, OnRow, ConfirmWrite, Request
<1>1. PICK given \in BOOLEAN :
        inv' = Updated(r, [inv[r] EXCEPT !.life = "saved", !.dedup = req[c].mark, !.asMade = FALSE,
                             !.number = IF given /\ req[c].num # None THEN req[c].num ELSE @])
  BY DEF ConfirmWrite
<1>. DEFINE x == [inv[r] EXCEPT !.life = "saved", !.dedup = req[c].mark, !.asMade = FALSE,
                    !.number = IF given /\ req[c].num # None THEN req[c].num ELSE @]
<1>2. inv[r] \in InvoiceRow BY <1>0, LiveRow
<1>3. /\ x \in InvoiceRow /\ x.life = "saved" /\ x.hash = inv[r].hash /\ x.imported = inv[r].imported
      /\ x.file = inv[r].file /\ ~x.asMade
  BY <1>0, <1>2 DEF InvoiceRow, Lives
<1>4. inv' = Updated(r, x) BY <1>1
<1>. HIDE DEF x
<1>5. Live(r) => Develops(inv[r], x, r) BY <1>0, <1>3, LiveRow DEF Develops
<1>. HIDE DEF r
<1>. QED BY <1>0, <1>3, <1>4, <1>5, LiveRow, RowUpdated

LEMMA EditedRow == ASSUME Typed, EditInvoice PROVE RowsNext
<1>1. PICK r \in Rows, n \in Numbers : Live(r) /\ inv' = [inv EXCEPT ![r].number = n, ![r].asMade = FALSE]
  BY DEF EditInvoice
<1>. DEFINE x == [inv[r] EXCEPT !.number = n, !.asMade = FALSE]
<1>2. inv[r] \in InvoiceRow /\ inv[r].life # "unborn" BY <1>1, LiveRow
<1>3. /\ x \in InvoiceRow /\ x.life = inv[r].life /\ x.hash = inv[r].hash /\ x.imported = inv[r].imported
      /\ x.file = inv[r].file /\ ~x.asMade
  BY <1>2 DEF InvoiceRow
<1>4. inv' = [inv EXCEPT ![r] = x] BY <1>1, <1>2 DEF Typed, TypeOK
<1>. HIDE DEF x
<1>5. Develops(inv[r], x, r) BY <1>1, <1>3, LiveRow DEF Develops
<1>. QED BY <1>2, <1>3, <1>4, <1>5, LiveRow, OneRow

LEMMA ExpiredRow == ASSUME Typed, NEW r \in Rows, Expire(r) PROVE RowsNext
<1>. DEFINE x == [inv[r] EXCEPT !.old = TRUE]
<1>1. inv[r].life = "draft" /\ inv[r] \in InvoiceRow BY LiveRow DEF Expire
<1>2. /\ x \in InvoiceRow /\ x.life = "draft" /\ x.hash = inv[r].hash /\ x.imported = inv[r].imported
      /\ x.file = inv[r].file /\ x.asMade = inv[r].asMade /\ x.number = inv[r].number
      /\ x.dedup = inv[r].dedup
  BY <1>1 DEF InvoiceRow
<1>3. inv' = [inv EXCEPT ![r] = x] BY DEF Expire
<1>. HIDE DEF x
<1>4. Develops(inv[r], x, r) BY <1>1, <1>2 DEF Develops
<1>. QED BY <1>1, <1>2, <1>3, <1>4, LiveRow, OneRow

\* A row that is removed, with its blob or without.
LEMMA GoneRow ==
    ASSUME NEW x \in InvoiceRow, x.life \in {"draft", "saved"}, NEW y, NEW r,
           y \in {RowGone(x), [x EXCEPT !.life = "gone"]}
    PROVE  /\ y \in InvoiceRow /\ y.life = "gone" /\ y.file = x.file /\ y.hash = x.hash
           /\ Develops(x, y, r)
<1>1. /\ y \in InvoiceRow /\ y.life = "gone" /\ y.hash = x.hash /\ y.imported = x.imported
      /\ y.file = x.file /\ y.asMade = x.asMade /\ y.number = x.number /\ y.dedup = x.dedup
  BY DEF RowGone, InvoiceRow, Lives
<1>2. Develops(x, y, r) BY <1>1 DEF Develops
<1>. QED BY <1>1, <1>2

LEMMA DeletedRow == ASSUME Typed, NEW c \in Clients, DeleteCommit(c) PROVE RowsNext
<1>. DEFINE r == req[c].row
<1>0. r \in Rows BY DEF Typed, RequestsFit, Sees, At, OnRow, DeleteCommit
<1>1. CASE Live(r)
  <2>. DEFINE x == RowGone(inv[r])
  <2>1. inv[r] \in InvoiceRow /\ inv[r].life \in {"draft", "saved"} BY <1>0, <1>1, LiveRow DEF Live
  <2>2. x \in InvoiceRow /\ x.life = "gone" /\ x.file = inv[r].file /\ x.hash = inv[r].hash /\ Develops(inv[r], x, r)
    BY <2>1, GoneRow
  <2>3. inv' = [inv EXCEPT ![r] = x] BY <1>1 DEF DeleteCommit
  <2>. HIDE DEF x, r
  <2>. QED BY <1>0, <1>1, <2>1, <2>2, <2>3, LiveRow, OneRow
<1>2. CASE ~Live(r) BY <1>2, NoRowWritten DEF DeleteCommit
<1>. QED BY <1>1, <1>2

LEMMA TrippedRow == ASSUME Typed, NEW c \in Clients, TripCommit(c) PROVE RowsNext
<1>. DEFINE r == req[c].row
            x == [inv[r] EXCEPT !.life = "gone"]
<1>0. r \in Rows BY DEF Typed, RequestsFit, Fits, At, TripCommit
<1>1. CASE inv' = Updated(r, x) /\ Live(r)
  <2>1. inv[r] \in InvoiceRow /\ inv[r].life \in {"draft", "saved"} BY <1>0, <1>1, LiveRow DEF Live
  <2>2. x \in InvoiceRow /\ x.life = "gone" /\ x.file = inv[r].file /\ x.hash = inv[r].hash /\ Develops(inv[r], x, r)
    BY <2>1, GoneRow
  <2>. HIDE DEF x, r
  <2>. QED BY <1>0, <1>1, <2>1, <2>2, LiveRow, RowUpdated
<1>2. CASE UNCHANGED inv BY <1>2, NoRowWritten
<1>. QED BY <1>1, <1>2 DEF TripCommit, Updated

LEMMA SweptRows == ASSUME Typed, SweepRows PROVE RowsNext
<1>1. inv' = [r \in Rows |-> IF r \in Expired THEN RowGone(inv[r]) ELSE inv[r]] BY DEF SweepRows
<1>2. ASSUME NEW r \in Rows
      PROVE  /\ inv'[r] \in InvoiceRow
             /\ inv[r].life # "unborn" => inv'[r].life # "unborn"
             /\ inv'[r].life # "unborn" => inv'[r].file # None /\ inv'[r].hash # None
             /\ inv'[r].life = "draft" => ~inv'[r].imported
             /\ inv'[r] = inv[r] \/ Develops(inv[r], inv'[r], r)
  <2>1. CASE r \in Expired
    <3>1. inv'[r] = RowGone(inv[r]) BY <1>1, <2>1
    <3>2. inv[r] \in InvoiceRow /\ inv[r].life = "draft" /\ inv[r].file # None /\ inv[r].hash # None
      BY <2>1, LiveRow DEF Expired
    <3>. QED BY <3>1, <3>2, GoneRow
  <2>2. CASE r \notin Expired BY <1>1, <2>2, LiveRow
  <2>. QED BY <2>1, <2>2
<1>3. inv' \in [Rows -> InvoiceRow] BY <1>1, <1>2
<1>4. ASSUME NEW r \in Rows, inv'[r] # inv[r] PROVE Live(r) /\ inv'[r].life = "gone"
  <2>1. r \in Expired /\ inv'[r] = RowGone(inv[r]) BY <1>1, <1>4
  <2>2. inv[r] \in InvoiceRow /\ inv[r].life = "draft" BY <2>1, LiveRow DEF Expired
  <2>. QED BY <2>1, <2>2, GoneRow DEF Live
<1>. QED BY <1>2, <1>3, <1>4 DEF RowsNext, RowsFit, Onwards, RowsGoOn, AtOnce

\* Every step.
LEMMA RowsStep == ASSUME Typed, [Next]_vars PROVE RowsNext
<1>1. ASSUME UNCHANGED inv PROVE RowsNext BY <1>1, NoRowWritten
<1>2. ASSUME NEW c \in Clients, UploadStep(c) PROVE RowsNext
  BY <1>1, <1>2 DEF UploadStep, UploadSave, FileSaved, UploadFind, UploadFails
<1>3. ASSUME NEW c \in Clients, AsyncStep(c) PROVE RowsNext
  <2>1. CASE AsyncSave(c) \/ AsyncFind(c) \/ UploadStat(c)
    BY <1>1, <2>1 DEF AsyncSave, FileSaved, AsyncFind, UploadStat
  <2>2. CASE UploadRepoint(c) \/ UploadRepointUnread(c)
    BY <2>2, RepointedRow DEF UploadRepoint, UploadRepointUnread
  <2>3. CASE UploadInsert(c) BY <2>3, InsertedRow DEF UploadInsert
  <2>. QED BY <1>3, <2>1, <2>2, <2>3 DEF AsyncStep
<1>4. ASSUME NEW c \in Clients, CreateStep(c) PROVE RowsNext
  <2>1. CASE Look(c) \/ CreateUnmarked(c) BY <1>1, <2>1 DEF Look, CreateUnmarked
  <2>2. CASE CreateInsert(c)
    <3>1. PICK r \in Rows, n \in Numbers \cup {None} :
            /\ At(c, "insert") /\ inv[r].life = "unborn"
            /\ inv' = [inv EXCEPT ![r] = NewRow(c, IF req[c].kind = "sync" THEN "draft" ELSE "saved", n)]
      BY <2>2 DEF CreateInsert
    <3>2. CASE req[c].kind = "sync" BY <2>2, <3>1, <3>2, InsertedRow
    <3>3. CASE req[c].kind # "sync" BY <2>2, <3>1, <3>3, InsertedRow
    <3>. QED BY <3>2, <3>3
  <2>3. CASE Mark(c) BY <2>3, MarkedRow
  <2>. QED BY <1>4, <2>1, <2>2, <2>3 DEF CreateStep
<1>5. ASSUME NEW c \in Clients, ParseStep(c) PROVE RowsNext
  <2>1. CASE ParseRead(c) BY <1>1, <2>1 DEF ParseRead
  <2>2. CASE ParseWrite(c)
    <3>1. req[c].row \in Rows BY <2>2 DEF ParseWrite, Typed, RequestsFit, Sees, OnRow, At
    <3>2. inv[req[c].row].number \in Numbers \cup {None} BY <3>1, LiveRow DEF InvoiceRow
    <3>3. PICK n \in Numbers \cup {None} : inv' = Parsed(req[c].row, n)
      BY <2>2, <3>2 DEF ParseWrite
    <3>. QED BY <3>1, <3>3, ParsedRow
  <2>. QED BY <1>5, <2>1, <2>2 DEF ParseStep
<1>6. ASSUME NEW c \in Clients, ConfirmStep(c) PROVE RowsNext
  BY <1>1, <1>6, ConfirmedRow DEF ConfirmStep, ConfirmRead, ConfirmHash, ConfirmNumber, ConfirmStatus
<1>7. ASSUME NEW c \in Clients, RemovalStep(c) PROVE RowsNext
  BY <1>1, <1>7, DeletedRow, TrippedRow
     DEF RemovalStep, DeleteRead, RemoveFiles, DeleteAttachment, TripPreview, TripRefused
<1>8. ASSUME NEW c \in Clients, AttachStep(c) PROVE RowsNext
  BY <1>1, <1>8 DEF AttachStep, AttachSave, AttachCount, AttachInsert, AttachFails
<1>9. ASSUME NEW c \in Clients, ImportStep(c) PROVE RowsNext
  BY <1>1, <1>9
     DEF ImportStep, ImportRead, ImportParsing, ImportFails, ImportFetch, ImportNoPdf, ImportNoInvoice,
         ImportSave, ImportRetries, ImportExtra, ImportFinish
<1>10. CASE EditInvoice \/ SweepRows \/ SweepFiles \/ Crash \/ (\E r \in Rows : Expire(r))
  BY <1>1, <1>10, EditedRow, SweptRows, ExpiredRow DEF SweepFiles, Crash
<1>11. CASE UNCHANGED vars BY <1>1, <1>11 DEF vars
<1>. QED BY <1>2, <1>3, <1>4, <1>5, <1>6, <1>7, <1>8, <1>9, <1>10, <1>11 DEF Next

-----------------------------------------------------------------------------
(* Every request goes on as Carries says. *)

LEMMA ReqFacts ==
    ASSUME Typed, NEW c \in Clients
    PROVE  /\ req[c] \in Request /\ Fits(req[c]) /\ Sees(req[c]) /\ req \in [Clients -> Request]
           /\ req[c].pc \in Points /\ req[c].kind \in Kinds /\ req[c].num \in Numbers \cup {None}
           /\ At(c, "idle") => ~Parses(req[c])
BY DEF Typed, TypeOK, RequestsFit, Request, Fits, NoReq, At, Parses, Imports

LEMMA GoesCarries ==
    ASSUME Typed, NEW c \in Clients, NEW pc \in Points, Goes(c, pc),
           \A q \in Request : q.pc = pc /\ Same(q, req[c]) => Fits(q) /\ Carries(req[c], q)
    PROVE  Proceeds(c)
<1>1. PICK q \in Request : req' = [req EXCEPT ![c] = q] /\ q.pc = pc /\ Same(q, req[c])
  BY ReqFacts, GoesShape
<1>. QED BY <1>1 DEF Proceeds, Turn

LEMMA AsyncCarries == ASSUME Typed, RowsNext, NEW c \in Clients, AsyncStep(c) PROVE Proceeds(c)
<1>0. /\ req[c] \in Request /\ Fits(req[c]) /\ Sees(req[c]) /\ req \in [Clients -> Request]
      /\ Onwards
  BY ReqFacts DEF RowsNext
<1>1. CASE AsyncSave(c) BY <1>1, SavedCarries DEF AsyncSave
<1>2. CASE AsyncFind(c)
  <2>1. req[c].pc = "find" /\ req[c].kind = "async" /\ ~Parses(req[c])
    BY <1>0, <1>2 DEF AsyncFind, At, Parses, Imports
  <2>2. CASE Discards(c) BY <2>1, <2>2, DiscardCarries
  <2>3. CASE Goes(c, "insert")
    <3>1. \A q \in Request : q.pc = "insert" /\ Same(q, req[c]) => Fits(q) /\ Carries(req[c], q)
      BY <1>0, <2>1 DEF Fits, Same, Holding, Imports, Carries, OnRow, Confirming, Looks
    <3>. QED BY <2>3, <3>1, GoesCarries DEF Points
  <2>4. ASSUME NEW r \in SameHash(req[c].hash, None),
               req' = [req EXCEPT ![c].pc = "stat", ![c].row = r, ![c].todo = {inv[r].file}]
        PROVE  Proceeds(c)
    <3>. DEFINE q == [req[c] EXCEPT !.pc = "stat", !.row = r, !.todo = {inv[r].file}]
    <3>1. r \in Rows /\ inv[r].life # "unborn" /\ inv[r].file \in Files
      BY LiveRow DEF SameHash, Live, InvoiceRow
    <3>2. q \in Request /\ q.pc = "stat" /\ q.row = r /\ q.kind = "async" /\ q.file = req[c].file
          /\ q.hash = req[c].hash
      BY <1>0, <2>1, <3>1 DEF Request, Points
    <3>3. req' = [req EXCEPT ![c] = q] BY <1>0, <2>4
    <3>. HIDE DEF q
    <3>4. Turn(c, q) BY <1>0, <2>1, <3>2, <3>3 DEF Turn, Fits, Holding, Imports
    <3>5. Carries(req[c], q)
      BY <1>0, <2>1, <3>1, <3>2 DEF Onwards, Carries, OnRow, Confirming, Looks, Holding
    <3>. QED BY <3>4, <3>5 DEF Proceeds
  <2>. QED BY <1>2, <2>2, <2>3, <2>4 DEF AsyncFind
<1>3. CASE UploadStat(c)
  <2>1. req[c].pc = "stat" /\ req[c].kind = "async" /\ ~Parses(req[c])
    BY <1>0, <1>3 DEF UploadStat, At, Parses, Imports, Fits
  <2>2. CASE Discards(c) BY <2>1, <2>2, DiscardCarries
  <2>3. CASE req' = [req EXCEPT ![c].pc = "repoint", ![c].todo = {}]
    <3>. DEFINE q == [req[c] EXCEPT !.pc = "repoint", !.todo = {}]
    <3>2. q \in Request /\ q.pc = "repoint" /\ q.row = req[c].row /\ q.kind = "async"
          /\ q.file = req[c].file /\ q.hash = req[c].hash
      BY <1>0, <2>1 DEF Request, Points
    <3>3. req' = [req EXCEPT ![c] = q] BY <1>0, <2>3
    <3>. HIDE DEF q
    <3>4. Turn(c, q) BY <1>0, <2>1, <3>2, <3>3 DEF Turn, Fits, Holding, Imports
    <3>5. Carries(req[c], q)
      BY <1>0, <2>1, <3>2 DEF Sees, Onwards, Carries, OnRow, Confirming, Looks, Holding
    <3>. QED BY <3>4, <3>5 DEF Proceeds
  <2>. QED BY <1>3, <2>2, <2>3 DEF UploadStat
<1>4. CASE UploadRepoint(c) \/ UploadRepointUnread(c)
  <2>1. ~Parses(req[c]) /\ Done(c)
    BY <1>0, <1>4 DEF UploadRepoint, UploadRepointUnread, Discards, At, Parses, Imports, Fits
  <2>. QED BY <2>1, EndCarries
<1>5. CASE UploadInsert(c)
  <2>1. ~Parses(req[c]) /\ Done(c) BY <1>0, <1>5 DEF UploadInsert, At, Parses, Imports, Fits
  <2>. QED BY <2>1, EndCarries
<1>. QED BY <1>1, <1>2, <1>3, <1>4, <1>5 DEF AsyncStep

LEMMA CreateInsertCarries == ASSUME Typed, NEW c \in Clients, CreateInsert(c) PROVE Proceeds(c)
<1>0. req[c] \in Request /\ Fits(req[c]) /\ req \in [Clients -> Request] BY ReqFacts
<1>1. PICK r \in Rows, n \in Numbers \cup {None} :
        /\ At(c, "insert") /\ inv[r].life = "unborn"
        /\ inv' = [inv EXCEPT ![r] = NewRow(c, IF req[c].kind = "sync" THEN "draft" ELSE "saved", n)]
        /\ req' = [req EXCEPT ![c].pc = "look", ![c].row = r, ![c].num = n]
  BY DEF CreateInsert
<1>2. inv'[r].life # "unborn" /\ inv'[r].number = n
  <2>1. PICK life \in {"draft", "saved"} : inv' = [inv EXCEPT ![r] = NewRow(c, life, n)] BY <1>1
  <2>2. At(c, "insert") /\ inv[r].life = "unborn" /\ life \in {"draft", "saved"} BY <1>1
  <2>4. inv'[r].life = life BY <2>1, <2>2, InsertedRow
  <2>5. inv'[r] = NewRow(c, life, n) BY <2>1 DEF Typed, TypeOK
  <2>6. inv'[r].number = n BY <2>5 DEF NewRow, Unborn
  <2>. QED BY <2>4, <2>6
<1>. DEFINE q == [req[c] EXCEPT !.pc = "look", !.row = r, !.num = n]
<1>3. /\ q \in Request /\ q.pc = "look" /\ q.row = r /\ q.num = n /\ q.kind = req[c].kind
      /\ q.file = req[c].file /\ q.hash = req[c].hash
  BY <1>0 DEF Request, Points
<1>4. req' = [req EXCEPT ![c] = q] BY <1>0, <1>1
<1>. HIDE DEF q
<1>5. req[c].kind \in {"sync"} \cup Imports BY <1>0 DEF CreateInsert, At, Fits
<1>6. Turn(c, q) BY <1>0, <1>3, <1>4, <1>5 DEF Turn, Fits, Holding, Imports
<1>7. Parses(req[c]) => Parses(q) BY <1>3 DEF CreateInsert, At, Parses
<1>8. Carries(req[c], q) BY <1>1, <1>2, <1>3, <1>5, <1>7 DEF Carries, OnRow, Confirming, Looks, Holding, Imports
<1>. QED BY <1>6, <1>8 DEF Proceeds

LEMMA LookCarries == ASSUME Typed, RowsNext, NEW c \in Clients, Look(c) PROVE Proceeds(c)
<1>0. /\ req[c] \in Request /\ Fits(req[c]) /\ Sees(req[c]) /\ req \in [Clients -> Request] /\ Onwards
      /\ req[c].pc = "look"
  BY ReqFacts DEF RowsNext, Look, At
<1>1. req[c].row \in Rows BY <1>0 DEF Sees, OnRow
<1>2. CASE Created(c) BY <1>0, <1>1, <1>2, CreatedCarries
<1>3. ASSUME NEW mark \in {"suspected", "ok"}, mark = "ok" => req[c].kind = "task",
             req' = [req EXCEPT ![c].pc = "mark", ![c].mark = mark]
      PROVE  Proceeds(c)
  <2>. DEFINE q == [req[c] EXCEPT !.pc = "mark", !.mark = mark]
  <2>1. /\ q \in Request /\ q.pc = "mark" /\ q.mark = mark /\ q.row = req[c].row /\ q.num = req[c].num
        /\ q.kind = req[c].kind /\ q.file = req[c].file /\ q.hash = req[c].hash
    BY <1>0 DEF Request, Points, Marks
  <2>2. req' = [req EXCEPT ![c] = q] BY <1>0, <1>3
  <2>. HIDE DEF q
  <2>3. Turn(c, q) BY <1>0, <1>3, <2>1, <2>2 DEF Turn, Fits, Holding, Imports
  <2>4. Parses(req[c]) => Parses(q) BY <1>0, <2>1 DEF Parses
  <2>5. Carries(req[c], q)
    BY <1>0, <2>1, <2>4 DEF Sees, Onwards, Carries, OnRow, Confirming, Looks, Holding
  <2>. QED BY <2>3, <2>5 DEF Proceeds
<1>. QED BY <1>2, <1>3 DEF Look

LEMMA MarkCarries == ASSUME Typed, NEW c \in Clients, Mark(c) PROVE Proceeds(c)
<1>1. req[c].pc = "mark" /\ Created(c) /\ Sees(req[c]) BY ReqFacts DEF Mark, At
<1>2. req[c].row \in Rows BY <1>1 DEF Sees, OnRow
<1>. QED BY <1>1, <1>2, CreatedCarries

\* A statement fails behind the INSERT.
LEMMA UnmarkedCarries == ASSUME Typed, RowsNext, NEW c \in Clients, CreateUnmarked(c) PROVE Proceeds(c)
<1>0. /\ req[c] \in Request /\ Fits(req[c]) /\ Sees(req[c]) /\ req \in [Clients -> Request]
      /\ req[c].pc \in {"look", "mark"} /\ rough'
  BY ReqFacts DEF CreateUnmarked
<1>1. req[c].kind \in {"sync", "task", "xml", "pdf", "extra"}
  BY <1>0 DEF Fits, Imports
<1>2. CASE Done(c) BY <1>0, <1>2, EndCarries
<1>3. CASE Discards(c) BY <1>0, <1>3, DiscardCarries
<1>4. CASE req[c].kind = "xml"
  <2>1. PICK kind \in {"xml", "pdf"} :
          req' = [req EXCEPT ![c] = [@ EXCEPT !.pc = "insert", !.kind = kind, !.row = None,
                                              !.num = None, !.mark = "ok"]]
    BY <1>4 DEF CreateUnmarked
  <2>. DEFINE q == [req[c] EXCEPT !.pc = "insert", !.kind = kind, !.row = None, !.num = None, !.mark = "ok"]
  <2>2. q \in Request /\ q.pc = "insert" /\ q.kind = kind /\ q.file = req[c].file /\ q.hash = req[c].hash
    <3>1. req[c] \in Request /\ kind \in Kinds /\ "insert" \in Points /\ "ok" \in Marks
      BY <1>0 DEF Kinds, Points, Marks
    <3>. QED BY <3>1 DEF Request
  <2>3. req' = [req EXCEPT ![c] = q] BY <1>0, <2>1
  <2>. HIDE DEF q
  <2>4. Turn(c, q) BY <1>0, <1>4, <2>2, <2>3 DEF Turn, Fits, Holding, Imports
  <2>5. Carries(req[c], q) BY <1>0, <2>2 DEF Carries, OnRow, Confirming, Looks, Holding
  <2>. QED BY <2>4, <2>5 DEF Proceeds
<1>5. CASE req[c].kind = "extra"
  <2>. DEFINE to == [req[c] EXCEPT !.num = None, !.mark = "ok"]
  <2>1. to \in Request /\ to.kind = "extra" /\ to.file = req[c].file /\ to.hash = req[c].hash
    BY <1>0, <1>5 DEF Request, Marks
  <2>0. req[c].file \in Files /\ req[c].hash \in Hashes BY <1>0, <1>5 DEF Fits, Imports
  <2>2. AttachesTo(c, to) BY <1>5 DEF CreateUnmarked
  <2>. HIDE DEF to
  <2>3. to.file \in Files /\ to.hash \in Hashes BY <2>0, <2>1
  <2>4. PICK q : /\ Turn(c, q)
                 /\ \/ q.pc = "count" /\ q.kind = "extra" /\ q.file = to.file /\ q.row \in Rows
                    \/ q.pc = "extras" /\ q.kind = "none"
    BY <2>1, <2>2, <2>3, AttachesShape
  <2>5. Carries(req[c], q) BY <1>0, <2>4 DEF Carries, OnRow, Confirming, Looks, Holding
  <2>. QED BY <2>4, <2>5 DEF Proceeds
<1>. QED BY <1>1, <1>2, <1>3, <1>4, <1>5 DEF CreateUnmarked

LEMMA ParseCarries == ASSUME Typed, RowsNext, NEW c \in Clients, ParseStep(c) PROVE Proceeds(c)
<1>0. /\ req[c] \in Request /\ Fits(req[c]) /\ Sees(req[c]) /\ req \in [Clients -> Request] /\ Onwards
  BY ReqFacts DEF RowsNext
<1>1. CASE ParseRead(c)
  <2>1. PICK r \in Rows, kind \in {"task", "reparse"} :
          /\ Live(r) /\ (kind = "task" => ~inv[r].imported)
          /\ req' = [req EXCEPT ![c] = [NoReq EXCEPT !.pc = "parse", !.kind = kind, !.row = r]]
    BY <1>1 DEF ParseRead
  <2>. DEFINE q == [NoReq EXCEPT !.pc = "parse", !.kind = kind, !.row = r]
  <2>2. q \in Request /\ q.pc = "parse" /\ q.kind = kind /\ q.row = r
    BY DEF NoReq, Request, Points, Kinds, Marks
  <2>3. req' = [req EXCEPT ![c] = q] BY <2>1
  <2>. HIDE DEF q
  <2>4. Turn(c, q) BY <2>2, <2>3 DEF Turn, Fits, Holding, Imports
  <2>5. ~Parses(req[c]) BY <1>1, ReqFacts DEF ParseRead, Begins
  <2>6. inv[r].life # "unborn" /\ inv'[r].life # "unborn" BY <1>0, <2>1, LiveRow DEF Onwards
  <2>7. Carries(req[c], q) BY <2>1, <2>2, <2>5, <2>6 DEF Carries, OnRow, Confirming, Looks, Holding
  <2>. QED BY <2>4, <2>7 DEF Proceeds
<1>2. CASE ParseWrite(c)
  <2>1. req[c].pc = "parse" /\ ~Parses(req[c]) BY <1>0, <1>2 DEF ParseWrite, At, Parses, Imports, Fits
  <2>2. CASE Done(c) BY <2>1, <2>2, EndCarries
  <2>3. CASE req[c].kind = "task" /\ Goes(c, "look")
    <3>1. \A q \in Request : q.pc = "look" /\ Same(q, req[c]) => Fits(q) /\ Carries(req[c], q)
      BY <1>0, <2>1, <2>3
         DEF Fits, Same, Holding, Imports, Carries, OnRow, Confirming, Looks, Sees, Onwards
    <3>. QED BY <2>3, <3>1, GoesCarries DEF Points
  <2>. QED BY <1>2, <2>2, <2>3 DEF ParseWrite
<1>. QED BY <1>1, <1>2 DEF ParseStep

LEMMA ConfirmCarries == ASSUME Typed, RowsNext, NEW c \in Clients, ConfirmStep(c) PROVE Proceeds(c)
<1>0. /\ req[c] \in Request /\ Fits(req[c]) /\ Sees(req[c]) /\ req \in [Clients -> Request] /\ Onwards
  BY ReqFacts DEF RowsNext
<1>1. CASE ConfirmRead(c)
  <2>1. PICK r \in Rows, n \in Numbers \cup {None}, force \in BOOLEAN :
          /\ Live(r)
          /\ req' = [req EXCEPT ![c] = [NoReq EXCEPT !.pc = "hash", !.row = r, !.hash = inv[r].hash,
                                          !.num = IF n = None THEN inv[r].number ELSE n, !.force = force]]
    BY <1>1 DEF ConfirmRead
  <2>. DEFINE q == [NoReq EXCEPT !.pc = "hash", !.row = r, !.hash = inv[r].hash,
                                 !.num = IF n = None THEN inv[r].number ELSE n, !.force = force]
  <2>2. inv[r].hash \in Hashes \cup {None} /\ inv[r].number \in Numbers \cup {None}
    BY LiveRow DEF InvoiceRow
  <2>3. q \in Request /\ q.pc = "hash" /\ q.kind = "none" /\ q.row = r /\ q.hash = inv[r].hash
    BY <2>2 DEF NoReq, Request, Points, Kinds, Marks
  <2>4. req' = [req EXCEPT ![c] = q] BY <2>1
  <2>. HIDE DEF q
  <2>5. Turn(c, q) BY <2>3, <2>4 DEF Turn, Fits, Holding, Imports
  <2>6. ~Parses(req[c]) BY <1>1, ReqFacts DEF ConfirmRead, Begins
  <2>7. inv'[r].life # "unborn" BY <1>0, <2>1, LiveRow DEF Onwards
  <2>8. Carries(req[c], q) BY <2>1, <2>3, <2>6, <2>7 DEF Carries, OnRow, Confirming, Looks, Holding
  <2>. QED BY <2>5, <2>8 DEF Proceeds
<1>2. ASSUME ~ConfirmRead(c)
      PROVE  /\ req[c].pc \in {"hash", "number", "status", "confirm"} /\ ~Parses(req[c])
             /\ req[c].kind \notin Imports \cup {"task"}
  BY <1>0, <1>2
     DEF ConfirmStep, ConfirmHash, ConfirmNumber, ConfirmStatus, ConfirmWrite, At, Parses, Imports, Fits
<1>3. CASE Done(c) /\ ~ConfirmRead(c) BY <1>2, <1>3, EndCarries
<1>4. CASE ConfirmHash(c) /\ ~Done(c)
  <2>1. Goes(c, "number") /\ req[c].pc = "hash" /\ SameHash(req[c].hash, req[c].row) = {}
    BY <1>4 DEF ConfirmHash, At, HashRivals
  <2>2. \A q \in Request : q.pc = "number" /\ Same(q, req[c]) => Fits(q) /\ Carries(req[c], q)
    <3>. SUFFICES ASSUME NEW q \in Request, q.pc = "number", Same(q, req[c])
                  PROVE  Fits(q) /\ Carries(req[c], q)
      OBVIOUS
    <3>1. Fits(q) BY <1>0, <2>1 DEF Fits, Same, Holding, Imports
    <3>2. ~Parses(req[c]) /\ q.kind # "task" BY <1>0, <2>1 DEF Parses, Imports, Fits, Same
    <3>3. q.row \in Rows /\ inv'[q.row].life # "unborn"
      BY <1>0, <2>1 DEF Same, Sees, OnRow, Onwards
    <3>4. Carries(req[c], q)
      BY <2>1, <3>2, <3>3 DEF Same, Carries, OnRow, Confirming, Looks, Holding
    <3>. QED BY <3>1, <3>4
  <2>. QED BY <2>1, <2>2, GoesCarries DEF Points
<1>5. CASE ConfirmNumber(c) /\ ~Done(c)
  <2>1. Goes(c, "status") /\ req[c].pc = "number"
    BY <1>5 DEF ConfirmNumber, At
  <2>2. \A q \in Request : q.pc = "status" /\ Same(q, req[c]) => Fits(q) /\ Carries(req[c], q)
    <3>. SUFFICES ASSUME NEW q \in Request, q.pc = "status", Same(q, req[c])
                  PROVE  Fits(q) /\ Carries(req[c], q)
      OBVIOUS
    <3>1. Fits(q) BY <1>0, <2>1 DEF Fits, Same, Holding, Imports
    <3>2. ~Parses(req[c]) /\ q.kind # "task" BY <1>0, <2>1 DEF Parses, Imports, Fits, Same
    <3>3. q.row \in Rows /\ inv'[q.row].life # "unborn"
      BY <1>0, <2>1 DEF Same, Sees, OnRow, Onwards
    <3>4. Carries(req[c], q)
      BY <2>1, <3>2, <3>3 DEF Same, Carries, OnRow, Confirming, Looks, Holding
    <3>. QED BY <3>1, <3>4
  <2>. QED BY <2>1, <2>2, GoesCarries DEF Points
<1>6. CASE ConfirmStatus(c)
  <2>1. PICK mark \in Marks : req' = [req EXCEPT ![c].pc = "confirm", ![c].mark = mark]
    BY <1>6 DEF ConfirmStatus, Marks
  <2>. DEFINE q == [req[c] EXCEPT !.pc = "confirm", !.mark = mark]
  <2>2. q \in Request /\ q.pc = "confirm" /\ q.row = req[c].row /\ q.hash = req[c].hash /\ q.kind = req[c].kind
    BY <1>0, <2>1 DEF Request, Points
  <2>3. req' = [req EXCEPT ![c] = q] BY <1>0, <2>1
  <2>4. req[c].pc = "status" BY <1>6 DEF ConfirmStatus, At
  <2>. HIDE DEF q
  <2>5. req[c].kind \notin Imports \cup {"task"} BY <1>0, <2>4 DEF Imports, Fits
  <2>6. Turn(c, q) BY <1>0, <2>2, <2>3, <2>4, <2>5 DEF Turn, Fits, Holding, Imports
  <2>7. ~Parses(req[c]) BY <2>4, <2>5 DEF Parses
  <2>8. Carries(req[c], q)
    BY <1>0, <2>2, <2>4, <2>5, <2>7 DEF Carries, OnRow, Confirming, Looks, Holding, Sees, Onwards
  <2>. QED BY <2>6, <2>8 DEF Proceeds
<1>7. CASE ConfirmWrite(c)
  <2>1. Done(c) /\ req[c].pc = "confirm" BY <1>7 DEF ConfirmWrite, At
  <2>2. ~Parses(req[c]) BY <1>0, <2>1 DEF Parses, Fits, Imports
  <2>. QED BY <2>1, <2>2, EndCarries
<1>. QED BY <1>1, <1>3, <1>4, <1>5, <1>6, <1>7 DEF ConfirmStep

LEMMA RemovalCarries == ASSUME Typed, RowsNext, NEW c \in Clients, RemovalStep(c) PROVE Proceeds(c)
<1>0. /\ req[c] \in Request /\ Fits(req[c]) /\ Sees(req[c]) /\ req \in [Clients -> Request] /\ Onwards
  BY ReqFacts DEF RowsNext
<1>1. ~Parses(req[c])
  BY <1>0, ReqFacts
     DEF RemovalStep, DeleteRead, DeleteCommit, RemoveFiles, DeleteAttachment, TripPreview, TripCommit,
         TripRefused, Begins, At, Parses, Imports, Fits
<1>2. CASE Done(c) BY <1>1, <1>2, EndCarries
\* A request that begins with a row, or with an attachment.
<1>3. ASSUME NEW q \in Request, q.pc \in {"delete", "files", "trip"}, q.kind = "none",
             q.pc # "files" => q.row \in Rows /\ inv[q.row].life # "unborn",
             q.pc = "delete" => DeleteRead(c), q.pc = "files" => DeleteAttachment(c),
             req' = [req EXCEPT ![c] = q]
      PROVE  Proceeds(c)
  <2>1. Turn(c, q) BY <1>3 DEF Turn, Fits, Holding, Imports
  <2>2. Carries(req[c], q)
    BY <1>0, <1>1, <1>3 DEF Carries, OnRow, Confirming, Looks, Holding, Onwards
  <2>. QED BY <2>1, <2>2 DEF Proceeds
<1>4. ASSUME NEW pc \in {"files", "tripfiles"}, Goes(c, pc), req[c].pc \in {"delete", "trip"},
             pc = "files" => DeleteCommit(c)
      PROVE  Proceeds(c)
  <2>1. req[c].kind \notin Imports \cup {"task"} BY <1>0, <1>4 DEF Fits, Imports
  <2>2. \A q \in Request : q.pc = pc /\ Same(q, req[c]) => Fits(q) /\ Carries(req[c], q)
    BY <1>0, <1>1, <1>4, <2>1 DEF Fits, Same, Holding, Imports, Carries, OnRow, Confirming, Looks
  <2>3. pc \in Points BY DEF Points
  <2>. QED BY <1>4, <2>2, <2>3, GoesCarries
<1>5. CASE DeleteRead(c)
  <2>1. PICK r \in Rows : Live(r) /\
          req' = [req EXCEPT ![c] = [NoReq EXCEPT !.pc = "delete", !.row = r,
                      !.todo = {inv[r].file} \cup {att[a].file : a \in AttsOf({r})}]]
    BY <1>5 DEF DeleteRead
  <2>2. inv[r].file \in Files /\ inv[r].life # "unborn" BY <2>1, LiveRow DEF InvoiceRow
  <2>3. \A a \in AttsOf({r}) : att[a].file \in Files BY DEF AttsOf, Typed, AttsFit
  <2>4. {inv[r].file} \cup {att[a].file : a \in AttsOf({r})} \in SUBSET Files BY <2>2, <2>3
  <2>. DEFINE todo == {inv[r].file} \cup {att[a].file : a \in AttsOf({r})}
              q == [NoReq EXCEPT !.pc = "delete", !.row = r, !.todo = todo]
  <2>5. req' = [req EXCEPT ![c] = q] BY <2>1
  <2>. HIDE DEF todo
  <2>6. q \in Request /\ q.pc = "delete" /\ q.kind = "none" /\ q.row = r
    BY <2>4 DEF NoReq, Request, Points, Kinds, Marks, todo
  <2>. HIDE DEF q
  <2>. QED BY <1>3, <1>5, <2>2, <2>5, <2>6
<1>6. CASE DeleteAttachment(c)
  <2>1. PICK a \in Atts : att[a].life = "live" /\
          req' = [req EXCEPT ![c] = [NoReq EXCEPT !.pc = "files", !.todo = {att[a].file}]]
    BY <1>6 DEF DeleteAttachment
  <2>2. {att[a].file} \in SUBSET Files BY <2>1 DEF Typed, AttsFit
  <2>. DEFINE q == [NoReq EXCEPT !.pc = "files", !.todo = {att[a].file}]
  <2>3. q \in Request /\ q.pc = "files" /\ q.kind = "none"
    BY <2>2 DEF NoReq, Request, Points, Kinds, Marks
  <2>4. req' = [req EXCEPT ![c] = q] BY <2>1
  <2>. HIDE DEF q
  <2>. QED BY <1>3, <1>6, <2>3, <2>4
<1>7. CASE TripPreview(c)
  <2>1. PICK r \in Rows : Live(r) /\
          req' = [req EXCEPT ![c] = [NoReq EXCEPT !.pc = "trip", !.row = r, !.todo = {inv[r].file}]]
    BY <1>7 DEF TripPreview
  <2>2. {inv[r].file} \in SUBSET Files /\ inv[r].life # "unborn" BY <2>1, LiveRow DEF InvoiceRow
  <2>. DEFINE q == [NoReq EXCEPT !.pc = "trip", !.row = r, !.todo = {inv[r].file}]
  <2>3. q \in Request /\ q.pc = "trip" /\ q.kind = "none" /\ q.row = r
    BY <2>2 DEF NoReq, Request, Points, Kinds, Marks
  <2>4. req' = [req EXCEPT ![c] = q] BY <2>1
  <2>. HIDE DEF q
  <2>. QED BY <1>3, <2>2, <2>3, <2>4
<1>8. CASE DeleteCommit(c) BY <1>2, <1>4, <1>8 DEF DeleteCommit, At
<1>9. CASE TripCommit(c) BY <1>4, <1>9 DEF TripCommit, At
<1>. QED BY <1>2, <1>5, <1>6, <1>7, <1>8, <1>9 DEF RemovalStep, RemoveFiles, TripRefused

\* A count of attachments, or an import that goes on.
LEMMA AttachTurnCarries ==
    ASSUME Typed, NEW c \in Clients, NEW to \in Request, to.kind = "extra", to.file \in Files, to.hash \in Hashes,
           AttachesTo(c, to),
           \/ req[c].pc \in Holding /\ to.file = req[c].file
           \/ disk[to.file] = "unused" /\ disk'[to.file] = "there"
    PROVE  Proceeds(c)
<1>1. PICK q : /\ Turn(c, q)
               /\ \/ q.pc = "count" /\ q.kind = "extra" /\ q.file = to.file /\ q.row \in Rows
                  \/ q.pc = "extras" /\ q.kind = "none"
  BY AttachesShape
<1>2. Parses(q) BY <1>1 DEF Parses, Imports
<1>3. Carries(req[c], q) BY <1>1, <1>2 DEF Carries, OnRow, Confirming, Looks, Holding
<1>. QED BY <1>1, <1>3 DEF Proceeds

LEMMA AttachCarries == ASSUME Typed, NEW c \in Clients, AttachStep(c) PROVE Proceeds(c)
<1>0. req[c] \in Request /\ Fits(req[c]) /\ req \in [Clients -> Request] BY ReqFacts
<1>1. CASE AttachSave(c)
  <2>1. PICK r \in Rows, f \in Files, h \in Hashes : disk[f] = "unused" /\ disk'[f] = "there" /\
          req' = [req EXCEPT ![c] = [NoReq EXCEPT !.pc = "count", !.kind = "manual", !.row = r,
                                                  !.file = f, !.hash = h]]
    BY <1>1, StoredThere DEF AttachSave
  <2>. DEFINE q == [NoReq EXCEPT !.pc = "count", !.kind = "manual", !.row = r, !.file = f, !.hash = h]
  <2>2. q \in Request /\ q.pc = "count" /\ q.kind = "manual" /\ q.row = r /\ q.file = f /\ q.hash = h
    BY DEF NoReq, Request, Points, Kinds, Marks
  <2>3. req' = [req EXCEPT ![c] = q] BY <2>1
  <2>. HIDE DEF q
  <2>4. Turn(c, q) BY <2>2, <2>3 DEF Turn, Fits, Holding, Imports
  <2>5. ~Parses(req[c]) BY <1>1, ReqFacts DEF AttachSave, Begins
  <2>6. Carries(req[c], q) BY <2>1, <2>2, <2>5 DEF Carries, OnRow, Confirming, Looks, Holding
  <2>. QED BY <2>4, <2>6 DEF Proceeds
<1>2. ASSUME req[c].pc \in {"count", "attach"}
      PROVE  req[c].row \in Rows /\ req[c].kind \in {"manual", "extra"}
  BY <1>0, <1>2 DEF Fits
<1>3. CASE Created(c) /\ req[c].pc \in {"count", "attach"} BY <1>2, <1>3, CreatedCarries
<1>4. CASE Discards(c) /\ req[c].pc \in {"count", "attach"} /\ req[c].kind = "manual"
  BY <1>4, DiscardCarries DEF Parses, Imports
<1>5. CASE Goes(c, "attach") /\ req[c].pc = "count"
  <2>1. \A q \in Request : q.pc = "attach" /\ Same(q, req[c]) => Fits(q) /\ Carries(req[c], q)
    BY <1>0, <1>2, <1>5
       DEF Fits, Same, Holding, Imports, Carries, OnRow, Confirming, Looks, Parses
  <2>. QED BY <1>5, <2>1, GoesCarries DEF Points
<1>. QED BY <1>1, <1>3, <1>4, <1>5 DEF AttachStep, AttachCount, AttachInsert, AttachFails, At

LEMMA ImportCarries == ASSUME Typed, NEW c \in Clients, ImportStep(c) PROVE Proceeds(c)
<1>0. /\ req[c] \in Request /\ Fits(req[c]) /\ req \in [Clients -> Request]
      /\ At(c, "idle") => ~Parses(req[c])
  BY ReqFacts
<1>1. CASE ImportFails(c) \/ ImportNoPdf(c) \/ ImportNoInvoice(c) \/ ImportFinish(c)
  <2>1. Done(c) /\ log'.status \in {"error", "parsed"}
    BY <1>1 DEF ImportFails, ImportNoPdf, ImportNoInvoice, ImportFinish, Typed, TypeOK
  <2>. QED BY <2>1, EndCarries
<1>2. ASSUME NEW pc \in {"message", "fetch", "pdf"}, Goes(c, pc), req[c].pc \in {"idle", "message", "fetch"},
             Parses(req[c]) => pc = "pdf"
      PROVE  Proceeds(c)
  <2>1. \A q \in Request : q.pc = pc /\ Same(q, req[c]) => Fits(q) /\ Carries(req[c], q)
    <3>. SUFFICES ASSUME NEW q \in Request, q.pc = pc, Same(q, req[c]) PROVE Fits(q) /\ Carries(req[c], q)
      OBVIOUS
    <3>1. q.kind \notin Imports \cup {"task"} BY <1>0, <1>2, NoReqFits DEF Fits, Same, Imports
    <3>2. Fits(q) BY <1>0, <1>2, <3>1 DEF Fits, Imports, Holding
    <3>3. Parses(req[c]) => Parses(q) BY <1>2 DEF Parses
    <3>4. Carries(req[c], q) BY <1>2, <3>1, <3>3 DEF Carries, OnRow, Confirming, Looks, Holding
    <3>. QED BY <3>2, <3>4
  <2>2. pc \in Points BY DEF Points
  <2>. QED BY <1>2, <2>1, <2>2, GoesCarries
<1>3. CASE ImportRead(c)
  BY <1>0, <1>2, <1>3 DEF ImportRead, Begins, At
<1>4. CASE ImportParsing(c)
  <2>1. ~Parses(req[c]) BY <1>0, <1>4 DEF ImportParsing, At, Parses, Fits, Imports
  <2>. QED BY <1>2, <1>4, <2>1 DEF ImportParsing, At
<1>5. CASE ImportFetch(c) BY <1>2, <1>5 DEF ImportFetch, At
<1>6. CASE ImportSave(c)
  <2>1. PICK f \in Files, h \in Hashes, kind \in {"xml", "pdf"} : disk[f] = "unused" /\ disk'[f] = "there" /\
          req' = [req EXCEPT ![c] = [NoReq EXCEPT !.pc = "insert", !.kind = kind, !.file = f, !.hash = h]]
    BY <1>6, StoredThere DEF ImportSave
  <2>. DEFINE q == [NoReq EXCEPT !.pc = "insert", !.kind = kind, !.file = f, !.hash = h]
  <2>2. q \in Request /\ q.pc = "insert" /\ q.kind = kind /\ q.file = f /\ q.hash = h
    BY DEF NoReq, Request, Points, Kinds, Marks
  <2>3. req' = [req EXCEPT ![c] = q] BY <2>1
  <2>. HIDE DEF q
  <2>4. Turn(c, q) BY <2>2, <2>3 DEF Turn, Fits, Holding, Imports
  <2>5. Carries(req[c], q) BY <2>1, <2>2 DEF Carries, OnRow, Confirming, Looks, Holding, Parses, Imports
  <2>. QED BY <2>4, <2>5 DEF Proceeds
<1>7. CASE ImportRetries(c)
  <2>0. req[c].pc = "insert" BY <1>7 DEF ImportRetries, At
  <2>1. CASE req[c].kind = "xml" /\ req' = [req EXCEPT ![c].kind = "pdf"]
    <3>. DEFINE q == [req[c] EXCEPT !.kind = "pdf"]
    <3>1. q \in Request /\ q.pc = "insert" /\ q.kind = "pdf" /\ q.file = req[c].file /\ q.hash = req[c].hash
      BY <1>0, <2>0 DEF Request, Kinds
    <3>2. req' = [req EXCEPT ![c] = q] BY <1>0, <2>1
    <3>. HIDE DEF q
    <3>3. Turn(c, q) BY <1>0, <2>1, <3>1, <3>2 DEF Turn, Fits, Holding, Imports
    <3>4. Carries(req[c], q) BY <2>0, <3>1 DEF Carries, OnRow, Confirming, Looks, Holding, Parses, Imports
    <3>. QED BY <3>3, <3>4 DEF Proceeds
  <2>2. CASE req[c].kind = "extra" /\ AttachesTo(c, req[c])
    <3>1. req[c].file \in Files /\ req[c].hash \in Hashes BY <1>0, <2>2 DEF Fits, Imports
    <3>2. req[c].pc \in Holding BY <2>0 DEF Holding
    <3>. QED BY <1>0, <2>2, <3>1, <3>2, AttachTurnCarries
  <2>. QED BY <1>7, <2>1, <2>2 DEF ImportRetries
<1>8. CASE ImportExtra(c)
  <2>1. PICK f \in Files, h \in Hashes, asInvoice \in BOOLEAN : disk[f] = "unused" /\ disk'[f] = "there" /\
          LET extra == [req[c] EXCEPT !.pc = "insert", !.kind = "extra", !.file = f, !.hash = h]
          IN  IF asInvoice THEN req' = [req EXCEPT ![c] = extra] ELSE AttachesTo(c, extra)
    BY <1>8, StoredThere DEF ImportExtra
  <2>. DEFINE q == [req[c] EXCEPT !.pc = "insert", !.kind = "extra", !.file = f, !.hash = h]
  <2>2. q \in Request /\ q.pc = "insert" /\ q.kind = "extra" /\ q.file = f /\ q.hash = h
    BY <1>0 DEF Request, Points, Kinds
  <2>3. (IF asInvoice THEN req' = [req EXCEPT ![c] = q] ELSE AttachesTo(c, q)) BY <2>1
  <2>. HIDE DEF q
  <2>4. CASE asInvoice
    <3>1. Turn(c, q) BY <2>2, <2>3, <2>4 DEF Turn, Fits, Holding, Imports
    <3>2. Carries(req[c], q) BY <2>1, <2>2 DEF Carries, OnRow, Confirming, Looks, Holding, Parses, Imports
    <3>. QED BY <3>1, <3>2 DEF Proceeds
  <2>5. CASE ~asInvoice
    <3>1. q.file \in Files /\ q.hash \in Hashes /\ disk[q.file] = "unused" /\ disk'[q.file] = "there"
      BY <2>1, <2>2
    <3>. QED BY <2>2, <2>3, <2>5, <3>1, AttachTurnCarries
  <2>. QED BY <2>4, <2>5
<1>. QED BY <1>1, <1>3, <1>4, <1>5, <1>6, <1>7, <1>8 DEF ImportStep

-----------------------------------------------------------------------------
(* The types, put together. *)

LEMMA AttsGoneFit ==
    ASSUME Typed, NEW rs
    PROVE  /\ AttsGone(rs) \in [Atts -> AttRow]
           /\ \A a \in Atts : AttsGone(rs)[a].life # "unborn" =>
                 AttsGone(rs)[a].file \in Files /\ AttsGone(rs)[a].inv \in Rows
<1>1. ASSUME NEW a \in Atts, a \in AttsOf(rs)
      PROVE  /\ [att[a] EXCEPT !.life = "gone"] \in AttRow
             /\ [att[a] EXCEPT !.life = "gone"].file \in Files /\ [att[a] EXCEPT !.life = "gone"].inv \in Rows
  <2>1. att[a] \in AttRow /\ att[a].file \in Files /\ att[a].inv \in Rows
    BY <1>1 DEF Typed, TypeOK, AttsFit, AttsOf
  <2>. QED BY <2>1 DEF AttRow
<1>. QED BY <1>1 DEF AttsGone, Typed, TypeOK, AttsFit

\* What a failing statement may do.
LEMMA UnmarkedShape ==
    ASSUME Typed, NEW c \in Clients, CreateUnmarked(c)
    PROVE  /\ UNCHANGED <<inv, att, swept>> /\ rough' = TRUE /\ Happens
           /\ UNCHANGED disk \/ disk' = Without({req[c].file})
           /\ UNCHANGED log \/ log' = [log EXCEPT !.status = "error"]
<1>1. req[c].kind \in {"sync", "task", "xml", "pdf", "extra"}
  BY ReqFacts DEF CreateUnmarked, Fits, Imports
<1>. QED BY <1>1 DEF CreateUnmarked, Discards

LEMMA AttsShape ==
    ASSUME Typed, [Next]_vars
    PROVE  \/ UNCHANGED att \/ \E rs : att' = AttsGone(rs)
           \/ \E c \in Clients : AttachInsert(c) \/ DeleteAttachment(c)
<1>1. ASSUME NEW c \in Clients, UploadStep(c) \/ AsyncStep(c) \/ CreateStep(c) \/ ParseStep(c) \/ ConfirmStep(c)
      PROVE  UNCHANGED att
  BY <1>1, UnmarkedShape
     DEF UploadStep, UploadSave, AsyncSave, FileSaved, UploadFind, UploadFails, AsyncStep, AsyncFind, UploadStat,
         UploadRepoint, UploadRepointUnread, UploadInsert, CreateStep, CreateInsert, Look, Mark,
         ParseStep, ParseRead, ParseWrite, ConfirmStep, ConfirmRead, ConfirmHash, ConfirmNumber, ConfirmStatus,
         ConfirmWrite
<1>2. ASSUME NEW c \in Clients, RemovalStep(c) \/ AttachStep(c) \/ ImportStep(c)
      PROVE  UNCHANGED att \/ (\E rs : att' = AttsGone(rs)) \/ AttachInsert(c) \/ DeleteAttachment(c)
  BY <1>2
     DEF RemovalStep, DeleteRead, DeleteCommit, RemoveFiles, TripPreview, TripCommit, TripRefused,
         AttachStep, AttachSave, AttachCount, AttachFails, ImportStep, ImportRead, ImportParsing, ImportFails,
         ImportFetch, ImportNoPdf, ImportNoInvoice, ImportSave, ImportRetries, ImportExtra, ImportFinish
<1>3. CASE EditInvoice \/ SweepRows \/ SweepFiles \/ Crash \/ (\E r \in Rows : Expire(r)) \/ UNCHANGED vars
  BY <1>3 DEF EditInvoice, SweepRows, SweepFiles, Crash, Expire, vars
<1>. QED BY <1>1, <1>2, <1>3 DEF Next

LEMMA AttsStep == ASSUME Typed, [Next]_vars PROVE (att \in [Atts -> AttRow])' /\ AttsFit'
<1>. DEFINE Kept == (att \in [Atts -> AttRow])' /\ AttsFit'
<1>1. ASSUME UNCHANGED att PROVE Kept BY <1>1 DEF Typed, TypeOK, AttsFit
<1>2. ASSUME NEW rs, att' = AttsGone(rs) PROVE Kept BY <1>2, AttsGoneFit DEF AttsFit
<1>3. ASSUME NEW c \in Clients, AttachInsert(c) PROVE Kept
  <2>1. PICK a \in Atts : att' = [att EXCEPT ![a] = [life |-> "live", inv |-> req[c].row,
                                                     file |-> req[c].file, hash |-> req[c].hash]]
    BY <1>3 DEF AttachInsert
  <2>2. req[c].row \in Rows /\ req[c].file \in Files /\ req[c].hash \in Hashes
    BY <1>3, ReqFacts DEF AttachInsert, At, Fits, Holding
  <2>. DEFINE x == [life |-> "live", inv |-> req[c].row, file |-> req[c].file, hash |-> req[c].hash]
  <2>3. x \in AttRow /\ x.file \in Files /\ x.inv \in Rows BY <2>2 DEF AttRow
  <2>4. att' = [att EXCEPT ![a] = x] BY <2>1
  <2>. HIDE DEF x
  <2>. QED BY <2>3, <2>4 DEF Typed, TypeOK, AttsFit
<1>4. ASSUME NEW c \in Clients, DeleteAttachment(c) PROVE Kept
  <2>1. PICK a \in Atts : att[a].life = "live" /\ att' = [att EXCEPT ![a].life = "gone"]
    BY <1>4 DEF DeleteAttachment
  <2>. DEFINE x == [att[a] EXCEPT !.life = "gone"]
  <2>2. att[a] \in AttRow /\ att[a].file \in Files /\ att[a].inv \in Rows
    BY <2>1 DEF Typed, TypeOK, AttsFit
  <2>3. x \in AttRow /\ x.file \in Files /\ x.inv \in Rows BY <2>2 DEF AttRow
  <2>4. att' = [att EXCEPT ![a] = x] BY <2>1 DEF Typed, TypeOK
  <2>. HIDE DEF x
  <2>. QED BY <2>3, <2>4 DEF Typed, TypeOK, AttsFit
<1>. QED BY <1>1, <1>2, <1>3, <1>4, AttsShape

LogRow == [status: {"received", "parsing", "parsed", "error"}, ref: Rows \cup {None}]
OtherFits ==
    /\ disk \in [Files -> {"unused", "there", "removed"}]
    /\ log \in LogRow
    /\ swept \subseteq Files
    /\ rough \in BOOLEAN /\ events \in 0 .. MaxEvents

LEMMA DiskShape ==
    ASSUME Typed, [Next]_vars
    PROVE  UNCHANGED disk \/ (\E fs : disk' = Without(fs)) \/ (\E f \in Files : disk' = Stored(f))
<1>1. ASSUME NEW c \in Clients, UploadStep(c) \/ AsyncStep(c) \/ CreateStep(c)
      PROVE  UNCHANGED disk \/ (\E fs : disk' = Without(fs)) \/ (\E f \in Files : disk' = Stored(f))
  BY <1>1, UnmarkedShape DEF UploadStep, UploadSave, AsyncSave, FileSaved, UploadFind, UploadFails, AsyncStep, AsyncFind, UploadStat,
       UploadRepoint, UploadRepointUnread, UploadInsert, CreateStep, CreateInsert, Look, Mark, Discards
<1>2. ASSUME NEW c \in Clients, ParseStep(c) \/ ConfirmStep(c) \/ RemovalStep(c)
      PROVE  UNCHANGED disk \/ (\E fs : disk' = Without(fs))
  BY <1>2 DEF ParseStep, ParseRead, ParseWrite, ConfirmStep, ConfirmRead, ConfirmHash, ConfirmNumber, ConfirmStatus,
     ConfirmWrite, RemovalStep, DeleteRead, DeleteCommit, RemoveFiles, TripPreview, TripCommit, TripRefused, DeleteAttachment
<1>3. ASSUME NEW c \in Clients, AttachStep(c) \/ ImportStep(c)
      PROVE  UNCHANGED disk \/ (\E fs : disk' = Without(fs)) \/ (\E f \in Files : disk' = Stored(f))
  BY <1>3 DEF AttachStep, AttachSave, AttachCount, AttachFails, ImportStep, ImportRead, ImportParsing, ImportFails,
     ImportFetch, ImportNoPdf, ImportNoInvoice, ImportSave, ImportRetries, ImportExtra, ImportFinish, Discards, AttachInsert
<1>4. CASE EditInvoice \/ SweepRows \/ SweepFiles \/ Crash \/ (\E r \in Rows : Expire(r)) \/ UNCHANGED vars
  BY <1>4 DEF EditInvoice, SweepRows, SweepFiles, Crash, Expire, vars
<1>. QED BY <1>1, <1>2, <1>3, <1>4 DEF Next

LEMMA FlagsStep ==
    ASSUME Typed, [Next]_vars
    PROVE  /\ rough' \in {rough, TRUE} /\ (UNCHANGED events \/ Happens) /\ swept' \subseteq Files
           /\ swept' \in {swept, {}} \/ SweepRows
<1>0. swept \subseteq Files /\ rough \in BOOLEAN BY DEF Typed, TypeOK
<1>1. ASSUME NEW c \in Clients, UploadStep(c) \/ AsyncStep(c) \/ CreateStep(c) \/ ParseStep(c) \/ ConfirmStep(c)
      PROVE  rough' \in {rough, TRUE} /\ (UNCHANGED events \/ Happens) /\ UNCHANGED swept
  BY <1>1, UnmarkedShape DEF UploadStep, UploadSave, AsyncSave, FileSaved, UploadFind, UploadFails, AsyncStep, AsyncFind, UploadStat,
       UploadRepoint, UploadRepointUnread, UploadInsert, CreateStep, CreateInsert, Look, Mark, Begins,
       ParseStep, ParseRead, ParseWrite, ConfirmStep, ConfirmRead, ConfirmHash, ConfirmNumber, ConfirmStatus,
     ConfirmWrite
<1>2. ASSUME NEW c \in Clients, RemovalStep(c) \/ AttachStep(c) \/ ImportStep(c)
      PROVE  UNCHANGED <<rough, swept>> /\ (UNCHANGED events \/ Happens)
  BY <1>2 DEF RemovalStep, DeleteRead, DeleteCommit, RemoveFiles, TripPreview, TripCommit, TripRefused, DeleteAttachment,
       AttachStep, AttachSave, AttachCount, AttachFails, AttachInsert, ImportStep, ImportRead, ImportParsing, ImportFails,
     ImportFetch, ImportNoPdf, ImportNoInvoice, ImportSave, ImportRetries, ImportExtra, ImportFinish, Begins
<1>3. CASE SweepRows
  <2>1. \A r \in Expired : inv[r].file \in Files BY LiveRow DEF Expired, InvoiceRow
  <2>2. \A a \in AttsOf(Expired) : att[a].file \in Files BY DEF AttsOf, Typed, AttsFit
  <2>3. swept' \subseteq Files BY <1>3, <2>1, <2>2 DEF SweepRows
  <2>. QED BY <1>3, <2>3 DEF SweepRows
<1>4. CASE EditInvoice \/ SweepFiles \/ Crash \/ (\E r \in Rows : Expire(r)) \/ UNCHANGED vars
  BY <1>0, <1>4 DEF EditInvoice, SweepFiles, Crash, Expire, vars
<1>. QED BY <1>0, <1>1, <1>2, <1>3, <1>4 DEF Next

LEMMA OtherStep == ASSUME Typed, [Next]_vars PROVE OtherFits'
<1>0. OtherFits BY DEF Typed, TypeOK, OtherFits, LogRow
<1>1. (disk \in [Files -> {"unused", "there", "removed"}])' BY <1>0, DiskShape, DiskFits DEF OtherFits
<1>2. (log \in LogRow)'
  <2>1. ASSUME NEW s \in {"received", "parsing", "parsed", "error"}
        PROVE  [log EXCEPT !.status = s] \in LogRow
    BY <1>0 DEF OtherFits, LogRow
  <2>2. UNCHANGED log => (log \in LogRow)' BY <1>0 DEF OtherFits
  <2>3. [status |-> "received", ref |-> None] \in LogRow BY DEF LogRow
  <2>4. ASSUME NEW c \in Clients, UploadStep(c) \/ AsyncStep(c) \/ ParseStep(c) \/ ConfirmStep(c)
        PROVE  UNCHANGED log
    BY <2>4
       DEF UploadStep, UploadSave, AsyncSave, FileSaved, UploadFind, UploadFails, AsyncStep, AsyncFind, UploadStat,
           UploadRepoint, UploadRepointUnread, UploadInsert,
         ParseStep, ParseRead, ParseWrite, ConfirmStep, ConfirmRead, ConfirmHash, ConfirmNumber, ConfirmStatus,
         ConfirmWrite
  <2>5. ASSUME NEW c \in Clients, CreateStep(c) \/ RemovalStep(c) \/ AttachStep(c) PROVE (log \in LogRow)'
    <3>1. UNCHANGED log \/ log' = [log EXCEPT !.status = "error"] \/ log' = [status |-> "received", ref |-> None]
      BY <2>5, UnmarkedShape
         DEF CreateStep, CreateInsert, Look, Mark,
           RemovalStep, DeleteRead, DeleteCommit, RemoveFiles, TripPreview, TripCommit, TripRefused, DeleteAttachment,
           AttachStep, AttachSave, AttachCount, AttachFails, AttachInsert
    <3>. QED BY <2>1, <2>2, <2>3, <3>1
  <2>6. ASSUME NEW c \in Clients, ImportStep(c) PROVE (log \in LogRow)'
    <3>1. req[c].main \in Rows \cup {None} BY ReqFacts DEF Request
    <3>2. [status |-> "parsed", ref |-> req[c].main] \in LogRow BY <3>1 DEF LogRow
    <3>3. \/ UNCHANGED log \/ log' = [log EXCEPT !.status = "error"] \/ log' = [status |-> "received", ref |-> None]
          \/ log' = [log EXCEPT !.status = "parsing"] \/ log' = [status |-> "parsed", ref |-> req[c].main]
      BY <2>6 DEF ImportStep, ImportRead, ImportParsing, ImportFails,
         ImportFetch, ImportNoPdf, ImportNoInvoice, ImportSave, ImportRetries, ImportExtra, ImportFinish
    <3>. QED BY <2>1, <2>2, <2>3, <3>2, <3>3
  <2>7. CASE EditInvoice \/ SweepRows \/ SweepFiles \/ Crash \/ (\E r \in Rows : Expire(r)) \/ UNCHANGED vars
    BY <2>2, <2>7 DEF EditInvoice, SweepRows, SweepFiles, Crash, Expire, vars
  <2>. QED BY <2>2, <2>4, <2>5, <2>6, <2>7 DEF Next
<1>3. (swept \subseteq Files /\ rough \in BOOLEAN /\ events \in 0 .. MaxEvents)'
  <2>1. rough' \in {rough, TRUE} /\ (UNCHANGED events \/ Happens) /\ swept' \subseteq Files BY FlagsStep
  <2>2. rough' \in BOOLEAN BY <1>0, <2>1 DEF OtherFits
  <2>3. events' \in 0 .. MaxEvents BY <1>0, <2>1, EventsAssumption DEF OtherFits, Happens
  <2>. QED BY <2>1, <2>2, <2>3
<1>. QED BY <1>1, <1>2, <1>3 DEF OtherFits

LEMMA StepProceeds ==
    ASSUME Typed, [Next]_vars, NEW c \in Clients,
           \/ UploadStep(c) \/ AsyncStep(c) \/ CreateStep(c) \/ ParseStep(c) \/ ConfirmStep(c)
           \/ RemovalStep(c) \/ AttachStep(c) \/ ImportStep(c)
    PROVE  Proceeds(c)
<1>1. RowsNext BY RowsStep
<1>. QED
  BY <1>1, UploadCarries, AsyncCarries, CreateInsertCarries, LookCarries, MarkCarries, UnmarkedCarries,
     ParseCarries, ConfirmCarries, RemovalCarries, AttachCarries, ImportCarries DEF CreateStep

\* A step of a request, a crash, or nobody's request.
LEMMA ReqsStep ==
    ASSUME Typed, [Next]_vars
    PROVE  \/ UNCHANGED req
           \/ \E c \in Clients : Proceeds(c)
           \/ req' = [c \in Clients |-> NoReq] /\ rough'
<1>2. ASSUME NEW c \in Clients,
             \/ UploadStep(c) \/ AsyncStep(c) \/ CreateStep(c) \/ ParseStep(c) \/ ConfirmStep(c)
             \/ RemovalStep(c) \/ AttachStep(c) \/ ImportStep(c)
      PROVE  Proceeds(c)
  BY <1>2, StepProceeds
<1>3. CASE EditInvoice \/ SweepRows \/ SweepFiles \/ (\E r \in Rows : Expire(r)) \/ UNCHANGED vars
  BY <1>3 DEF EditInvoice, SweepRows, SweepFiles, Expire, vars
<1>4. CASE Crash BY <1>4 DEF Crash
<1>. QED BY <1>2, <1>3, <1>4 DEF Next

LEMMA TypedStep == ASSUME Typed, [Next]_vars PROVE Typed'
<1>1. RowsNext /\ Onwards BY RowsStep DEF RowsNext
<1>2. (req \in [Clients -> Request])' /\ RequestsFit'
  <2>1. CASE UNCHANGED req BY <1>1, <2>1 DEF Typed, TypeOK, RequestsFit, Sees, Onwards
  <2>2. ASSUME NEW c \in Clients, Proceeds(c) PROVE (req \in [Clients -> Request])' /\ RequestsFit'
    <3>1. PICK q : Turn(c, q) /\ Carries(req[c], q) BY <2>2 DEF Proceeds
    <3>2. q.pc \in OnRow => q.row \in Rows /\ inv'[q.row].life # "unborn" BY <3>1 DEF Carries
    <3>. QED BY <1>1, <3>1, <3>2, TurnFits
  <2>3. CASE req' = [c \in Clients |-> NoReq]
    BY <2>3, NoReqFits DEF RequestsFit, Sees, OnRow
  <2>. QED BY <2>1, <2>2, <2>3, ReqsStep
<1>3. TypeOK' BY <1>1, <1>2, AttsStep, OtherStep, TypePartsNext DEF RestFits, OtherFits, LogRow, RowsNext
<1>. QED BY <1>2, <1>3, AttsStep DEF Typed

LEMMA TypedInit == Init => Typed
<1>. SUFFICES ASSUME Init PROVE Typed OBVIOUS
<1>1. Unborn \in InvoiceRow /\ Unborn.life = "unborn" BY DEF Unborn, InvoiceRow, Lives, Marks
<1>2. \A r \in Rows : inv[r] = Unborn BY DEF Init
<1>3. inv \in [Rows -> InvoiceRow] BY <1>1 DEF Init
<1>4. att \in [Atts -> AttRow] /\ \A a \in Atts : att[a].life = "unborn" BY DEF Init, AttRow
<1>5. req \in [Clients -> Request] /\ \A c \in Clients : req[c] = NoReq BY NoReqFits DEF Init
<1>6. TypeOK
  <2>1. RowsFit BY <1>1, <1>2, <1>3 DEF RowsFit
  <2>2. disk \in [Files -> {"unused", "there", "removed"}] BY DEF Init
  <2>0. swept = {} /\ rough = FALSE /\ events = 0 BY DEF Init
  <2>3. swept \subseteq Files /\ events \in 0 .. MaxEvents BY <2>0, EventsAssumption
  <2>5. rough \in BOOLEAN BY <2>0
  <2>4. RestFits BY <1>4, <2>2, <2>3, <2>5 DEF RestFits, Init
  <2>. QED BY <1>5, <2>1, <2>4, TypeParts
<1>7. RequestsFit BY <1>5, NoReqFits DEF RequestsFit, Sees, OnRow
<1>. QED BY <1>4, <1>6, <1>7 DEF Typed, AttsFit

LEMMA TypedAlways == Spec => []Typed
BY TypedInit, TypedStep, PTL DEF Spec

\* Every state is of its type, and what a request has in hand makes sense
\* where it is: no statement is made of a row or a file that is not there.
THEOREM IntakeTypeCorrect == Spec => []TypeOK
<1>1. Typed => TypeOK BY DEF Typed
<1>. QED BY <1>1, TypedAlways, PTL

-----------------------------------------------------------------------------
(* One invoice per upload. *)

\* What a row was before a step.
LEMMA RowBefore ==
    ASSUME Typed, RowsNext, NEW r \in Rows
    PROVE  /\ inv[r].life # "unborn" => inv'[r].hash = inv[r].hash /\ inv'[r].imported = inv[r].imported
           /\ inv[r].life # "unborn" /\ Live(r)' => Live(r)
           /\ inv[r].life = "unborn" => inv'[r] = inv[r] \/ Inserted(inv[r], inv'[r])
           /\ inv'[r].life = "saved" /\ ~inv'[r].imported /\ inv[r].life # "saved" =>
                 \E c \in Clients : At(c, "confirm") /\ req[c].row = r
BY LiveRow DEF RowsNext, RowsGoOn, Inserted, Develops, Live, Lives

LEMMA HeldHashStep == ASSUME UploadInv, [Next]_vars PROVE HeldHash'
<1>0. Typed /\ RowsNext /\ HeldHash BY RowsStep DEF UploadInv
<1>1. ASSUME NEW c \in Clients, req'[c] = req[c], req[c].pc \in {"hash"} \cup Confirming
      PROVE  req'[c].hash = inv'[req'[c].row].hash
  <2>1. req[c].row \in Rows /\ inv[req[c].row].life # "unborn"
    BY <1>0, <1>1, ReqFacts DEF Sees, OnRow, Confirming
  <2>. QED BY <1>0, <1>1, <2>1, RowBefore DEF HeldHash
<1>2. ASSUME NEW c \in Clients, NEW q, Turn(c, q), Carries(req[c], q), q.pc \in {"hash"} \cup Confirming
      PROVE  q.hash = inv'[q.row].hash
  <2>1. q.row \in Rows BY <1>2 DEF Carries, OnRow, Confirming
  <2>2. CASE q.pc = "hash"
    <3>1. q.hash = inv[q.row].hash /\ inv[q.row].life # "unborn" BY <1>0, <1>2, <2>1, <2>2, LiveRow DEF Carries
    <3>. QED BY <1>0, <2>1, <3>1, RowBefore
  <2>3. CASE q.pc \in Confirming
    <3>1. req[c].pc \in {"hash"} \cup Confirming /\ q.row = req[c].row /\ q.hash = req[c].hash
      BY <1>2, <2>3 DEF Carries
    <3>2. inv[q.row].life # "unborn" /\ q.hash = inv[q.row].hash
      BY <1>0, <3>1, ReqFacts DEF Sees, OnRow, Confirming, HeldHash
    <3>. QED BY <1>0, <2>1, <3>2, RowBefore
  <2>. QED BY <1>2, <2>2, <2>3
<1>3. CASE UNCHANGED req BY <1>1, <1>3 DEF HeldHash
<1>4. CASE req' = [c \in Clients |-> NoReq] BY <1>4, NoReqFits DEF HeldHash, Confirming
<1>5. ASSUME NEW c \in Clients, Proceeds(c) PROVE HeldHash'
  <2>1. PICK q : Turn(c, q) /\ Carries(req[c], q) BY <1>5 DEF Proceeds
  <2>2. \A b \in Clients : req'[b] = IF b = c THEN q ELSE req[b]
    BY <1>0, <2>1 DEF Turn, Typed, TypeOK
  <2>3. \A b \in Clients : req'[b].pc \in {"hash"} \cup Confirming => req'[b].hash = inv'[req'[b].row].hash
    BY <1>1, <1>2, <2>1, <2>2
  <2>. QED BY <2>3 DEF HeldHash, Confirming
<1>. QED BY <1>0, <1>3, <1>4, <1>5, ReqsStep

\* The request whose look-up of the content finds nobody.
Clears(c, r) == req[c].pc = "hash" /\ req[c].row = r /\ SameHash(req[c].hash, r) = {}

LEMMA ClearedBefore ==
    ASSUME UploadInv, [Next]_vars
    PROVE  \E c \in Clients \cup {None} : \A r \in Rows :
              Live(r)' /\ ~inv'[r].imported /\ Cleared(r)' =>
                 /\ Live(r) /\ ~inv[r].imported /\ inv'[r].hash = inv[r].hash
                 /\ Cleared(r) \/ (c \in Clients /\ Clears(c, r))
<1>0. Typed /\ RowsNext BY RowsStep DEF UploadInv
<1>1. ASSUME NEW r \in Rows, Live(r)', ~inv'[r].imported, inv[r].life # "unborn"
      PROVE  Live(r) /\ ~inv[r].imported /\ inv'[r].hash = inv[r].hash
  BY <1>0, <1>1, RowBefore
<1>2. ASSUME NEW r \in Rows, inv'[r].life = "saved", ~inv'[r].imported
      PROVE  inv[r].life # "unborn" /\ Cleared(r)
  <2>1. Cleared(r) BY <1>0, <1>2, RowBefore DEF Cleared, Confirming, At
  <2>2. inv[r].life # "unborn" BY <1>0, <1>2, RowBefore DEF Inserted
  <2>. QED BY <2>1, <2>2
<1>3. ASSUME NEW c \in Clients, NEW r \in Rows, req[c].pc \in Confirming, req[c].row = r
      PROVE  inv[r].life # "unborn" /\ Cleared(r)
  BY <1>0, <1>3, ReqFacts DEF Sees, OnRow, Confirming, Cleared
<1>4. CASE UNCHANGED req
  <2>1. \A r \in Rows : Live(r)' /\ ~inv'[r].imported /\ Cleared(r)' =>
           inv[r].life # "unborn" /\ Cleared(r)
    BY <1>2, <1>3, <1>4 DEF Cleared, Confirming
  <2>. QED BY <1>1, <2>1
<1>5. CASE req' = [c \in Clients |-> NoReq]
  <2>1. \A r \in Rows : Live(r)' /\ ~inv'[r].imported /\ Cleared(r)' =>
           inv[r].life # "unborn" /\ Cleared(r)
    BY <1>2, <1>5, NoReqFits DEF Cleared, Confirming
  <2>. QED BY <1>1, <2>1
<1>6. ASSUME NEW c \in Clients, Proceeds(c)
      PROVE  \A r \in Rows :
              Live(r)' /\ ~inv'[r].imported /\ Cleared(r)' =>
                 /\ Live(r) /\ ~inv[r].imported /\ inv'[r].hash = inv[r].hash
                 /\ Cleared(r) \/ Clears(c, r)
  <2>1. PICK q : Turn(c, q) /\ Carries(req[c], q) BY <1>6 DEF Proceeds
  <2>2. \A b \in Clients : req'[b] = IF b = c THEN q ELSE req[b]
    BY <1>0, <2>1 DEF Turn, Typed, TypeOK
  <2>3. ASSUME NEW r \in Rows, q.pc \in Confirming, q.row = r
        PROVE  inv[r].life # "unborn" /\ (Cleared(r) \/ Clears(c, r))
    <3>1. req[c].pc \in {"hash"} \cup Confirming /\ req[c].row = r
      BY <2>1, <2>3 DEF Carries
    <3>2. req[c].pc = "hash" => SameHash(req[c].hash, r) = {} BY <2>1, <2>3, <3>1 DEF Carries
    <3>3. inv[r].life # "unborn" BY <1>0, <3>1, ReqFacts DEF Sees, OnRow, Confirming
    <3>. QED BY <3>1, <3>2, <3>3 DEF Cleared, Clears
  <2>4. \A r \in Rows : Live(r)' /\ ~inv'[r].imported /\ Cleared(r)' =>
           inv[r].life # "unborn" /\ (Cleared(r) \/ Clears(c, r))
    BY <1>2, <1>3, <2>2, <2>3 DEF Cleared, Confirming
  <2>. QED BY <1>1, <2>4
<1>. QED BY <1>0, <1>4, <1>5, <1>6, ReqsStep

LEMMA OneClearedStep == ASSUME UploadInv, [Next]_vars PROVE OneCleared'
<1>1. PICK c \in Clients \cup {None} : \A r \in Rows :
              Live(r)' /\ ~inv'[r].imported /\ Cleared(r)' =>
                 /\ Live(r) /\ ~inv[r].imported /\ inv'[r].hash = inv[r].hash
                 /\ Cleared(r) \/ (c \in Clients /\ Clears(c, r))
  BY ClearedBefore
<1>2. ASSUME NEW i \in Rows, NEW j \in Rows,
             Live(i)', ~inv'[i].imported, Cleared(i)', Live(j)', ~inv'[j].imported, Cleared(j)',
             inv'[i].hash = inv'[j].hash
      PROVE  i = j
  <2>1. /\ Live(i) /\ ~inv[i].imported /\ inv'[i].hash = inv[i].hash
        /\ Live(j) /\ ~inv[j].imported /\ inv'[j].hash = inv[j].hash
        /\ Cleared(i) \/ (c \in Clients /\ Clears(c, i))
        /\ Cleared(j) \/ (c \in Clients /\ Clears(c, j))
    BY <1>1, <1>2
  <2>2. CASE Cleared(i) /\ Cleared(j) BY <1>2, <2>1, <2>2 DEF UploadInv, OneCleared
  <2>3. ASSUME NEW k \in Rows, NEW m \in Rows, c \in Clients, Clears(c, k), Live(m), inv[k].hash = inv[m].hash
        PROVE  k = m
    <3>1. req[c].hash = inv[k].hash BY <2>3 DEF Clears, UploadInv, HeldHash
    <3>. QED BY <2>3, <3>1 DEF Clears, SameHash
  <2>. QED BY <1>2, <2>1, <2>2, <2>3
<1>. QED BY <1>2 DEF OneCleared

LEMMA UploadStepKeeps == ASSUME UploadInv, [Next]_vars PROVE UploadInv'
BY TypedStep, HeldHashStep, OneClearedStep DEF UploadInv

LEMMA UploadInit == Init => UploadInv
<1>. SUFFICES ASSUME Init PROVE UploadInv OBVIOUS
<1>1. \A c \in Clients : req[c].pc = "idle" BY NoReqFits DEF Init
<1>2. \A r \in Rows : ~Live(r) BY DEF Init, Unborn, Live
<1>. QED BY <1>1, <1>2, TypedInit DEF UploadInv, HeldHash, OneCleared, Confirming

\* One uploaded content is saved at most once, whatever overlaps with its
\* confirmation: who is past the look-up of the content counts as saved, and
\* the look-up counts drafts, so two rows cannot both get past it.
THEOREM OneInvoicePerUploadHolds == Spec => []OneInvoicePerUpload
<1>1. Init => UploadInv BY UploadInit
<1>2. UploadInv /\ [Next]_vars => UploadInv' BY UploadStepKeeps
<1>3. UploadInv => OneInvoicePerUpload
  BY DEF UploadInv, OneCleared, OneInvoicePerUpload, Cleared, Live
<1>. QED BY <1>1, <1>2, <1>3, PTL DEF Spec

-----------------------------------------------------------------------------
(* The invoices are rows as UploadLifecycle has them. *)

Documents == [r \in Rows |-> Document(r)]

\* The content a row stands for.
Content(r) == IF inv[r].imported THEN None ELSE inv[r].hash

\* What a row is there.
LEMMA DocumentOf ==
    ASSUME NEW r \in Rows
    PROVE  /\ inv[r].life = "unborn" => Document(r) = Uploads!Absent
           /\ inv[r].life = "gone" => Document(r) = Uploads!Deleted
           /\ inv[r].life = "draft" => Document(r) = Uploads!Draft(Content(r))
           /\ inv[r].life = "saved" => Document(r) = Uploads!Saved(Content(r))
BY DEF Document, Live, Content, Uploads!Absent, Uploads!Deleted, Uploads!Draft, Uploads!Saved

\* A draft is confirmed only while no invoice is saved for its content.
LEMMA ConfirmationIsOneStep ==
    ASSUME UploadInv, UploadInv', NEW r \in Rows, inv[r].life = "draft", inv'[r].life = "saved",
           inv'[r].hash = inv[r].hash, inv'[r].imported = inv[r].imported,
           \A q \in Rows \ {r} : inv'[q] = inv[q],
           Documents' = [Documents EXCEPT ![r] = Document(r)']
    PROVE  \E h \in Hashes : Uploads!Confirmed(r, h)
<1> DEFINE h == inv[r].hash
<1>0. Typed BY DEF UploadInv
<1>1. ~inv[r].imported /\ h \in Hashes /\ h # None
  <2>1. inv[r] \in InvoiceRow /\ ~inv[r].imported /\ h # None BY <1>0, LiveRow
  <2>. QED BY <2>1 DEF InvoiceRow
<1>2. Document(r) = Uploads!Draft(h) BY <1>1, DocumentOf DEF Content
<1>3. Document(r)' = Uploads!Saved(h) BY <1>1 DEF Document, Live, Uploads!Saved
<1>4. ASSUME NEW q \in Rows, Document(q) = Uploads!Saved(h) PROVE FALSE
  <2>1. inv[q].life = "saved" /\ ~inv[q].imported /\ inv[q].hash = h
    BY <1>0, <1>1, <1>4, LiveRow DEF Document, Uploads!Saved, Lives, Live
  <2>2. q # r BY <2>1
  <2>3. inv'[q] = inv[q] BY <2>2
  <2>. QED BY <1>1, <2>1, <2>2, <2>3 DEF UploadInv, OneCleared, Cleared, Live
<1>5. Uploads!Confirmed(r, h)
  BY <1>2, <1>3, <1>4 DEF Uploads!Confirmed, Uploads!Write, Documents
<1>. QED BY <1>1, <1>5

\* One row is written.
LEMMA RowFollowsLifecycle ==
    ASSUME UploadInv, UploadInv', RowsNext, NEW r \in Rows, \A q \in Rows \ {r} : inv'[q] = inv[q]
    PROVE  [Uploads!Next]_Documents
<1>0. Typed BY DEF UploadInv
<1>1. \A q \in Rows \ {r} : Document(q)' = Document(q) BY DEF Document, Live
<1>2. Documents' = [Documents EXCEPT ![r] = Document(r)'] BY <1>1 DEF Documents
<1>3. CASE Document(r)' = Document(r) BY <1>2, <1>3 DEF Documents
<1>4. CASE Inserted(inv[r], inv'[r])
  <2>1. Document(r) = Uploads!Absent BY <1>4, DocumentOf DEF Inserted
  <2>2. CASE inv'[r].life = "draft" /\ ~inv'[r].imported
    <3> DEFINE h == inv'[r].hash
    <3>1. h \in Hashes BY <1>4 DEF Inserted
    <3>2. Document(r)' = Uploads!Draft(h) BY <2>2 DEF Document, Live, Uploads!Draft
    <3>3. Uploads!Uploaded(r, h)
      BY <1>2, <2>1, <3>2 DEF Uploads!Uploaded, Uploads!Write, Documents
    <3>. QED BY <3>1, <3>3 DEF Uploads!Next
  <2>3. CASE inv'[r].life = "saved" /\ inv'[r].imported
    <3>1. Document(r)' = Uploads!Saved(None) BY <2>3 DEF Document, Live, Uploads!Saved
    <3>2. Uploads!Entered(r)
      BY <1>2, <2>1, <3>1 DEF Uploads!Entered, Uploads!Write, Documents
    <3>. QED BY <3>2 DEF Uploads!Next
  <2>. QED BY <1>4, <2>2, <2>3 DEF Inserted
<1>5. CASE Develops(inv[r], inv'[r], r) /\ Live(r) /\ inv'[r].life = "gone"
  <2>1. Document(r).life \in {"draft", "saved"} BY <1>5 DEF Document, Live
  <2>2. Document(r)' = Uploads!Deleted BY <1>5 DEF Document, Live, Uploads!Deleted
  <2>3. Documents' = [q \in Rows |-> IF q \in {r} THEN Uploads!Deleted ELSE Documents[q]]
    BY <1>2, <2>2 DEF Documents
  <2>4. Uploads!Removed({r}) BY <2>1, <2>3 DEF Uploads!Removed, Documents
  <2>. QED BY <2>4 DEF Uploads!Next
<1>6. CASE Develops(inv[r], inv'[r], r) /\ inv[r].life = "draft" /\ inv'[r].life = "saved"
  <2>1. \E h \in Hashes : Uploads!Confirmed(r, h)
    BY <1>2, <1>6, ConfirmationIsOneStep DEF Develops
  <2>. QED BY <2>1 DEF Uploads!Next
<1>7. CASE Develops(inv[r], inv'[r], r) /\ inv'[r].life = inv[r].life
  <2>1. Document(r)' = Document(r) BY <1>7 DEF Develops, Document, Live
  <2>. QED BY <1>3, <2>1
<1>8. CASE inv'[r] = inv[r]
  <2>1. Document(r)' = Document(r) BY <1>8 DEF Document, Live
  <2>. QED BY <1>3, <2>1
<1>9. inv[r].life \in Lives /\ inv'[r].life \in Lives
  BY <1>0, LiveRow DEF UploadInv, Typed, TypeOK, InvoiceRow
<1>10. CASE Develops(inv[r], inv'[r], r)
  BY <1>5, <1>6, <1>7, <1>9, <1>10 DEF Develops, Lives, Live
<1>. QED BY <1>4, <1>8, <1>10 DEF RowsNext, RowsGoOn

\* Every step of the requests is a step of the rows or leaves them as they are.
LEMMA StepsFollowLifecycle ==
    ASSUME UploadInv, UploadInv', [Next]_vars
    PROVE  [Uploads!Next]_Documents
<1>0. RowsNext BY RowsStep DEF UploadInv
<1>1. CASE \E r \in Rows : \A q \in Rows \ {r} : inv'[q] = inv[q]
  BY <1>0, <1>1, RowFollowsLifecycle
<1>2. CASE \A q \in Rows : inv'[q] # inv[q] => Live(q) /\ inv'[q].life = "gone"
  <2> DEFINE dead == {q \in Rows : inv'[q] # inv[q]}
  <2>1. \A q \in dead : Document(q).life \in {"draft", "saved"} BY <1>2 DEF Document, Live
  <2>2. ASSUME NEW q \in Rows
        PROVE  Document(q)' = IF q \in dead THEN Uploads!Deleted ELSE Document(q)
    <3>1. CASE q \in dead
      <4>1. inv'[q].life = "gone" BY <1>2, <3>1
      <4>2. Document(q)' = Uploads!Deleted BY <4>1 DEF Document, Live, Uploads!Deleted
      <4>. QED BY <3>1, <4>2
    <3>2. CASE q \notin dead
      <4>1. inv'[q] = inv[q] BY <3>2
      <4>2. Document(q)' = Document(q) BY <4>1 DEF Document, Live
      <4>. QED BY <3>2, <4>2
    <3>. QED BY <3>1, <3>2
  <2> HIDE DEF dead
  <2>3. dead \in SUBSET Rows BY DEF dead
  <2>4. Uploads!Removed(dead) BY <2>1, <2>2, <2>3 DEF Uploads!Removed
  <2>. QED BY <2>3, <2>4 DEF Uploads!Next
<1>. QED BY <1>0, <1>1, <1>2 DEF RowsNext, AtOnce

\* Whatever other requests do between the statements of a confirmation, it is
\* one step of UploadLifecycle; so is everything else that becomes of an invoice.
THEOREM InvoicesFollowLifecycle == Spec => Lifecycle
<1>1. Init => UploadInv BY UploadInit
<1>2. UploadInv /\ [Next]_vars => UploadInv' BY UploadStepKeeps
<1>3. Init => Uploads!Init
  <2>1. Init => \A r \in Rows : Document(r) = Uploads!Absent BY DocumentOf DEF Init, Unborn
  <2>. QED BY <2>1 DEF Uploads!Init
<1>4. UploadInv /\ UploadInv' /\ [Next]_vars => [Uploads!Next]_Documents BY StepsFollowLifecycle
<1>5. [Uploads!Next]_Documents <=> [Uploads!Next]_[r \in Rows |-> Document(r)] BY DEF Documents
<1>. QED BY <1>1, <1>2, <1>3, <1>4, <1>5, PTL DEF Spec, Lifecycle, Uploads!Spec

-----------------------------------------------------------------------------
(* Twins are noticed. *)

LEMMA AsMadeStep == ASSUME TwinInv, [Next]_vars PROVE AsMadeIsImported'
<1>0. Typed /\ RowsNext /\ AsMadeIsImported BY RowsStep DEF TwinInv
<1>1. \A r \in Rows : inv'[r].asMade => inv'[r].imported /\ inv'[r].life \in {"saved", "gone"}
  BY <1>0 DEF RowsNext, RowsGoOn, Inserted, Develops, AsMadeIsImported
<1>2. ASSUME NEW c \in Clients, req'[c] = req[c], req[c].kind = "task" PROVE ~inv'[req[c].row].imported
  <2>1. req[c].row \in Rows /\ inv[req[c].row].life # "unborn" /\ ~inv[req[c].row].imported
    BY <1>0, <1>2, ReqFacts DEF Fits, Sees, OnRow, AsMadeIsImported
  <2>. QED BY <1>0, <2>1, RowBefore
<1>3. ASSUME NEW c \in Clients, NEW q, Turn(c, q), Carries(req[c], q), q.kind = "task"
      PROVE  ~inv'[q.row].imported
  <2>1. \/ req[c].kind = "task" /\ q.row = req[c].row
        \/ q.row \in Rows /\ inv[q.row].life # "unborn" /\ ~inv[q.row].imported
    BY <1>3 DEF Carries
  <2>2. q.row \in Rows /\ inv[q.row].life # "unborn" /\ ~inv[q.row].imported
    BY <1>0, <2>1, ReqFacts DEF Fits, Sees, OnRow, AsMadeIsImported
  <2>. QED BY <1>0, <2>2, RowBefore
<1>4. CASE UNCHANGED req BY <1>1, <1>2, <1>4 DEF AsMadeIsImported
<1>5. CASE req' = [c \in Clients |-> NoReq] BY <1>1, <1>5, NoReqFits DEF AsMadeIsImported
<1>6. ASSUME NEW c \in Clients, Proceeds(c) PROVE AsMadeIsImported'
  <2>1. PICK q : Turn(c, q) /\ Carries(req[c], q) BY <1>6 DEF Proceeds
  <2>2. \A b \in Clients : req'[b] = IF b = c THEN q ELSE req[b]
    BY <1>0, <2>1 DEF Turn, Typed, TypeOK
  <2>3. \A b \in Clients : req'[b].kind = "task" => ~inv'[req'[b].row].imported
    BY <1>2, <1>3, <2>1, <2>2
  <2>. QED BY <1>1, <2>3 DEF AsMadeIsImported
<1>. QED BY <1>0, <1>4, <1>5, <1>6, ReqsStep

LEMMA ByNumberStep == ASSUME TwinInv, [Next]_vars PROVE LooksByNumber'
<1>0. Typed /\ RowsNext /\ LooksByNumber BY RowsStep DEF TwinInv
<1>1. ASSUME NEW r \in Rows, inv[r].life # "unborn", inv'[r].asMade
      PROVE  inv[r].asMade /\ inv'[r].number = inv[r].number
  BY <1>0, <1>1 DEF RowsNext, RowsGoOn, Inserted, Develops
<1>2. ASSUME NEW c \in Clients, NEW r \in Rows, Looking(c, r), inv'[r].asMade
      PROVE  req[c].num = inv'[r].number
  <2>1. inv[r].life # "unborn" BY <1>0, <1>2, ReqFacts DEF Looking, Sees, OnRow
  <2>. QED BY <1>0, <1>1, <1>2, <2>1 DEF LooksByNumber
<1>3. ASSUME NEW c \in Clients, NEW q, Turn(c, q), Carries(req[c], q), Looks(q), inv'[q.row].asMade
      PROVE  q.num = inv'[q.row].number
  <2>1. \/ Looks(req[c]) /\ q.row = req[c].row /\ q.num = req[c].num
        \/ q.row \in Rows /\ inv[q.row].life = "unborn" /\ inv'[q.row].number = q.num
    BY <1>3 DEF Carries
  <2>2. CASE Looks(req[c]) /\ q.row = req[c].row /\ q.num = req[c].num
    <3>1. req[c].row \in Rows BY <1>0, <2>2, ReqFacts DEF Looks, Sees, OnRow
    <3>2. Looking(c, req[c].row) BY <2>2 DEF Looks, Looking
    <3>. QED BY <1>2, <1>3, <2>2, <3>1, <3>2
  <2>. QED BY <2>1, <2>2
<1>4. CASE UNCHANGED req BY <1>2, <1>4 DEF LooksByNumber, Looking
<1>5. CASE req' = [c \in Clients |-> NoReq] BY <1>5, NoReqFits DEF LooksByNumber, Looking
<1>6. ASSUME NEW c \in Clients, Proceeds(c) PROVE LooksByNumber'
  <2>1. PICK q : Turn(c, q) /\ Carries(req[c], q) BY <1>6 DEF Proceeds
  <2>2. \A b \in Clients : req'[b] = IF b = c THEN q ELSE req[b]
    BY <1>0, <2>1 DEF Turn, Typed, TypeOK
  <2>3. ASSUME NEW b \in Clients, NEW r \in Rows, Looking(b, r)', inv'[r].asMade
        PROVE  req'[b].num = inv'[r].number
    <3>1. CASE b = c BY <1>3, <2>1, <2>2, <2>3, <3>1 DEF Looking, Looks
    <3>2. CASE b # c BY <1>2, <2>2, <2>3, <3>2 DEF Looking
    <3>. QED BY <3>1, <3>2
  <2>. QED BY <2>3 DEF LooksByNumber
<1>. QED BY <1>0, <1>4, <1>5, <1>6, ReqsStep

\* A row that comes in as saved is made by an import that will look for others.
LEMMA InsertLooks ==
    ASSUME Typed, [Next]_vars, NEW r \in Rows, inv[r].life = "unborn", inv'[r].life = "saved"
    PROVE  \E c \in Clients : Looking(c, r)'
<1>. DEFINE Goal == \E c \in Clients : Looking(c, r)'
<1>0. /\ inv'[r] # inv[r] /\ inv \in [Rows -> InvoiceRow] /\ req \in [Clients -> Request] /\ ~Live(r)
      /\ r \notin Expired
  BY DEF Typed, TypeOK, Live, Expired
<1>1. ASSUME NEW c \in Clients, UploadInsert(c) PROVE FALSE
  <2>1. PICK x \in Rows : inv' = [inv EXCEPT ![x] = NewRow(c, "draft", None)] BY <1>1 DEF UploadInsert
  <2>2. NewRow(c, "draft", None).life = "draft" BY DEF NewRow, Unborn
  <2>. QED BY <1>0, <2>1, <2>2
<1>2. ASSUME NEW c \in Clients, CreateInsert(c) PROVE Goal
  <2>0. req[c] \in Request /\ Fits(req[c]) /\ At(c, "insert") /\ req[c].kind # "async"
    BY <1>2, ReqFacts DEF CreateInsert
  <2>1. PICK x \in Rows, n \in Numbers \cup {None} :
          /\ inv' = [inv EXCEPT ![x] = NewRow(c, IF req[c].kind = "sync" THEN "draft" ELSE "saved", n)]
          /\ req' = [req EXCEPT ![c].pc = "look", ![c].row = x, ![c].num = n]
    BY <1>2 DEF CreateInsert
  <2>2. x = r BY <1>0, <2>1
  <2>3. req'[c].pc = "look" /\ req'[c].row = r /\ req'[c].kind = req[c].kind
    BY <1>0, <2>0, <2>1, <2>2 DEF Request
  <2>4. req[c].kind # "task" BY <2>0 DEF Fits, At
  <2>. QED BY <2>3, <2>4 DEF Looking
<1>3. ASSUME NEW c \in Clients, UploadRepoint(c) \/ UploadRepointUnread(c) PROVE FALSE
  BY <1>0, <1>3 DEF UploadRepoint, UploadRepointUnread, Repointed
<1>4. ASSUME NEW c \in Clients, Mark(c) \/ ParseWrite(c) \/ ConfirmWrite(c) PROVE FALSE
  <2>1. PICK x : inv' = Updated(req[c].row, x) BY <1>4 DEF Mark, ParseWrite, ConfirmWrite, Parsed
  <2>. QED BY <1>0, <2>1 DEF Updated
<1>5. ASSUME NEW c \in Clients,
             \/ UploadStep(c) \/ (AsyncStep(c) /\ ~UploadInsert(c)) \/ (CreateStep(c) /\ ~CreateInsert(c))
             \/ ParseStep(c) \/ ConfirmStep(c)
      PROVE  FALSE
  BY <1>0, <1>3, <1>4, <1>5, UnmarkedShape
     DEF UploadStep, UploadSave, AsyncSave, FileSaved, UploadFind, UploadFails, AsyncStep, AsyncFind, UploadStat,
         CreateStep, Look, ParseStep, ParseRead, ConfirmStep, ConfirmRead, ConfirmHash, ConfirmNumber, ConfirmStatus
<1>6. ASSUME NEW c \in Clients, RemovalStep(c) \/ AttachStep(c) \/ ImportStep(c) PROVE FALSE
  BY <1>0, <1>6
     DEF RemovalStep, DeleteRead, DeleteCommit, RemoveFiles, TripPreview, TripCommit, TripRefused, DeleteAttachment,
         AttachStep, AttachSave, AttachCount, AttachInsert, AttachFails, ImportStep, ImportRead, ImportParsing,
         ImportFails, ImportFetch, ImportNoPdf, ImportNoInvoice, ImportSave, ImportRetries, ImportExtra,
         ImportFinish, Updated
<1>7. CASE EditInvoice \/ SweepRows \/ SweepFiles \/ Crash \/ (\E x \in Rows : Expire(x)) \/ UNCHANGED vars
  BY <1>0, <1>7 DEF EditInvoice, SweepRows, SweepFiles, Crash, Expire, vars
<1>. QED BY <1>1, <1>2, <1>5, <1>6, <1>7 DEF Next

\* How a search for others ends.
LEMMA LookEnds ==
    ASSUME Typed, [Next]_vars, NEW c \in Clients, NEW r \in Rows, Looking(c, r), Live(r)
    PROVE  \/ Looking(c, r)' \/ rough' \/ Candidates(req[c].num, r) = {}
           \/ inv'[r].dedup = "suspected"
<1>. DEFINE Goal == \/ Looking(c, r)' \/ rough' \/ Candidates(req[c].num, r) = {}
                    \/ inv'[r].dedup = "suspected"
<1>0. req[c] \in Request /\ Fits(req[c]) /\ req \in [Clients -> Request] /\ inv[r] \in InvoiceRow
      /\ inv \in [Rows -> InvoiceRow]
  BY ReqFacts, LiveRow DEF Typed, TypeOK
<1>1. CASE Look(c)
  <2>1. CASE Candidates(req[c].num, r) # {}
    <3>1. req' = [req EXCEPT ![c].pc = "mark", ![c].mark = "suspected"]
      BY <1>1, <2>1 DEF Look, Looking
    <3>2. Looking(c, r)' BY <1>0, <3>1 DEF Looking, Request
    <3>. QED BY <3>2
  <2>. QED BY <2>1
<1>2. CASE Mark(c)
  <2>1. req[c].mark = "suspected" BY <1>0, <1>2 DEF Mark, At, Looking, Fits
  <2>2. inv' = [inv EXCEPT ![r] = [inv[r] EXCEPT !.dedup = req[c].mark]]
    BY <1>2 DEF Mark, Updated, Looking
  <2>3. [inv[r] EXCEPT !.dedup = req[c].mark].dedup = req[c].mark BY <1>0 DEF InvoiceRow
  <2>4. inv'[r] = [inv[r] EXCEPT !.dedup = req[c].mark] BY <1>0, <2>2
  <2>. QED BY <2>1, <2>3, <2>4
<1>3. CASE CreateUnmarked(c) BY <1>3, UnmarkedShape
<1>4. CASE Crash BY <1>4 DEF Crash
<1>5. ASSUME UNCHANGED <<req>> PROVE Goal BY <1>5 DEF Looking
<1>6. ASSUME NEW b \in Clients, b # c, Proceeds(b) PROVE Goal
  BY <1>0, <1>6 DEF Proceeds, Turn, Looking
<1>7. ASSUME UploadStep(c) \/ AsyncStep(c) \/ CreateInsert(c) \/ ParseStep(c) \/ ConfirmStep(c) PROVE FALSE
  BY <1>7
     DEF UploadStep, UploadSave, AsyncSave, FileSaved, UploadFind, UploadFails, AsyncStep, AsyncFind, UploadStat,
         UploadRepoint, UploadRepointUnread, UploadInsert, CreateInsert, ParseStep, ParseRead, ParseWrite,
         ConfirmStep, ConfirmRead, ConfirmHash, ConfirmNumber, ConfirmStatus, ConfirmWrite, Begins, At, Looking
<1>8. ASSUME RemovalStep(c) \/ AttachStep(c) \/ ImportStep(c) PROVE FALSE
  BY <1>8
     DEF RemovalStep, DeleteRead, DeleteCommit, RemoveFiles, TripPreview, TripCommit, TripRefused, DeleteAttachment,
         AttachStep, AttachSave, AttachCount, AttachInsert, AttachFails, ImportStep, ImportRead, ImportParsing,
         ImportFails, ImportFetch, ImportNoPdf, ImportNoInvoice, ImportSave, ImportRetries, ImportExtra,
         ImportFinish, Begins, At, Looking
<1>9. ASSUME NEW b \in Clients,
             \/ UploadStep(b) \/ AsyncStep(b) \/ CreateStep(b) \/ ParseStep(b) \/ ConfirmStep(b)
             \/ RemovalStep(b) \/ AttachStep(b) \/ ImportStep(b)
      PROVE  Goal
  <2>1. CASE b # c BY <1>6, <1>9, <2>1, StepProceeds
  <2>2. CASE b = c BY <1>1, <1>2, <1>3, <1>7, <1>8, <1>9, <2>2 DEF CreateStep
  <2>. QED BY <2>1, <2>2
<1>10. CASE EditInvoice \/ SweepRows \/ SweepFiles \/ (\E x \in Rows : Expire(x)) \/ UNCHANGED vars
  BY <1>5, <1>10 DEF EditInvoice, SweepRows, SweepFiles, Expire, vars
<1>. QED BY <1>4, <1>9, <1>10 DEF Next

LEMMA RoughStays == ASSUME Typed, [Next]_vars, ~rough' PROVE ~rough
BY FlagsStep

\* Where a row that nothing is known of comes from.
LEMMA PlainBefore ==
    ASSUME TwinInv, [Next]_vars, NEW r \in Rows, Plain(r)'
    PROVE  \/ Plain(r) /\ inv'[r].number = inv[r].number
           \/ inv[r].life = "unborn"
<1>0. Typed /\ RowsNext /\ AsMadeIsImported BY RowsStep DEF TwinInv
<1>1. inv[r] \in InvoiceRow BY <1>0, LiveRow
<1>2. CASE inv'[r] = inv[r] BY <1>2 DEF Plain
<1>3. CASE Inserted(inv[r], inv'[r]) BY <1>3 DEF Inserted
<1>4. CASE Develops(inv[r], inv'[r], r)
  <2>1. /\ inv[r].asMade /\ inv'[r].number = inv[r].number /\ inv[r].life = "saved"
        /\ inv'[r].dedup = "ok"
        /\ inv'[r].dedup # inv[r].dedup => \E c \in Clients :
                At(c, "mark") /\ req[c].row = r /\ inv'[r].dedup = req[c].mark
    BY <1>4 DEF Plain, Develops
  <2>2. inv[r].imported BY <1>0, <2>1 DEF AsMadeIsImported
  <2>3. ASSUME NEW c \in Clients, At(c, "mark"), req[c].row = r, req[c].mark = "ok" PROVE FALSE
    <3>1. req[c].kind = "task" BY <1>0, <2>3, ReqFacts DEF Fits, At
    <3>. QED BY <1>0, <2>2, <2>3, <3>1 DEF AsMadeIsImported
  <2>4. inv[r].dedup = "ok" BY <2>1, <2>3
  <2>. QED BY <2>1, <2>4 DEF Plain
<1>. QED BY <1>0, <1>2, <1>3, <1>4 DEF RowsNext, RowsGoOn

LEMMA PendingStep == ASSUME TwinInv, [Next]_vars PROVE TwinsArePending'
<1>0. Typed /\ AsMadeIsImported /\ LooksByNumber BY DEF TwinInv
<1>1. ASSUME ~rough', NEW i \in Rows, NEW j \in Rows, Plain(i)', Plain(j)',
             inv'[i].number = inv'[j].number, inv'[i].number # None, i # j
      PROVE  \E c \in Clients : Looking(c, i)' \/ Looking(c, j)'
  <2>1. ASSUME NEW r \in Rows, Plain(r)', inv[r].life = "unborn" PROVE \E c \in Clients : Looking(c, r)'
    BY <1>0, <2>1, InsertLooks DEF Plain
  <2>2. CASE inv[i].life = "unborn" \/ inv[j].life = "unborn" BY <1>1, <2>1, <2>2
  <2>3. CASE inv[i].life # "unborn" /\ inv[j].life # "unborn"
    <3>1. /\ Plain(i) /\ inv'[i].number = inv[i].number
          /\ Plain(j) /\ inv'[j].number = inv[j].number
      BY <1>1, <2>3, PlainBefore
    <3>2. ~rough BY <1>0, <1>1, RoughStays
    <3>3. PICK c \in Clients : Looking(c, i) \/ Looking(c, j)
      BY <1>1, <3>1, <3>2 DEF TwinInv, TwinsArePending
    <3>4. ASSUME NEW r \in Rows, NEW s \in Rows, Plain(r), Plain(r)', Plain(s), Looking(c, r), r # s,
                 inv[r].number = inv[s].number, inv[r].number # None
          PROVE  Looking(c, r)'
      <4>1. req[c].num = inv[r].number BY <1>0, <3>4 DEF LooksByNumber, Plain
      <4>2. s \in Candidates(req[c].num, r) BY <3>4, <4>1 DEF Candidates, Plain
      <4>3. inv'[r].dedup # "suspected" /\ Live(r) BY <3>4 DEF Plain, Live
      <4>. QED BY <1>0, <1>1, <3>4, <4>2, <4>3, LookEnds
    <3>. QED BY <1>1, <3>1, <3>3, <3>4
  <2>. QED BY <2>2, <2>3
<1>. QED BY <1>1 DEF TwinsArePending

LEMMA TwinStepKeeps == ASSUME TwinInv, [Next]_vars PROVE TwinInv'
<1>1. Typed' BY TypedStep DEF TwinInv
<1>. QED BY <1>1, AsMadeStep, ByNumberStep, PendingStep DEF TwinInv

\* Of two rows that an import has made for one number one is marked, unless a
\* statement failed or the process died: each is inserted before the other is
\* looked for, so the later search finds the earlier row.
THEOREM TwinsAreNoticedHolds == Spec => []TwinsAreNoticed
<1>1. Init => TwinInv
  <2>. SUFFICES ASSUME Init PROVE TwinInv OBVIOUS
  <2>1. \A c \in Clients : req[c] = NoReq BY DEF Init
  <2>2. \A r \in Rows : ~inv[r].asMade BY DEF Init, Unborn
  <2>3. Typed BY TypedInit
  <2>. QED BY <2>1, <2>2, <2>3, NoReqFits
           DEF TwinInv, AsMadeIsImported, LooksByNumber, TwinsArePending, Looking, Plain
<1>2. TwinInv /\ [Next]_vars => TwinInv' BY TwinStepKeeps
<1>3. TwinInv => TwinsAreNoticed
  BY DEF TwinInv, TwinsArePending, TwinsAreNoticed, Unmarked, Plain, Looking
<1>. QED BY <1>1, <1>2, <1>3, PTL DEF Spec

-----------------------------------------------------------------------------
(* The log of the message. *)

\* Who sets a log to "parsing" goes on to read the message.
LEMMA ParsingBegins ==
    ASSUME Typed, [Next]_vars, log'.status = "parsing", log.status # "parsing"
    PROVE  \E c \in Clients : Parses(req'[c])
<1>0. log \in LogRow BY DEF Typed, TypeOK, LogRow
<1>1. \A s : [log EXCEPT !.status = s].status = s BY <1>0 DEF LogRow
<1>2. ASSUME NEW c \in Clients, ImportParsing(c) PROVE Parses(req'[c])
  <2>1. req[c] \in Request /\ req \in [Clients -> Request] BY ReqFacts
  <2>2. req'[c].pc = "fetch" BY <1>2, <2>1 DEF ImportParsing, Goes, Request
  <2>. QED BY <2>2 DEF Parses
<1>3. ASSUME NEW c \in Clients,
             UploadStep(c) \/ AsyncStep(c) \/ CreateStep(c) \/ ParseStep(c) \/ ConfirmStep(c)
      PROVE  FALSE
  BY <1>1, <1>3, UnmarkedShape
     DEF UploadStep, UploadSave, AsyncSave, FileSaved, UploadFind, UploadFails, AsyncStep, AsyncFind, UploadStat,
         UploadRepoint, UploadRepointUnread, UploadInsert, CreateStep, CreateInsert, Look, Mark, ParseStep,
         ParseRead, ParseWrite, ConfirmStep, ConfirmRead, ConfirmHash, ConfirmNumber, ConfirmStatus, ConfirmWrite
<1>4. ASSUME NEW c \in Clients,
             RemovalStep(c) \/ AttachStep(c) \/ (ImportStep(c) /\ ~ImportParsing(c))
      PROVE  FALSE
  <2>1. [status |-> "received", ref |-> None].status = "received" OBVIOUS
  <2>2. \A x : [status |-> "parsed", ref |-> x].status = "parsed" OBVIOUS
  <2>3. CASE RemovalStep(c) \/ AttachStep(c)
    <3>1. UNCHANGED log \/ log' = [status |-> "received", ref |-> None]
      BY <2>3
         DEF RemovalStep, DeleteRead, DeleteCommit, RemoveFiles, TripPreview, TripCommit, TripRefused,
             DeleteAttachment, AttachStep, AttachSave, AttachCount, AttachInsert, AttachFails
    <3>. QED BY <2>1, <3>1
  <2>4. CASE ImportStep(c) /\ ~ImportParsing(c)
    <3>1. \/ UNCHANGED log \/ log' = [status |-> "received", ref |-> None]
          \/ log' = [log EXCEPT !.status = "error"] \/ log' = [status |-> "parsed", ref |-> req[c].main]
      BY <2>4
         DEF ImportStep, ImportRead, ImportFails, ImportFetch, ImportNoPdf, ImportNoInvoice, ImportSave,
             ImportRetries, ImportExtra, ImportFinish
    <3>. QED BY <1>1, <2>1, <2>2, <3>1
  <2>. QED BY <1>4, <2>3, <2>4
<1>5. CASE EditInvoice \/ SweepRows \/ SweepFiles \/ Crash \/ (\E x \in Rows : Expire(x)) \/ UNCHANGED vars
  BY <1>5 DEF EditInvoice, SweepRows, SweepFiles, Crash, Expire, vars
<1>. QED BY <1>2, <1>3, <1>4, <1>5 DEF Next

\* A log says "parsing" only while an import is at it: every way out of the
\* import, and of the creation of the invoices it makes, says how it went.
THEOREM ParsingIsHeldHolds == Spec => []ParsingIsHeld
<1>1. Init => Typed /\ ParsingIsHeld
  <2>1. Init => ParsingIsHeld BY DEF Init, ParsingIsHeld
  <2>. QED BY <2>1, TypedInit
<1>2. ASSUME Typed, ParsingIsHeld, [Next]_vars PROVE Typed' /\ ParsingIsHeld'
  <2>1. ASSUME log'.status = "parsing", ~rough' PROVE \E c \in Clients : Parses(req'[c])
    <3>0. ~rough /\ req \in [Clients -> Request] BY <1>2, <2>1, RoughStays, ReqFacts DEF Typed, TypeOK
    <3>1. CASE log.status # "parsing" BY <1>2, <2>1, <3>1, ParsingBegins
    <3>2. CASE log.status = "parsing"
      <4>1. PICK c \in Clients : Parses(req[c]) BY <1>2, <3>0, <3>2 DEF ParsingIsHeld, Parses, Imports
      <4>2. ASSUME NEW b \in Clients, Proceeds(b) PROVE Parses(req'[c])
        <5>1. PICK q : Turn(b, q) /\ Carries(req[b], q) BY <4>2 DEF Proceeds
        <5>2. req'[c] = IF c = b THEN q ELSE req[c] BY <3>0, <5>1 DEF Turn
        <5>3. Parses(req[b]) => Parses(q) BY <2>1, <5>1 DEF Carries
        <5>. QED BY <4>1, <5>2, <5>3
      <4>. QED BY <1>2, <2>1, <4>1, <4>2, ReqsStep
    <3>. QED BY <3>1, <3>2
  <2>2. ParsingIsHeld' BY <2>1 DEF ParsingIsHeld, Parses, Imports
  <2>. QED BY <1>2, <2>2, TypedStep
<1>. QED BY <1>1, <1>2, PTL DEF Spec

-----------------------------------------------------------------------------
(* Files: what keeps the claims on them apart. *)

\* Claims are given up, and one request at most takes a name that is new.
LEMMA FewerClaims ==
    ASSUME NEW own, NEW ao, NEW hand, NEW doom, NEW list, NEW dk, NEW rq, NEW of,
           NEW own2, NEW ao2, NEW hand2, NEW doom2, NEW list2, NEW dk2, NEW rq2, NEW of2,
           Sound(own, ao, hand, doom, list, dk, rq, of),
           doom2 \subseteq Files, \A c \in Clients : list2[c] \subseteq Files,
           \A r \in Rows : own[r] \in Files \cup {None}, \A a \in Atts : ao[a] \in Files \cup {None},
           \A c \in Clients : hand[c] \in Files \cup {None},
           \A r \in Rows : own2[r] \in {own[r], None},
           \A a \in Atts : ao2[a] \in {ao[a], None} /\ (ao2[a] # None => of2[a].inv = of[a].inv),
           \E k : \A c \in Clients : \/ hand2[c] \in {hand[c], None}
                                     \/ c = k /\ dk[hand2[c]] = "unused" /\ dk2[hand2[c]] # "unused",
           \A f \in doom2 : f \in doom \/ (dk[f] # "unused" /\ Free(f, own2, ao2, hand2)),
           \A c \in Clients : \A f \in list2[c] :
              \/ f \in list[c] /\ rq2[c].row = rq[c].row
              \/ dk[f] # "unused" /\ MostlyOf(f, rq2[c].row, own2, ao2, hand2, of2),
           \A f \in Files : dk[f] # "unused" => dk2[f] # "unused"
    PROVE  Sound(own2, ao2, hand2, doom2, list2, dk2, rq2, of2)
<1>1. NamesTaken(own, ao, hand, doom, list, dk) /\ ClaimsApart(own, ao, hand) BY DEF Sound
<1>2. NamesTaken(own2, ao2, hand2, doom2, list2, dk2) BY <1>1 DEF NamesTaken
<1>3. ClaimsApart(own2, ao2, hand2) BY <1>1 DEF NamesTaken, ClaimsApart
<1>4. \A f \in doom2 : Free(f, own2, ao2, hand2) BY <1>1, NoneAssumption DEF Sound, Free, NamesTaken
<1>5. ASSUME NEW c \in Clients, NEW f \in list2[c] PROVE MostlyOf(f, rq2[c].row, own2, ao2, hand2, of2)
  <2>1. CASE f \in list[c] /\ rq2[c].row = rq[c].row
    <3>1. MostlyOf(f, rq[c].row, own, ao, hand, of) /\ dk[f] # "unused" /\ f # None
      BY <1>1, <2>1, NoneAssumption DEF Sound, NamesTaken
    <3>. QED BY <2>1, <3>1 DEF MostlyOf
  <2>. QED BY <2>1
<1>. QED BY <1>2, <1>3, <1>4, <1>5 DEF Sound

\* The file in hand becomes a row's.
LEMMA HandToRow ==
    ASSUME NEW own, NEW ao, NEW hand, NEW doom, NEW list, NEW dk, NEW rq, NEW of,
           NEW own2, NEW hand2,
           Sound(own, ao, hand, doom, list, dk, rq, of),
           None \notin doom, \A b \in Clients : None \notin list[b],
           \E c \in Clients, r \in Rows :
              /\ hand[c] # None /\ own2[r] = hand[c] /\ hand2[c] = None
              /\ \A q \in Rows \ {r} : own2[q] = own[q]
              /\ \A b \in Clients \ {c} : hand2[b] = hand[b]
    PROVE  Sound(own2, ao, hand2, doom, list, dk, rq, of)
<1>. PICK c \in Clients, r \in Rows :
              /\ hand[c] # None /\ own2[r] = hand[c] /\ hand2[c] = None
              /\ \A q \in Rows \ {r} : own2[q] = own[q]
              /\ \A b \in Clients \ {c} : hand2[b] = hand[b]
  OBVIOUS
<1>1. NamesTaken(own, ao, hand, doom, list, dk) /\ ClaimsApart(own, ao, hand) BY DEF Sound
<1>2. NamesTaken(own2, ao, hand2, doom, list, dk) BY <1>1 DEF NamesTaken
<1>3. ClaimsApart(own2, ao, hand2) BY <1>1 DEF ClaimsApart
<1>4. \A f \in doom : Free(f, own2, ao, hand2) BY DEF Sound, Free
<1>5. \A b \in Clients : \A f \in list[b] : MostlyOf(f, rq[b].row, own2, ao, hand2, of)
  BY DEF Sound, MostlyOf
<1>. QED BY <1>2, <1>3, <1>4, <1>5 DEF Sound

\* The file in hand becomes an attachment's.
LEMMA HandToAtt ==
    ASSUME NEW own, NEW ao, NEW hand, NEW doom, NEW list, NEW dk, NEW rq, NEW of,
           NEW ao2, NEW hand2, NEW of2,
           Sound(own, ao, hand, doom, list, dk, rq, of),
           None \notin doom, \A b \in Clients : None \notin list[b],
           \E c \in Clients, x \in Atts :
              /\ hand[c] # None /\ ao2[x] = hand[c] /\ hand2[c] = None
              /\ \A a \in Atts \ {x} : ao2[a] = ao[a] /\ of2[a] = of[a]
              /\ \A b \in Clients \ {c} : hand2[b] = hand[b]
    PROVE  Sound(own, ao2, hand2, doom, list, dk, rq, of2)
<1>. PICK c \in Clients, x \in Atts :
              /\ hand[c] # None /\ ao2[x] = hand[c] /\ hand2[c] = None
              /\ \A a \in Atts \ {x} : ao2[a] = ao[a] /\ of2[a] = of[a]
              /\ \A b \in Clients \ {c} : hand2[b] = hand[b]
  OBVIOUS
<1>1. NamesTaken(own, ao, hand, doom, list, dk) /\ ClaimsApart(own, ao, hand) BY DEF Sound
<1>2. NamesTaken(own, ao2, hand2, doom, list, dk) BY <1>1 DEF NamesTaken
<1>3. ClaimsApart(own, ao2, hand2) BY <1>1 DEF ClaimsApart
<1>4. \A f \in doom : Free(f, own, ao2, hand2) BY DEF Sound, Free
<1>5. \A b \in Clients : \A f \in list[b] : MostlyOf(f, rq[b].row, own, ao2, hand2, of2)
  BY DEF Sound, MostlyOf
<1>. QED BY <1>2, <1>3, <1>4, <1>5 DEF Sound

\* Where the claims are after a step, from what it writes.
LEMMA ClaimsOf ==
    /\ \A r \in Rows : Own[r] = IF Live(r) THEN inv[r].file ELSE None
    /\ \A a \in Atts : AttOwn[a] = IF att[a].life = "live" THEN att[a].file ELSE None
    /\ \A c \in Clients : Hand[c] = IF req[c].pc \in Holding THEN req[c].file ELSE None
    /\ \A c \in Clients : Listed[c] = IF req[c].pc = "delete" THEN req[c].todo ELSE {}
BY DEF Own, AttOwn, Hand, Listed

LEMMA ClaimsAreFiles ==
    ASSUME Typed
    PROVE  /\ None \notin Doomed /\ \A c \in Clients : None \notin Listed[c]
           /\ \A r \in Rows : Live(r) => inv[r].file \in Files
           /\ \A c \in Clients : req[c].pc \in Holding => req[c].file \in Files /\ Hand[c] # None
           /\ Doomed \subseteq Files
<1>1. \A c \in Clients : req[c].todo \subseteq Files BY ReqFacts DEF Request
<1>2. swept \subseteq Files BY DEF Typed, TypeOK
<1>3. \A c \in Clients : None \notin Listed[c] BY <1>1, NoneAssumption DEF Listed
<1>4. Doomed \subseteq Files BY <1>1, <1>2 DEF Doomed
<1>5. \A r \in Rows : Live(r) => inv[r].file \in Files BY LiveRow DEF InvoiceRow
<1>6. \A c \in Clients : req[c].pc \in Holding => req[c].file \in Files BY ReqFacts DEF Fits
<1>7. \A c \in Clients : req[c].pc \in Holding => Hand[c] = req[c].file BY DEF Hand
<1>. QED BY <1>3, <1>4, <1>5, <1>6, <1>7, NoneAssumption

LEMMA NamesStayTaken ==
    ASSUME Typed, [Next]_vars, NEW f \in Files, disk[f] # "unused" PROVE disk'[f] # "unused"
BY DiskShape DEF Without, Stored, Typed, TypeOK

LEMMA RowsGiveUp ==
    ASSUME Typed, [Next]_vars, ~rough', NEW r \in Rows,
           \A c \in Clients : ~UploadInsert(c) /\ ~CreateInsert(c) /\ (UploadRepoint(c) => UNCHANGED inv)
    PROVE  Own'[r] \in {Own[r], None}
<1>0. RowsNext /\ Own[r] = (IF Live(r) THEN inv[r].file ELSE None)
      /\ Own'[r] = (IF Live(r)' THEN inv'[r].file ELSE None)
  BY RowsStep DEF Own
<1>1. \A c \in Clients : ~UploadRepointUnread(c) BY DEF UploadRepointUnread
<1>2. CASE inv'[r] = inv[r] BY <1>0, <1>2 DEF Live
<1>3. CASE Develops(inv[r], inv'[r], r)
  <2>1. inv'[r].file = inv[r].file BY <1>1, <1>3 DEF Develops
  <2>2. Live(r)' => Live(r) BY <1>0, <1>3, RowBefore DEF Develops
  <2>. QED BY <1>0, <2>1, <2>2
<1>4. CASE Inserted(inv[r], inv'[r]) BY <1>4 DEF Inserted
<1>. QED BY <1>0, <1>2, <1>3, <1>4 DEF RowsNext, RowsGoOn

LEMMA AttsGiveUp ==
    ASSUME Typed, [Next]_vars, NEW a \in Atts, \A c \in Clients : ~AttachInsert(c)
    PROVE  AttOwn'[a] \in {AttOwn[a], None} /\ (AttOwn'[a] # None => att'[a].inv = att[a].inv)
<1>0. /\ AttOwn[a] = (IF att[a].life = "live" THEN att[a].file ELSE None)
      /\ AttOwn'[a] = (IF att'[a].life = "live" THEN att'[a].file ELSE None)
      /\ att \in [Atts -> AttRow] /\ att[a] \in AttRow
  BY DEF AttOwn, Typed, TypeOK
<1>1. [att[a] EXCEPT !.life = "gone"].life = "gone" BY <1>0 DEF AttRow
<1>2. CASE att'[a] = att[a] BY <1>0, <1>2
<1>3. CASE att'[a] = [att[a] EXCEPT !.life = "gone"] BY <1>0, <1>1, <1>3
<1>4. ASSUME NEW c \in Clients, DeleteAttachment(c)
      PROVE  att'[a] = att[a] \/ att'[a] = [att[a] EXCEPT !.life = "gone"]
  BY <1>0, <1>4 DEF DeleteAttachment
<1>5. ASSUME NEW rs, att' = AttsGone(rs)
      PROVE  att'[a] = att[a] \/ att'[a] = [att[a] EXCEPT !.life = "gone"]
  BY <1>5 DEF AttsGone
<1>. QED BY <1>2, <1>3, <1>4, <1>5, AttsShape

LEMMA HandsGiveUp ==
    ASSUME Typed, [Next]_vars, ~rough'
    PROVE  \E k \in Clients \cup {None} : \A c \in Clients :
              \/ Hand'[c] \in {Hand[c], None}
              \/ c = k /\ disk[Hand'[c]] = "unused" /\ disk'[Hand'[c]] = "there"
<1>0. \A c \in Clients : /\ Hand[c] = (IF req[c].pc \in Holding THEN req[c].file ELSE None)
                         /\ Hand'[c] = (IF req'[c].pc \in Holding THEN req'[c].file ELSE None)
  BY DEF Hand
<1>1. CASE UNCHANGED req BY <1>0, <1>1
<1>2. ASSUME NEW k \in Clients, Proceeds(k)
      PROVE  \A c \in Clients : \/ Hand'[c] \in {Hand[c], None}
                                \/ c = k /\ disk[Hand'[c]] = "unused" /\ disk'[Hand'[c]] = "there"
  <2>1. PICK q : Turn(k, q) /\ Carries(req[k], q) BY <1>2 DEF Proceeds
  <2>2. \A c \in Clients : req'[c] = IF c = k THEN q ELSE req[c] BY <2>1 DEF Turn, Typed, TypeOK
  <2>3. q.pc \in Holding => \/ req[k].pc \in Holding /\ q.file = req[k].file
                            \/ disk[q.file] = "unused" /\ disk'[q.file] = "there"
    BY <2>1 DEF Carries
  <2>. QED BY <1>0, <2>2, <2>3
<1>. QED BY <1>1, <1>2, ReqsStep

\* A step that makes no row and no attachment.
LEMMA ClaimsStep ==
    ASSUME FileInv, [Next]_vars, ~rough',
           \A c \in Clients : ~UploadInsert(c) /\ ~CreateInsert(c) /\ ~AttachInsert(c)
                              /\ (UploadRepoint(c) => UNCHANGED inv),
           \A f \in Doomed' : f \in Doomed \/ (disk[f] # "unused" /\ Free(f, Own', AttOwn', Hand')),
           \A c \in Clients : \A f \in Listed'[c] :
              \/ f \in Listed[c] /\ req'[c].row = req[c].row
              \/ disk[f] # "unused" /\ MostlyOf(f, req'[c].row, Own', AttOwn', Hand', att')
    PROVE  FilesAreApart'
<1>0. Typed /\ Typed' BY TypedStep DEF FileInv
<1>1. Sound(Own, AttOwn, Hand, Doomed, Listed, disk, req, att)
  BY <1>0, RoughStays DEF FileInv, FilesAreApart
<1>2. PICK k \in Clients \cup {None} : \A c \in Clients :
              \/ Hand'[c] \in {Hand[c], None}
              \/ c = k /\ disk[Hand'[c]] = "unused" /\ disk'[Hand'[c]] = "there"
  BY <1>0, HandsGiveUp
<1>3. Doomed' \subseteq Files /\ \A c \in Clients : Listed'[c] \subseteq Files
  <2>1. \A c \in Clients : req'[c] \in Request BY <1>0 DEF Typed, TypeOK
  <2>2. \A c \in Clients : req'[c].todo \subseteq Files BY <2>1 DEF Request
  <2>3. swept' \subseteq Files BY <1>0 DEF Typed, TypeOK
  <2>. QED BY <2>2, <2>3 DEF Doomed, Listed
<1>4. /\ \A r \in Rows : Own[r] \in Files \cup {None}
      /\ \A a \in Atts : AttOwn[a] \in Files \cup {None}
      /\ \A c \in Clients : Hand[c] \in Files \cup {None}
  BY <1>0, ClaimsAreFiles, ClaimsOf DEF Typed, AttsFit
<1>5. \A r \in Rows : Own'[r] \in {Own[r], None} BY <1>0, RowsGiveUp
<1>6. \A a \in Atts : AttOwn'[a] \in {AttOwn[a], None} /\ (AttOwn'[a] # None => att'[a].inv = att[a].inv)
  BY <1>0, AttsGiveUp
<1>7. \A f \in Files : disk[f] # "unused" => disk'[f] # "unused" BY <1>0, NamesStayTaken
<1>8. \E b : \A c \in Clients : \/ Hand'[c] \in {Hand[c], None}
                                \/ c = b /\ disk[Hand'[c]] = "unused" /\ disk'[Hand'[c]] # "unused"
  BY <1>2
<1>9. Sound(Own', AttOwn', Hand', Doomed', Listed', disk', req', att')
  BY <1>1, <1>3, <1>4, <1>5, <1>6, <1>7, <1>8, FewerClaims
<1>. QED BY <1>9 DEF FilesAreApart, Sound, NamesTaken, ClaimsApart, Free, MostlyOf

LEMMA DoomedIs ==
    /\ \A f : f \in Doomed <=> f \in swept \/ \E c \in Clients : req[c].pc = "files" /\ f \in req[c].todo
    /\ \A f : f \in Doomed' <=> f \in swept' \/ \E c \in Clients : req'[c].pc = "files" /\ f \in req'[c].todo
BY DEF Doomed

LEMMA ClaimsOfNext ==
    /\ \A r \in Rows : Own'[r] = IF Live(r)' THEN inv'[r].file ELSE None
    /\ \A a \in Atts : AttOwn'[a] = IF att'[a].life = "live" THEN att'[a].file ELSE None
    /\ \A c \in Clients : Hand'[c] = IF req'[c].pc \in Holding THEN req'[c].file ELSE None
    /\ \A c \in Clients : Listed'[c] = IF req'[c].pc = "delete" THEN req'[c].todo ELSE {}
BY DEF Own, AttOwn, Hand, Listed

\* Steps that doom no file and list none.
LEMMA PlainClaims ==
    ASSUME FileInv, [Next]_vars, ~rough', ~SweepRows,
           \A c \in Clients : ~UploadInsert(c) /\ ~CreateInsert(c) /\ ~AttachInsert(c)
                              /\ (UploadRepoint(c) => UNCHANGED inv) /\ ~DeleteRead(c)
                              /\ ~DeleteCommit(c) /\ ~DeleteAttachment(c)
    PROVE  FilesAreApart'
<1>0. Typed /\ swept' \in {swept, {}} BY FlagsStep DEF FileInv
<1>1. \A c \in Clients : req'[c] = req[c] \/ req'[c].pc \notin {"delete", "files"}
  <2>1. ASSUME NEW k \in Clients, Proceeds(k)
        PROVE  \A c \in Clients : req'[c] = req[c] \/ req'[c].pc \notin {"delete", "files"}
    <3>1. PICK q : Turn(k, q) /\ Carries(req[k], q) BY <2>1 DEF Proceeds
    <3>2. \A c \in Clients : req'[c] = IF c = k THEN q ELSE req[c] BY <1>0, <3>1 DEF Turn, Typed, TypeOK
    <3>3. q.pc \notin {"delete", "files"} BY <3>1 DEF Carries
    <3>. QED BY <3>2, <3>3
  <2>. QED BY <1>0, <2>1, ReqsStep
<1>2. \A f \in Doomed' : f \in Doomed BY <1>0, <1>1, DoomedIs
<1>3. \A c \in Clients : \A f \in Listed'[c] : f \in Listed[c] /\ req'[c].row = req[c].row
  BY <1>1, ClaimsOf, ClaimsOfNext
<1>. QED BY <1>2, <1>3, ClaimsStep

\* Nobody else has a row's file, or an attachment's.
LEMMA OnesOwn ==
    ASSUME FileInv, ~rough
    PROVE  /\ \A r \in Rows : Live(r) =>
                 /\ disk[inv[r].file] # "unused"
                 /\ \A q \in Rows : Own[q] = inv[r].file => q = r
                 /\ \A a \in Atts : AttOwn[a] # inv[r].file
                 /\ \A c \in Clients : Hand[c] # inv[r].file
           /\ \A x \in Atts : att[x].life = "live" =>
                 /\ disk[att[x].file] # "unused"
                 /\ \A q \in Rows : Own[q] # att[x].file
                 /\ \A a \in Atts : AttOwn[a] = att[x].file => a = x
                 /\ \A c \in Clients : Hand[c] # att[x].file
<1>0. Typed /\ NamesTaken(Own, AttOwn, Hand, Doomed, Listed, disk) /\ ClaimsApart(Own, AttOwn, Hand)
  BY DEF FileInv, FilesAreApart, Sound
<1>1. ASSUME NEW r \in Rows, Live(r)
      PROVE  /\ disk[inv[r].file] # "unused"
             /\ \A q \in Rows : Own[q] = inv[r].file => q = r
             /\ \A a \in Atts : AttOwn[a] # inv[r].file
             /\ \A c \in Clients : Hand[c] # inv[r].file
  <2>1. Own[r] = inv[r].file /\ Own[r] # None BY <1>0, <1>1, ClaimsOf, ClaimsAreFiles, NoneAssumption
  <2>. QED BY <1>0, <2>1 DEF NamesTaken, ClaimsApart
<1>2. ASSUME NEW x \in Atts, att[x].life = "live"
      PROVE  /\ disk[att[x].file] # "unused"
             /\ \A q \in Rows : Own[q] # att[x].file
             /\ \A a \in Atts : AttOwn[a] = att[x].file => a = x
             /\ \A c \in Clients : Hand[c] # att[x].file
  <2>1. AttOwn[x] = att[x].file /\ AttOwn[x] # None
    BY <1>0, <1>2, ClaimsOf, NoneAssumption DEF Typed, AttsFit
  <2>. QED BY <1>0, <2>1 DEF NamesTaken, ClaimsApart
<1>. QED BY <1>1, <1>2

\* How the steps that give a file away show.
LEMMA Makers ==
    ASSUME Typed, NEW c \in Clients
    PROVE  /\ UploadInsert(c) \/ CreateInsert(c) =>
                 \E r \in Rows : inv[r].life = "unborn" /\ inv'[r].life # "unborn"
           /\ UploadRepoint(c) => req[c].pc = "repoint" /\ req'[c].pc = "idle"
           /\ AttachInsert(c) => \E a \in Atts : att[a].life = "unborn" /\ att'[a].life = "live"
<1>0. req \in [Clients -> Request] /\ inv \in [Rows -> InvoiceRow] /\ att \in [Atts -> AttRow]
  BY DEF Typed, TypeOK
<1>1. \A life, n : NewRow(c, life, n).life = life BY DEF NewRow, Unborn
<1>2. ASSUME UploadInsert(c) \/ CreateInsert(c)
      PROVE  \E r \in Rows : inv[r].life = "unborn" /\ inv'[r].life # "unborn"
  <2>1. PICK r \in Rows, life \in {"draft", "saved"}, n \in Numbers \cup {None} :
          inv[r].life = "unborn" /\ inv' = [inv EXCEPT ![r] = NewRow(c, life, n)]
    BY <1>2 DEF UploadInsert, CreateInsert
  <2>2. inv'[r].life = life BY <1>0, <1>1, <2>1
  <2>. QED BY <2>1, <2>2
<1>3. UploadRepoint(c) => req[c].pc = "repoint" /\ req'[c].pc = "idle"
  BY <1>0, NoReqFits DEF UploadRepoint, At, Done
<1>4. AttachInsert(c) => \E a \in Atts : att[a].life = "unborn" /\ att'[a].life = "live"
  BY <1>0 DEF AttachInsert
<1>. QED BY <1>2, <1>3, <1>4

\* A deletion lists the files of its row.
LEMMA DeleteReadClaims ==
    ASSUME FileInv, [Next]_vars, ~rough', NEW c \in Clients, DeleteRead(c)
    PROVE  FilesAreApart'
<1>0. Typed /\ ~rough /\ req \in [Clients -> Request] BY RoughStays, ReqFacts DEF FileInv, Typed, TypeOK
<1>1. PICK r \in Rows : Live(r) /\
          req' = [req EXCEPT ![c] = [NoReq EXCEPT !.pc = "delete", !.row = r,
                      !.todo = {inv[r].file} \cup {att[a].file : a \in AttsOf({r})}]]
  BY DEF DeleteRead
<1>2. UNCHANGED <<inv, att, disk, swept>> BY DEF DeleteRead
<1>3. /\ req'[c].pc = "delete" /\ req'[c].row = r
      /\ req'[c].todo = {inv[r].file} \cup {att[a].file : a \in AttsOf({r})}
      /\ \A b \in Clients \ {c} : req'[b] = req[b]
  BY <1>0, <1>1 DEF NoReq
<1>4. /\ \A q \in Rows : Own'[q] = Own[q]
      /\ \A a \in Atts : AttOwn'[a] = AttOwn[a]
      /\ \A b \in Clients : Hand'[b] \in {Hand[b], None}
  BY <1>2, <1>3, ClaimsOf, ClaimsOfNext DEF Live, Holding
<1>5. \A f \in Doomed' : f \in Doomed BY <1>2, <1>3, DoomedIs
<1>6. ASSUME NEW f \in req'[c].todo
      PROVE  disk[f] # "unused" /\ MostlyOf(f, r, Own', AttOwn', Hand', att')
  <2>1. f # None BY <1>0, <1>1, <1>3, ClaimsAreFiles, NoneAssumption DEF AttsOf, Typed, AttsFit
  <2>2. CASE f = inv[r].file BY <1>0, <1>1, <1>4, <2>1, <2>2, OnesOwn DEF MostlyOf
  <2>3. ASSUME NEW x \in AttsOf({r}), f = att[x].file PROVE disk[f] # "unused" /\ MostlyOf(f, r, Own', AttOwn', Hand', att')
    <3>1. x \in Atts /\ att[x].life = "live" /\ att'[x].inv = r BY <1>2 DEF AttsOf
    <3>. QED BY <1>0, <1>4, <2>1, <2>3, <3>1, OnesOwn DEF MostlyOf
  <2>. QED BY <1>3, <2>2, <2>3
<1>7. \A b \in Clients : \A f \in Listed'[b] :
              \/ f \in Listed[b] /\ req'[b].row = req[b].row
              \/ disk[f] # "unused" /\ MostlyOf(f, req'[b].row, Own', AttOwn', Hand', att')
  <2>1. \A f \in Listed'[c] : disk[f] # "unused" /\ MostlyOf(f, req'[c].row, Own', AttOwn', Hand', att')
    BY <1>3, <1>6, ClaimsOfNext
  <2>2. \A b \in Clients \ {c} : Listed'[b] = Listed[b] BY <1>3, ClaimsOf, ClaimsOfNext
  <2>. QED BY <1>3, <2>1, <2>2
<1>8. \A b \in Clients : ~UploadInsert(b) /\ ~CreateInsert(b) /\ ~UploadRepoint(b) /\ ~AttachInsert(b)
  BY <1>0, <1>2, <1>3, Makers
<1>. QED BY <1>5, <1>7, <1>8, ClaimsStep

\* A deletion takes the row with its attachments: what it has listed is free.
LEMMA DeleteCommitClaims ==
    ASSUME FileInv, [Next]_vars, ~rough', NEW c \in Clients, DeleteCommit(c)
    PROVE  FilesAreApart'
<1>. DEFINE r == req[c].row
<1>0. /\ Typed /\ ~rough /\ req \in [Clients -> Request] /\ inv \in [Rows -> InvoiceRow] /\ att \in [Atts -> AttRow]
      /\ req[c].pc = "delete" /\ r \in Rows /\ UNCHANGED <<disk, swept>> /\ req[c] \in Request
  BY RoughStays, ReqFacts DEF FileInv, Typed, TypeOK, DeleteCommit, At, RequestsFit, Sees, OnRow
<1>1. ASSUME UNCHANGED <<inv, att>>, \A b \in Clients \ {c} : req'[b] = req[b], req'[c].pc \notin {"repoint", "attach"}
      PROVE  \A b \in Clients : ~UploadInsert(b) /\ ~CreateInsert(b) /\ ~UploadRepoint(b) /\ ~AttachInsert(b)
  BY <1>0, <1>1, Makers
<1>2. CASE ~Live(r)
  <2>1. UNCHANGED <<inv, att>> /\ req' = [req EXCEPT ![c] = NoReq] BY <1>2 DEF DeleteCommit, Done
  <2>2. req'[c] = NoReq /\ \A b \in Clients \ {c} : req'[b] = req[b] BY <1>0, <2>1
  <2>3. \A b \in Clients : ~UploadInsert(b) /\ ~CreateInsert(b) /\ ~UploadRepoint(b) /\ ~AttachInsert(b)
    BY <1>1, <2>1, <2>2, NoReqFits
  <2>4. \A f \in Doomed' : f \in Doomed BY <1>0, <2>2, NoReqFits, DoomedIs
  <2>5. \A b \in Clients : \A f \in Listed'[b] : f \in Listed[b] /\ req'[b].row = req[b].row
    BY <2>2, NoReqFits, ClaimsOf, ClaimsOfNext
  <2>. QED BY <2>3, <2>4, <2>5, ClaimsStep
<1>3. CASE Live(r)
  <2>1. /\ inv' = [inv EXCEPT ![r] = RowGone(inv[r])] /\ att' = AttsGone({r}) /\ Goes(c, "files")
    BY <1>3 DEF DeleteCommit
  <2>2. /\ req'[c].pc = "files" /\ req'[c].todo = req[c].todo
        /\ \A b \in Clients \ {c} : req'[b] = req[b]
    BY <1>0, <2>1 DEF Goes, Request
  <2>3. inv'[r].life = "gone" /\ \A q \in Rows \ {r} : inv'[q] = inv[q]
    <3>1. RowGone(inv[r]).life = "gone" BY <1>0 DEF RowGone, InvoiceRow
    <3>. QED BY <1>0, <2>1, <3>1
  <2>4. \A a \in Atts : \/ att'[a] = att[a] /\ ~(att[a].life = "live" /\ att[a].inv = r)
                        \/ att'[a].life = "gone" /\ att[a].life = "live"
    <3>1. ASSUME NEW a \in Atts, a \in AttsOf({r}) PROVE att'[a].life = "gone" /\ att[a].life = "live"
      <4>1. [att[a] EXCEPT !.life = "gone"].life = "gone" BY <1>0 DEF AttRow
      <4>. QED BY <2>1, <3>1, <4>1 DEF AttsGone, AttsOf
    <3>2. ASSUME NEW a \in Atts, a \notin AttsOf({r})
          PROVE  att'[a] = att[a] /\ ~(att[a].life = "live" /\ att[a].inv = r)
      BY <2>1, <3>2 DEF AttsGone, AttsOf
    <3>. QED BY <3>1, <3>2
  <2>5. /\ Own'[r] = None /\ \A q \in Rows \ {r} : Own'[q] = Own[q]
        /\ \A a \in Atts : AttOwn'[a] \in {AttOwn[a], None}
        /\ \A a \in Atts : AttOwn'[a] # None => att[a].inv # r
        /\ \A b \in Clients : Hand'[b] \in {Hand[b], None}
    BY <1>0, <2>2, <2>3, <2>4, ClaimsOf, ClaimsOfNext DEF Live, Holding
  <2>6. ASSUME NEW f \in req[c].todo PROVE disk[f] # "unused" /\ Free(f, Own', AttOwn', Hand')
    <3>1. f \in Listed[c] /\ f # None
      BY <1>0, ClaimsOf, ClaimsAreFiles
    <3>2. MostlyOf(f, r, Own, AttOwn, Hand, att) /\ disk[f] # "unused"
      BY <1>0, <3>1 DEF FileInv, FilesAreApart, Sound, NamesTaken
    <3>. QED BY <2>5, <3>1, <3>2 DEF MostlyOf, Free
  <2>7. \A f \in Doomed' : f \in Doomed \/ (disk[f] # "unused" /\ Free(f, Own', AttOwn', Hand'))
    BY <1>0, <2>2, <2>6, DoomedIs
  <2>8. \A b \in Clients : \A f \in Listed'[b] : f \in Listed[b] /\ req'[b].row = req[b].row
    BY <2>2, ClaimsOf, ClaimsOfNext
  <2>9. \A b \in Clients : ~UploadInsert(b) /\ ~CreateInsert(b) /\ ~UploadRepoint(b) /\ ~AttachInsert(b)
    BY <1>0, <1>3, <2>2, <2>3, <2>4, Makers, LiveRow
  <2>. QED BY <2>7, <2>8, <2>9, ClaimsStep
<1>. QED BY <1>2, <1>3

LEMMA DeleteAttachmentClaims ==
    ASSUME FileInv, [Next]_vars, ~rough', NEW c \in Clients, DeleteAttachment(c)
    PROVE  FilesAreApart'
<1>0. /\ Typed /\ ~rough /\ req \in [Clients -> Request] /\ att \in [Atts -> AttRow]
      /\ UNCHANGED <<inv, disk, swept>>
  BY RoughStays, ReqFacts DEF FileInv, Typed, TypeOK, DeleteAttachment
<1>1. PICK x \in Atts : /\ att[x].life = "live" /\ att' = [att EXCEPT ![x].life = "gone"]
                        /\ req' = [req EXCEPT ![c] = [NoReq EXCEPT !.pc = "files", !.todo = {att[x].file}]]
  BY DEF DeleteAttachment
<1>2. /\ req'[c].pc = "files" /\ req'[c].todo = {att[x].file}
      /\ \A b \in Clients \ {c} : req'[b] = req[b]
  BY <1>0, <1>1 DEF NoReq
<1>3. att'[x].life = "gone" /\ \A a \in Atts \ {x} : att'[a] = att[a]
  <2>1. [att[x] EXCEPT !.life = "gone"].life = "gone" BY <1>0 DEF AttRow
  <2>. QED BY <1>0, <1>1, <2>1
<1>4. /\ \A q \in Rows : Own'[q] = Own[q]
      /\ AttOwn'[x] = None /\ \A a \in Atts \ {x} : AttOwn'[a] = AttOwn[a]
      /\ \A b \in Clients : Hand'[b] \in {Hand[b], None}
  BY <1>0, <1>2, <1>3, ClaimsOf, ClaimsOfNext DEF Live, Holding
<1>5. att[x].file # None BY <1>0, <1>1, NoneAssumption DEF Typed, AttsFit
<1>6. disk[att[x].file] # "unused" /\ Free(att[x].file, Own', AttOwn', Hand')
  BY <1>0, <1>1, <1>4, <1>5, OnesOwn DEF Free
<1>7. \A f \in Doomed' : f \in Doomed \/ (disk[f] # "unused" /\ Free(f, Own', AttOwn', Hand'))
  BY <1>0, <1>2, <1>6, DoomedIs
<1>8. \A b \in Clients : \A f \in Listed'[b] : f \in Listed[b] /\ req'[b].row = req[b].row
  BY <1>2, ClaimsOf, ClaimsOfNext
<1>9. \A b \in Clients : ~UploadInsert(b) /\ ~CreateInsert(b) /\ ~UploadRepoint(b) /\ ~AttachInsert(b)
  BY <1>0, <1>1, <1>2, <1>3, Makers
<1>. QED BY <1>7, <1>8, <1>9, ClaimsStep

LEMMA SweepClaims ==
    ASSUME FileInv, [Next]_vars, ~rough', SweepRows
    PROVE  FilesAreApart'
<1>0. /\ Typed /\ ~rough /\ req \in [Clients -> Request] /\ att \in [Atts -> AttRow] /\ inv \in [Rows -> InvoiceRow]
      /\ UNCHANGED <<disk, req>>
      /\ inv' = [r \in Rows |-> IF r \in Expired THEN RowGone(inv[r]) ELSE inv[r]]
      /\ att' = AttsGone(Expired)
      /\ swept' = {inv[r].file : r \in Expired} \cup {att[a].file : a \in AttsOf(Expired)}
  BY RoughStays DEF FileInv, Typed, TypeOK, SweepRows
<1>1. \A r \in Rows : \/ inv'[r] = inv[r] /\ r \notin Expired
                      \/ inv'[r].life = "gone" /\ r \in Expired /\ Live(r)
  <2>1. \A r \in Rows : RowGone(inv[r]).life = "gone" BY <1>0 DEF RowGone, InvoiceRow
  <2>. QED BY <1>0, <2>1 DEF Expired, Live
<1>2. \A a \in Atts : \/ att'[a] = att[a] /\ a \notin AttsOf(Expired)
                      \/ att'[a].life = "gone" /\ a \in AttsOf(Expired) /\ att[a].life = "live"
  <2>1. \A a \in Atts : [att[a] EXCEPT !.life = "gone"].life = "gone" BY <1>0 DEF AttRow
  <2>. QED BY <1>0, <2>1 DEF AttsGone, AttsOf
<1>3. /\ \A r \in Rows : Own'[r] \in {Own[r], None} /\ (r \in Expired => Own'[r] = None)
      /\ \A a \in Atts : AttOwn'[a] \in {AttOwn[a], None} /\ (a \in AttsOf(Expired) => AttOwn'[a] = None)
      /\ \A b \in Clients : Hand'[b] = Hand[b]
  BY <1>0, <1>1, <1>2, ClaimsOf, ClaimsOfNext DEF Live
<1>4. ASSUME NEW f \in swept' PROVE disk[f] # "unused" /\ Free(f, Own', AttOwn', Hand')
  <2>1. ASSUME NEW r \in Expired, f = inv[r].file PROVE disk[f] # "unused" /\ Free(f, Own', AttOwn', Hand')
    <3>1. r \in Rows /\ Live(r) /\ inv[r].file # None BY <1>0, LiveRow DEF Expired, Live
    <3>. QED BY <1>0, <1>3, <2>1, <3>1, OnesOwn DEF Free
  <2>2. ASSUME NEW x \in AttsOf(Expired), f = att[x].file PROVE disk[f] # "unused" /\ Free(f, Own', AttOwn', Hand')
    <3>1. x \in Atts /\ att[x].life = "live" /\ att[x].file # None
      BY <1>0, NoneAssumption DEF AttsOf, Typed, AttsFit
    <3>. QED BY <1>0, <1>3, <2>2, <3>1, OnesOwn DEF Free
  <2>. QED BY <1>0, <2>1, <2>2
<1>5. \A f \in Doomed' : f \in Doomed \/ (disk[f] # "unused" /\ Free(f, Own', AttOwn', Hand'))
  BY <1>0, <1>4, DoomedIs
<1>6. \A b \in Clients : \A f \in Listed'[b] : f \in Listed[b] /\ req'[b].row = req[b].row
  BY <1>0, ClaimsOf, ClaimsOfNext
<1>7. \A b \in Clients : ~UploadInsert(b) /\ ~CreateInsert(b) /\ ~UploadRepoint(b) /\ ~AttachInsert(b)
  BY <1>0, <1>1, <1>2, Makers DEF Live
<1>. QED BY <1>5, <1>6, <1>7, ClaimsStep

\* The state a step leaves behind, when nothing is doomed or listed by it.
LEMMA Quietly ==
    ASSUME Typed, Typed', [Next]_vars, UNCHANGED swept, NEW c \in Clients, NEW q,
           req' = [req EXCEPT ![c] = q], q.pc \notin Holding \cup {"delete", "files"}
    PROVE  /\ \A b \in Clients \ {c} : req'[b] = req[b] /\ Hand'[b] = Hand[b]
           /\ Hand'[c] = None /\ req'[c] = q
           /\ \A f \in Doomed' : f \in Doomed
           /\ \A b \in Clients : \A f \in Listed'[b] : f \in Listed[b] /\ req'[b].row = req[b].row
           /\ \A f \in Files : disk[f] # "unused" => disk'[f] # "unused"
           /\ Doomed' \subseteq Files /\ \A b \in Clients : Listed'[b] \subseteq Files
<1>0. req \in [Clients -> Request] BY DEF Typed, TypeOK
<1>1. req'[c] = q /\ \A b \in Clients \ {c} : req'[b] = req[b] BY <1>0
<1>2. \A f \in Doomed' : f \in Doomed BY <1>1, DoomedIs
<1>3. /\ \A b \in Clients : \A f \in Listed'[b] : f \in Listed[b] /\ req'[b].row = req[b].row
      /\ Hand'[c] = None /\ \A b \in Clients \ {c} : Hand'[b] = Hand[b]
  BY <1>1, ClaimsOf, ClaimsOfNext
<1>4. \A f \in Files : disk[f] # "unused" => disk'[f] # "unused" BY NamesStayTaken
<1>5. Doomed' \subseteq Files BY <1>2, ClaimsAreFiles
<1>6. \A b \in Clients : Listed'[b] \subseteq Files
  <2>1. \A b \in Clients : req[b].todo \subseteq Files BY ReqFacts DEF Request
  <2>. QED BY <1>3, <2>1, ClaimsOf
<1>. QED BY <1>1, <1>2, <1>3, <1>4, <1>5, <1>6

\* The file in hand becomes a row's.
LEMMA RowTaken ==
    ASSUME FileInv, [Next]_vars, ~rough', NEW c \in Clients, req[c].pc \in Holding, NEW q,
           req' = [req EXCEPT ![c] = q], q.pc \notin Holding \cup {"delete", "files"}, UNCHANGED <<att, swept>>,
           NEW r \in Rows, Live(r)', inv'[r].file = req[c].file, \A x \in Rows \ {r} : inv'[x] = inv[x]
    PROVE  FilesAreApart'
<1>0. Typed /\ Typed' /\ ~rough BY TypedStep, RoughStays DEF FileInv
<1>1. Sound(Own, AttOwn, Hand, Doomed, Listed, disk, req, att) BY <1>0 DEF FileInv, FilesAreApart
<1>2. /\ \A b \in Clients \ {c} : req'[b] = req[b] /\ Hand'[b] = Hand[b]
      /\ Hand'[c] = None /\ req'[c] = q
      /\ \A f \in Doomed' : f \in Doomed
      /\ \A b \in Clients : \A f \in Listed'[b] : f \in Listed[b] /\ req'[b].row = req[b].row
      /\ \A f \in Files : disk[f] # "unused" => disk'[f] # "unused"
      /\ Doomed' \subseteq Files /\ \A b \in Clients : Listed'[b] \subseteq Files
  BY <1>0, Quietly
<1>3. Hand[c] = req[c].file /\ Hand[c] # None /\ None \notin Doomed /\ \A b \in Clients : None \notin Listed[b]
  BY <1>0, ClaimsOf, ClaimsAreFiles
<1>4. Own'[r] = Hand[c] /\ \A x \in Rows \ {r} : Own'[x] = Own[x]
  BY <1>3, ClaimsOf, ClaimsOfNext DEF Live
<1>5. Sound(Own', AttOwn, Hand', Doomed, Listed, disk, req, att)
  <2>1. \E b \in Clients, x \in Rows :
              /\ Hand[b] # None /\ Own'[x] = Hand[b] /\ Hand'[b] = None
              /\ \A y \in Rows \ {x} : Own'[y] = Own[y]
              /\ \A a \in Clients \ {b} : Hand'[a] = Hand[a]
    BY <1>2, <1>3, <1>4
  <2>. QED BY <1>1, <1>3, <2>1, HandToRow
<1>6. /\ \A x \in Rows : Own'[x] \in Files \cup {None}
      /\ \A a \in Atts : AttOwn[a] \in Files \cup {None}
      /\ \A b \in Clients : Hand'[b] \in Files \cup {None}
  BY <1>0, <1>2, <1>3, <1>4, ClaimsAreFiles, ClaimsOf DEF Typed, AttsFit
<1>7. \A a \in Atts : AttOwn'[a] \in {AttOwn[a], None} /\ (AttOwn'[a] # None => att'[a].inv = att[a].inv)
  BY ClaimsOf, ClaimsOfNext
<1>8. \E k : \A b \in Clients : \/ Hand'[b] \in {Hand'[b], None}
                                \/ b = k /\ disk[Hand'[b]] = "unused" /\ disk'[Hand'[b]] # "unused"
  OBVIOUS
<1>9. /\ \A x \in Rows : Own'[x] \in {Own'[x], None}
      /\ \A f \in Doomed' : f \in Doomed \/ (disk[f] # "unused" /\ Free(f, Own', AttOwn', Hand'))
      /\ \A b \in Clients : \A f \in Listed'[b] :
              \/ f \in Listed[b] /\ req'[b].row = req[b].row
              \/ disk[f] # "unused" /\ MostlyOf(f, req'[b].row, Own', AttOwn', Hand', att')
  BY <1>2
<1>10. Sound(Own', AttOwn', Hand', Doomed', Listed', disk', req', att')
  <2>1. Doomed' \subseteq Files /\ \A b \in Clients : Listed'[b] \subseteq Files BY <1>2
  <2>2. \A f \in Files : disk[f] # "unused" => disk'[f] # "unused" BY <1>2
  <2>. QED BY ONLY <1>5, <1>6, <1>7, <1>8, <1>9, <2>1, <2>2, FewerClaims
<1>. QED BY <1>10 DEF FilesAreApart, Sound, NamesTaken, ClaimsApart, Free, MostlyOf

LEMMA InsertClaims ==
    ASSUME FileInv, [Next]_vars, ~rough', NEW c \in Clients, UploadInsert(c) \/ CreateInsert(c)
    PROVE  FilesAreApart'
<1>0. Typed /\ req[c] \in Request /\ inv \in [Rows -> InvoiceRow] /\ req[c].pc = "insert"
      /\ UNCHANGED <<att, swept>>
  BY ReqFacts DEF FileInv, Typed, TypeOK, UploadInsert, CreateInsert, At
<1>1. PICK r \in Rows, life \in {"draft", "saved"}, n \in Numbers \cup {None} : inv' = [inv EXCEPT ![r] = NewRow(c, life, n)]
  BY DEF UploadInsert, CreateInsert
<1>2. inv'[r] = NewRow(c, life, n) /\ \A x \in Rows \ {r} : inv'[x] = inv[x] BY <1>0, <1>1
<1>3. NewRow(c, life, n).life = life /\ NewRow(c, life, n).file = req[c].file BY DEF NewRow, Unborn
<1>4. Live(r)' /\ inv'[r].file = req[c].file BY <1>2, <1>3 DEF Live
<1>5. \E q : req' = [req EXCEPT ![c] = q] /\ q.pc \in {"idle", "look"}
  <2>1. CASE UploadInsert(c) BY <2>1, NoReqFits DEF UploadInsert, Done
  <2>2. CASE CreateInsert(c)
    <3>1. PICK x \in Rows, m \in Numbers \cup {None} :
            req' = [req EXCEPT ![c].pc = "look", ![c].row = x, ![c].num = m]
      BY <2>2 DEF CreateInsert
    <3>2. req' = [req EXCEPT ![c] = [req[c] EXCEPT !.pc = "look", !.row = x, !.num = m]]
      BY <1>0, <3>1 DEF Typed, TypeOK
    <3>3. [req[c] EXCEPT !.pc = "look", !.row = x, !.num = m].pc = "look" BY <1>0 DEF Request
    <3>. QED BY <3>2, <3>3
  <2>. QED BY <2>1, <2>2
<1>. QED BY <1>0, <1>2, <1>4, <1>5, RowTaken DEF Holding

LEMMA RepointClaims ==
    ASSUME FileInv, [Next]_vars, ~rough', NEW c \in Clients, UploadRepoint(c), ~UNCHANGED inv
    PROVE  FilesAreApart'
<1>0. /\ Typed /\ req[c] \in Request /\ inv \in [Rows -> InvoiceRow] /\ req[c].pc = "repoint"
      /\ UNCHANGED <<att, swept>> /\ req' = [req EXCEPT ![c] = NoReq]
  BY ReqFacts DEF FileInv, Typed, TypeOK, UploadRepoint, At, Done
<1>1. req[c].row \in Rows BY <1>0, ReqFacts DEF Sees, OnRow
<1>2. inv[req[c].row].life = "draft" /\ inv' = [inv EXCEPT ![req[c].row].file = req[c].file]
  BY DEF UploadRepoint, Repointed
<1>3. PICK r \in Rows : inv[r].life = "draft" /\ inv' = [inv EXCEPT ![r].file = req[c].file] BY <1>1, <1>2
<1>4. inv'[r] = [inv[r] EXCEPT !.file = req[c].file] /\ \A x \in Rows \ {r} : inv'[x] = inv[x]
  BY <1>0, <1>3
<1>5. /\ [inv[r] EXCEPT !.file = req[c].file].file = req[c].file
      /\ [inv[r] EXCEPT !.file = req[c].file].life = "draft"
  BY <1>0, <1>3 DEF InvoiceRow
<1>6. Live(r)' /\ inv'[r].file = req[c].file BY <1>4, <1>5 DEF Live
<1>. QED BY <1>0, <1>4, <1>6, NoReqFits, RowTaken DEF Holding

LEMMA AttachClaims ==
    ASSUME FileInv, [Next]_vars, ~rough', NEW c \in Clients, AttachInsert(c)
    PROVE  FilesAreApart'
<1>0. /\ Typed /\ Typed' /\ ~rough /\ req[c] \in Request /\ att \in [Atts -> AttRow] /\ req[c].pc = "attach"
      /\ UNCHANGED <<inv, disk, swept>> /\ Created(c) /\ req[c].row \in Rows
  BY ReqFacts, TypedStep, RoughStays DEF FileInv, Typed, TypeOK, AttachInsert, At, Fits
<1>1. PICK x \in Atts : att' = [att EXCEPT ![x] = [life |-> "live", inv |-> req[c].row,
                                                   file |-> req[c].file, hash |-> req[c].hash]]
  BY DEF AttachInsert
<1>2. /\ att'[x].life = "live" /\ att'[x].file = req[c].file /\ \A a \in Atts \ {x} : att'[a] = att[a]
  BY <1>0, <1>1
<1>3. PICK q : req' = [req EXCEPT ![c] = q] /\ q.pc \in {"idle", "extras"} BY <1>0, CreatedShape DEF Turn
<1>4. Sound(Own, AttOwn, Hand, Doomed, Listed, disk, req, att) BY <1>0 DEF FileInv, FilesAreApart
<1>5. /\ \A b \in Clients \ {c} : req'[b] = req[b] /\ Hand'[b] = Hand[b]
      /\ Hand'[c] = None /\ req'[c] = q
      /\ \A f \in Doomed' : f \in Doomed
      /\ \A b \in Clients : \A f \in Listed'[b] : f \in Listed[b] /\ req'[b].row = req[b].row
      /\ \A f \in Files : disk[f] # "unused" => disk'[f] # "unused"
      /\ Doomed' \subseteq Files /\ \A b \in Clients : Listed'[b] \subseteq Files
  BY <1>0, <1>3, Quietly DEF Holding
<1>6. Hand[c] = req[c].file /\ Hand[c] # None /\ None \notin Doomed /\ \A b \in Clients : None \notin Listed[b]
  BY <1>0, ClaimsOf, ClaimsAreFiles DEF Holding
<1>7. AttOwn'[x] = Hand[c] /\ \A a \in Atts \ {x} : AttOwn'[a] = AttOwn[a] /\ att'[a] = att[a]
  BY <1>2, <1>6, ClaimsOf, ClaimsOfNext
<1>8. Sound(Own, AttOwn', Hand', Doomed, Listed, disk, req, att')
  <2>1. \E b \in Clients, y \in Atts :
              /\ Hand[b] # None /\ AttOwn'[y] = Hand[b] /\ Hand'[b] = None
              /\ \A a \in Atts \ {y} : AttOwn'[a] = AttOwn[a] /\ att'[a] = att[a]
              /\ \A a \in Clients \ {b} : Hand'[a] = Hand[a]
    BY <1>5, <1>6, <1>7
  <2>. QED BY <1>4, <1>6, <2>1, HandToAtt
<1>9. /\ \A r \in Rows : Own[r] \in Files \cup {None} /\ Own'[r] \in {Own[r], None}
      /\ \A a \in Atts : AttOwn'[a] \in Files \cup {None}
      /\ \A b \in Clients : Hand'[b] \in Files \cup {None}
  BY <1>0, <1>5, <1>6, <1>7, ClaimsAreFiles, ClaimsOf, ClaimsOfNext DEF Typed, AttsFit, Live
<1>10. \E k : \A b \in Clients : \/ Hand'[b] \in {Hand'[b], None}
                                 \/ b = k /\ disk[Hand'[b]] = "unused" /\ disk'[Hand'[b]] # "unused"
  OBVIOUS
<1>11. Sound(Own', AttOwn', Hand', Doomed', Listed', disk', req', att')
  BY <1>5, <1>8, <1>9, <1>10, FewerClaims
<1>. QED BY <1>11 DEF FilesAreApart, Sound, NamesTaken, ClaimsApart, Free, MostlyOf

LEMMA FileStep == ASSUME FileInv, [Next]_vars PROVE FileInv'
<1>1. Typed' BY TypedStep DEF FileInv
<1>2. FilesAreApart'
  <2>1. CASE rough' BY <2>1 DEF FilesAreApart
  <2>2. CASE ~rough'
    BY <2>2, PlainClaims, DeleteReadClaims, DeleteCommitClaims, DeleteAttachmentClaims, SweepClaims, InsertClaims,
       RepointClaims, AttachClaims
  <2>. QED BY <2>1, <2>2
<1>. QED BY <1>1, <1>2 DEF FileInv

LEMMA FileInit == Init => FileInv
<1>. SUFFICES ASSUME Init PROVE FileInv OBVIOUS
<1>1. /\ \A r \in Rows : ~Live(r)
      /\ \A a \in Atts : att[a].life # "live"
      /\ \A c \in Clients : req[c].pc = "idle"
      /\ swept = {}
  BY NoReqFits DEF Init, Unborn, Live
<1>2. /\ \A r \in Rows : Own[r] = None
      /\ \A a \in Atts : AttOwn[a] = None
      /\ \A c \in Clients : Hand[c] = None /\ Listed[c] = {}
      /\ \A f : f \notin Doomed
  BY <1>1, ClaimsOf, DoomedIs DEF Holding
<1>3. Sound(Own, AttOwn, Hand, Doomed, Listed, disk, req, att)
  BY <1>2 DEF Sound, NamesTaken, ClaimsApart
<1>. QED BY <1>3, TypedInit DEF FileInv, FilesAreApart

\* Who removes a file.
LEMMA Remover ==
    ASSUME Typed, [Next]_vars, ~rough', \A c \in Clients : At(c, "tripfiles") => req'[c] = req[c],
           NEW f \in Files, disk[f] = "there", disk'[f] = "removed"
    PROVE  /\ UNCHANGED inv /\ UNCHANGED att
           /\ f \in Doomed \/ \E c \in Clients : req[c].pc \in Holding /\ f = req[c].file
<1>. DEFINE Goal == /\ UNCHANGED inv /\ UNCHANGED att
                    /\ f \in Doomed \/ \E c \in Clients : req[c].pc \in Holding /\ f = req[c].file
<1>0. disk \in [Files -> {"unused", "there", "removed"}] /\ req \in [Clients -> Request] BY DEF Typed, TypeOK
<1>1. ~UNCHANGED disk /\ \A x \in Files : disk' # Stored(x) BY <1>0 DEF Stored
<1>2. \A fs : disk' = Without(fs) => f \in fs BY <1>0 DEF Without
<1>3. ASSUME NEW c \in Clients, Discards(c), req[c].pc \in Holding, UNCHANGED <<inv, att>> PROVE Goal
  BY <1>2, <1>3 DEF Discards
<1>4. ASSUME NEW c \in Clients, RemoveFiles(c) PROVE Goal
  <2>1. req[c].pc # "tripfiles"
    <3>1. req'[c].pc = "idle" BY <1>0, <1>4, NoReqFits DEF RemoveFiles, Done
    <3>. QED BY <3>1 DEF At
  <2>2. req[c].pc = "files" /\ f \in req[c].todo BY <1>2, <1>4, <2>1 DEF RemoveFiles
  <2>. QED BY <1>4, <2>2, DoomedIs DEF RemoveFiles
<1>5. CASE SweepFiles BY <1>2, <1>5, DoomedIs DEF SweepFiles
<1>6. ASSUME NEW c \in Clients, UploadRepoint(c) PROVE Goal
  <2>1. req[c].pc = "repoint" /\ ~Live(req[c].row) /\ disk' = Without({req[c].file}) /\ UNCHANGED att
    BY <1>1, <1>6 DEF UploadRepoint, At
  <2>2. UNCHANGED inv BY <1>6, <2>1 DEF UploadRepoint, Repointed, Live
  <2>. QED BY <1>2, <2>1, <2>2 DEF Holding
<1>7. ASSUME NEW c \in Clients, UploadStep(c) \/ AsyncStep(c) \/ CreateStep(c) PROVE Goal
  BY <1>1, <1>3, <1>6, <1>7, UnmarkedShape
     DEF UploadStep, UploadSave, AsyncSave, FileSaved, UploadFind, UploadFails, AsyncStep, AsyncFind, UploadStat,
         UploadRepointUnread, UploadInsert, CreateStep, CreateInsert, Look, Mark, At, Holding
<1>8. ASSUME NEW c \in Clients, ParseStep(c) \/ ConfirmStep(c) \/ (RemovalStep(c) /\ ~RemoveFiles(c)) PROVE FALSE
  BY <1>1, <1>8
     DEF ParseStep, ParseRead, ParseWrite, ConfirmStep, ConfirmRead, ConfirmHash, ConfirmNumber, ConfirmStatus,
         ConfirmWrite, RemovalStep, DeleteRead, DeleteCommit, TripPreview, TripCommit, TripRefused, DeleteAttachment
<1>9. ASSUME NEW c \in Clients, AttachStep(c) \/ ImportStep(c) PROVE Goal
  BY <1>1, <1>3, <1>9
     DEF AttachStep, AttachSave, AttachCount, AttachFails, AttachInsert, ImportStep, ImportRead, ImportParsing,
         ImportFails, ImportFetch, ImportNoPdf, ImportNoInvoice, ImportSave, ImportRetries, ImportExtra,
         ImportFinish, At, Holding
<1>10. CASE EditInvoice \/ SweepRows \/ Crash \/ (\E r \in Rows : Expire(r)) \/ UNCHANGED vars
  BY <1>1, <1>10 DEF EditInvoice, SweepRows, Crash, Expire, vars
<1>. QED BY <1>4, <1>5, <1>7, <1>8, <1>9, <1>10 DEF Next, RemovalStep

\* No file of a row or of an attachment is taken away, except by the deletion
\* of a trip and where a statement failed or the process died: a file has one
\* claimant at a time (a row, an attachment, a request that holds it), what is
\* doomed has none, and what a deletion has listed is its own row's.
THEOREM OnlyTripsStrandHolds == Spec => OnlyTripsStrand
<1>1. Init => FileInv BY FileInit
<1>2. FileInv /\ [Next]_vars => FileInv' BY FileStep
<1>3. ASSUME FileInv, [Next]_vars
      PROVE  ~rough' /\ (\A c \in Clients : At(c, "tripfiles") => req'[c] = req[c]) =>
                \A f \in Files : disk[f] = "there" /\ disk'[f] = "removed" =>
                    Holders(f)' = {} /\ Attached(f)' = {}
  <2>. SUFFICES ASSUME ~rough', \A c \in Clients : At(c, "tripfiles") => req'[c] = req[c],
                       NEW f \in Files, disk[f] = "there", disk'[f] = "removed"
                PROVE  Holders(f)' = {} /\ Attached(f)' = {}
    OBVIOUS
  <2>1. Typed /\ ~rough BY <1>3, RoughStays DEF FileInv
  <2>2. UNCHANGED inv /\ UNCHANGED att BY <1>3, <2>1, Remover
  <2>3. f \in Doomed \/ \E c \in Clients : req[c].pc \in Holding /\ f = req[c].file BY <1>3, <2>1, Remover
  <2>4. Sound(Own, AttOwn, Hand, Doomed, Listed, disk, req, att) BY <1>3, <2>1 DEF FileInv, FilesAreApart
  <2>5. (\A r \in Rows : Own[r] # f) /\ (\A a \in Atts : AttOwn[a] # f)
    <3>1. CASE f \in Doomed BY <2>4, <3>1 DEF Sound, Free
    <3>2. ASSUME NEW c \in Clients, req[c].pc \in Holding, f = req[c].file
          PROVE  (\A r \in Rows : Own[r] # f) /\ (\A a \in Atts : AttOwn[a] # f)
      <4>1. Hand[c] = f /\ Hand[c] # None BY <2>1, <3>2, ClaimsOf, ClaimsAreFiles
      <4>. QED BY <2>4, <4>1 DEF Sound, ClaimsApart
    <3>. QED BY <2>3, <3>1, <3>2
  <2>6. Holders(f) = {} /\ Attached(f) = {} BY <2>5, ClaimsOf DEF Holders, Attached
  <2>. QED BY <2>2, <2>6 DEF Holders, Attached, Live
<1>. QED BY <1>1, <1>2, <1>3, PTL DEF Spec, OnlyTripsStrand
=============================================================================
