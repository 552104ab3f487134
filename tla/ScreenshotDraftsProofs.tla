----------------------- MODULE ScreenshotDraftsProofs -----------------------
(* Proofs about ScreenshotDrafts, for any number of rows, files, hashes and *)
(* concurrent requests, any times and any window.                           *)
EXTENDS ScreenshotDrafts, TLAPS

Assumptions == RowsAssumption /\ MomentsAssumption /\ NullsAssumption

\* What a request needs at its next step, it has in hand.
Armed(q) ==
    /\ q.pc \in {"find", "stat", "repoint", "insert", "mark"}
         => q.f \in Files /\ q.h \in Hashes
    /\ q.pc \in {"stat", "repoint"} => q.old \in Files
    /\ q.pc \in {"stat", "repoint", "hash", "cands", "confirm", "delete"}
         => q.r \in Rows
    /\ q.pc \in {"cancel", "unlink"} => q.f \in Files
HandsFull == \A c \in Clients : Armed(req[c])

Typed == TypeOK /\ HandsFull

\* A confirmation goes by the hash its row had when it was read, and a row
\* keeps its hash and its id for good.
HeldHash ==
    \A c \in Clients : req[c].pc \in {"hash", "cands", "confirm"} =>
        /\ row[req[c].r] # Unborn
        /\ req[c].r \in Live => row[req[c].r].sha = req[c].h

\* Confirmed, or past the look-up of the hash.
Cleared(r) ==
    \/ r \in Confirmed
    \/ \E c \in Clients : req[c].pc \in {"cands", "confirm"} /\ req[c].r = r

OneClearedPerFile ==
    \A q, r \in Live :
        q # r /\ row[q].sha # None /\ Cleared(q) /\ Cleared(r)
          => row[q].sha # row[r].sha

HashInv == Typed /\ HeldHash /\ OneClearedPerFile

\* The file a row points to; and the one of a row made from a screenshot.
Own  == [r \in Rows |-> IF r \in Live THEN row[r].file ELSE None]
Shot == [r \in Rows |-> IF r \in Live /\ row[r].sha # None THEN row[r].file ELSE None]

\* Files that payments typed in by hand name, and those on the lists of trips.
Shown ==
    {f \in Files : \/ \E r \in Live : row[r].sha = None /\ row[r].file = f
                   \/ \E c \in Clients : f \in req[c].fs}

\* A name in use is not free, and the new file of an upload is there.
NamesTaken(own, dk, rq, sw) ==
    /\ \A r \in Rows : own[r] # None => dk[own[r]] # "free"
    /\ \A c \in Clients : rq[c].f # None => dk[rq[c].f] # "free"
    /\ \A f \in sw : dk[f] # "free"
    /\ \A c \in Clients : rq[c].pc \in Uploading => dk[rq[c].f] = "kept"

\* No file has two claims on it, and what is about to be removed has none, but
\* by those that go by a name they were given or a list.
ClaimsApart(own, rq, sw) ==
    /\ \A q, r \in Rows : q # r /\ own[q] # None => own[q] # own[r]
    /\ \A c \in Clients, r \in Rows :
         rq[c].pc \in Uploading \/ (rq[c].pc = "unlink" /\ rq[c].h # None)
           => own[r] # rq[c].f
    /\ \A c \in Clients, r \in Rows :
         rq[c].pc = "delete" /\ rq[c].h # None /\ own[r] # None /\ own[r] = rq[c].f
           => r = rq[c].r
    /\ \A f \in sw, r \in Rows : own[r] # f
    /\ \A b, c \in Clients :
         b # c /\ rq[b].pc \in Uploading => rq[b].f # rq[c].f
    /\ \A c \in Clients : rq[c].pc \in Uploading => rq[c].f \notin sw

Sound(own, dk, rq, sw) ==
    NamesTaken(own, dk, rq, sw) /\ ClaimsApart(own, rq, sw)

\* No name is given before its upload has put it into a row.
AllShown == \A f \in Shown : HasBeenShown(f)

FileInv == Typed /\ Sound(Shot, disk, req, sweep) /\ AllShown

RowType == PaymentRow \cup {Unborn, Gone}

-----------------------------------------------------------------------------
(* Types. *)

\* What exists has the columns of its table, and a draft is a screenshot's.
LEMMA LiveRows ==
    ASSUME Assumptions, TypeOK
    PROVE  /\ \A r \in Live : row[r] \in PaymentRow
           /\ \A r \in Drafts : row[r].file \in Files /\ row[r].sha \in Hashes
<1>1. \A r \in Live : row[r] \in PaymentRow BY DEF TypeOK, Live
<1>2. \A r \in Drafts : row[r] \in PaymentRow /\ row[r].draft BY <1>1 DEF Drafts
<1>. QED BY <1>1, <1>2 DEF PaymentRow

\* A step of one request.
LEMMA RequestMoves ==
    ASSUME Typed, NEW c \in Clients, NEW x \in Request, Armed(x), Goto(c, x)
    PROVE  /\ req' \in [Clients -> Request]
           /\ HandsFull'
           /\ req'[c] = x
           /\ \A b \in Clients \ {c} : req'[b] = req[b]
<1>1. req \in [Clients -> Request] BY DEF Typed, TypeOK
<1>2. /\ req' \in [Clients -> Request]
      /\ req'[c] = x
      /\ \A b \in Clients \ {c} : req'[b] = req[b]
  BY <1>1 DEF Goto
<1>. QED BY <1>2 DEF Typed, HandsFull

\* A statement that writes one row.
LEMMA RowWritten ==
    ASSUME TypeOK, NEW r \in Rows, NEW x \in RowType, row' = [row EXCEPT ![r] = x]
    PROVE  /\ row' \in [Rows -> RowType]
           /\ row'[r] = x
           /\ \A q \in Rows \ {r} : row'[q] = row[q]
BY DEF TypeOK, RowType

\* A step that removes files changes nothing else in the directory.
LEMMA FilesRemoved ==
    ASSUME TypeOK, NEW fs, Remove(fs)
    PROVE  /\ disk' \in [Files -> {"free", "kept", "removed"}]
           /\ \A f \in Files : disk'[f] = IF f \in fs THEN "removed" ELSE disk[f]
BY DEF TypeOK, Remove

\* A request that has ended is a request, and needs nothing.
LEMMA IdleRequest == Idle \in Request /\ Armed(Idle)
BY DEF Idle, Request, PCs, Armed

\* A draft is given another file, and remains a draft with a file.
LEMMA RepointedRows ==
    ASSUME Assumptions, TypeOK, NEW r \in Rows, NEW f \in Files
    PROVE  Repointed(r, f) \in [Rows -> RowType]
<1>1. CASE r \in Drafts
  <2>1. row[r] \in PaymentRow /\ row[r].draft BY <1>1, LiveRows DEF Drafts
  <2>2. [row[r] EXCEPT !.file = f] \in PaymentRow BY <2>1 DEF PaymentRow
  <2>3. Repointed(r, f) = [row EXCEPT ![r] = [row[r] EXCEPT !.file = f]]
    BY <1>1 DEF Repointed, TypeOK
  <2>. QED BY <2>2, <2>3 DEF TypeOK, RowType
<1>2. CASE r \notin Drafts BY <1>2 DEF Repointed, TypeOK, RowType
<1>. QED BY <1>1, <1>2

\* Every step keeps the types and what the requests have in hand.
LEMMA TypedNext ==
    ASSUME Assumptions, Typed, [Next]_vars
    PROVE  Typed'
<1> USE DEF Typed
<1>1. ASSUME NEW c \in Clients, NEW f \in Files, NEW h \in Hashes,
             UploadSave(c, f, h)
      PROVE  Typed'
  <2>1. /\ [Idle EXCEPT !.pc = "find", !.f = f, !.h = h] \in Request
        /\ Armed([Idle EXCEPT !.pc = "find", !.f = f, !.h = h])
    BY DEF Idle, Request, PCs, Armed
  <2>2. Goto(c, [Idle EXCEPT !.pc = "find", !.f = f, !.h = h]) BY <1>1
                                                                  DEF UploadSave
  <2>3. req' \in [Clients -> Request] /\ HandsFull' BY <2>1, <2>2, RequestMoves
  <2>4. row' \in [Rows -> RowType] BY <1>1 DEF UploadSave, TypeOK, RowType
  <2>5. disk' \in [Files -> {"free", "kept", "removed"}] BY <1>1
                                                            DEF UploadSave, TypeOK
  <2>6. ocr' \in Rows \cup {None} /\ sweep' \subseteq Files BY <1>1
                                                               DEF UploadSave, TypeOK
  <2>. QED BY <2>3, <2>4, <2>5, <2>6 DEF Typed, TypeOK, RowType
<1>2. ASSUME NEW c \in Clients,
             UploadFind(c)
      PROVE  Typed'
  <2>1. req[c] \in Request /\ Armed(req[c]) /\ req[c].pc = "find"
    BY <1>2 DEF UploadFind, Holds, TypeOK, HandsFull
  <2>2. /\ row' \in [Rows -> RowType]
        /\ ocr' \in Rows \cup {None} /\ sweep' \subseteq Files
    BY <1>2 DEF UploadFind, TypeOK, RowType
  <2>3. CASE Goto(c, [req[c] EXCEPT !.pc = "insert"]) /\ UNCHANGED disk
    <3>1. /\ [req[c] EXCEPT !.pc = "insert"] \in Request
          /\ Armed([req[c] EXCEPT !.pc = "insert"])
      BY <2>1 DEF Request, PCs, Armed
    <3>. QED BY <2>2, <2>3, <3>1, RequestMoves DEF Typed, TypeOK, RowType
  <2>4. ASSUME NEW found \in SameHash(req[c].h), row[found].draft, UNCHANGED disk,
               Goto(c, [req[c] EXCEPT !.pc = "stat", !.r = found,
                                      !.old = row[found].file])
        PROVE  Typed'
    <3>1. found \in Drafts BY <2>4 DEF SameHash, Drafts
    <3>2. found \in Rows /\ row[found].file \in Files BY <3>1, LiveRows
                                                         DEF Drafts, Live
    <3> DEFINE x == [req[c] EXCEPT !.pc = "stat", !.r = found, !.old = row[found].file]
    <3>3. x \in Request /\ Armed(x) BY <2>1, <3>2 DEF Request, PCs, Armed
    <3>. QED BY <2>2, <2>4, <3>3, RequestMoves DEF Typed, TypeOK, RowType
  <2>5. CASE UploadDiscards(c)
    BY <2>2, <2>5, IdleRequest, RequestMoves, FilesRemoved
       DEF UploadDiscards, Typed, TypeOK, RowType
  <2>. QED BY <1>2, <2>3, <2>4, <2>5 DEF UploadFind
<1>3. ASSUME NEW c \in Clients,
             UploadStat(c)
      PROVE  Typed'
  <2>1. req[c] \in Request /\ Armed(req[c]) /\ req[c].pc = "stat"
    BY <1>3 DEF UploadStat, Holds, TypeOK, HandsFull
  <2>2. /\ row' \in [Rows -> RowType]
        /\ ocr' \in Rows \cup {None} /\ sweep' \subseteq Files
    BY <1>3 DEF UploadStat, TypeOK, RowType
  <2>3. CASE UploadDiscards(c)
    BY <2>2, <2>3, IdleRequest, RequestMoves, FilesRemoved
       DEF UploadDiscards, Typed, TypeOK, RowType
  <2>4. CASE Goto(c, [req[c] EXCEPT !.pc = "repoint"]) /\ UNCHANGED disk
    <3>1. /\ [req[c] EXCEPT !.pc = "repoint"] \in Request
          /\ Armed([req[c] EXCEPT !.pc = "repoint"])
      BY <2>1 DEF Request, PCs, Armed
    <3>. QED BY <2>2, <2>4, <3>1, RequestMoves DEF Typed, TypeOK, RowType
  <2>. QED BY <1>3, <2>3, <2>4 DEF UploadStat
<1>4. ASSUME NEW c \in Clients,
             UploadRepoint(c)
      PROVE  Typed'
  <2>1. req[c] \in Request /\ Armed(req[c]) /\ req[c].pc = "repoint"
    BY <1>4 DEF UploadRepoint, Holds, TypeOK, HandsFull
  <2>2. req[c].r \in Rows /\ req[c].f \in Files BY <2>1 DEF Armed
  <2>3. row' \in [Rows -> RowType] BY <1>4, <2>2, RepointedRows DEF UploadRepoint
  <2>4. ocr' \in Rows \cup {None} /\ sweep' \subseteq Files BY <1>4
                                                               DEF UploadRepoint, TypeOK
  <2>5. Goto(c, Idle) /\ (UNCHANGED disk \/ Remove({req[c].f}))
    BY <1>4 DEF UploadRepoint, UploadDiscards
  <2>. QED BY <2>3, <2>4, <2>5, IdleRequest, RequestMoves, FilesRemoved
           DEF Typed, TypeOK, RowType
<1>5. ASSUME NEW c \in Clients, NEW r \in Rows,
             UploadInsert(c, r)
      PROVE  Typed'
  <2>1. req[c] \in Request /\ Armed(req[c]) /\ req[c].pc = "insert"
    BY <1>5 DEF UploadInsert, Holds, TypeOK, HandsFull
  <2>2. NewDraft(req[c].f, req[c].h, None) \in RowType
    BY <2>1 DEF Armed, NewDraft, PaymentRow, RowType
  <2>3. row' \in [Rows -> RowType] BY <1>5, <2>2, RowWritten DEF UploadInsert
  <2>4. Idle \in Request /\ Armed(Idle)
    BY IdleRequest
  <2>5. req' \in [Clients -> Request] /\ HandsFull'
    BY <1>5, <2>4, RequestMoves DEF UploadInsert
  <2>. QED BY <1>5, <2>3, <2>5 DEF UploadInsert, Typed, TypeOK, RowType
<1>6. ASSUME NEW c \in Clients, NEW r \in Rows, NEW key \in Moments \cup {None},
             UploadInsertRead(c, r, key)
      PROVE  Typed'
  <2>1. req[c] \in Request /\ Armed(req[c]) /\ req[c].pc = "insert"
    BY <1>6 DEF UploadInsertRead, Holds, TypeOK, HandsFull
  <2>2. NewDraft(req[c].f, req[c].h, key) \in RowType
    BY <2>1 DEF Armed, NewDraft, PaymentRow, RowType
  <2>3. row' \in [Rows -> RowType] BY <1>6, <2>2, RowWritten DEF UploadInsertRead
  <2>4. [req[c] EXCEPT !.pc = "mark"] \in Request /\ Armed([req[c] EXCEPT !.pc = "mark"])
    BY <2>1 DEF Request, PCs, Armed
  <2>5. req' \in [Clients -> Request] /\ HandsFull'
    BY <1>6, <2>4, RequestMoves DEF UploadInsertRead
  <2>. QED BY <1>6, <2>3, <2>5 DEF UploadInsertRead, Typed, TypeOK, RowType
<1>7. ASSUME NEW c \in Clients,
             UploadMark(c)
      PROVE  Typed'
  BY <1>7, IdleRequest, RequestMoves DEF UploadMark, Typed, TypeOK
<1>8. ASSUME NEW c \in Clients,
             UploadFails(c)
      PROVE  Typed'
  BY <1>8, IdleRequest, RequestMoves, FilesRemoved
     DEF UploadFails, UploadDiscards, Typed, TypeOK
<1>9. ASSUME NEW c \in Clients,
             UploadRepointUnread(c)
      PROVE  Typed'
  <2>1. req[c] \in Request /\ Armed(req[c]) /\ req[c].pc = "repoint"
    BY <1>9 DEF UploadRepointUnread, Holds, TypeOK, HandsFull
  <2>2. req[c].r \in Rows /\ req[c].f \in Files BY <2>1 DEF Armed
  <2>3. row' \in [Rows -> RowType] BY <1>9, <2>2, RepointedRows
                                      DEF UploadRepointUnread
  <2>4. ocr' \in Rows \cup {None} /\ sweep' \subseteq Files BY <1>9
                                                               DEF UploadRepointUnread, TypeOK
  <2>5. Goto(c, Idle) /\ (UNCHANGED disk \/ Remove({req[c].f}))
    BY <1>9 DEF UploadRepointUnread, UploadDiscards
  <2>. QED BY <2>3, <2>4, <2>5, IdleRequest, RequestMoves, FilesRemoved
           DEF Typed, TypeOK, RowType
<1>10. ASSUME NEW c \in Clients, NEW r \in Rows, NEW edits \in BOOLEAN,
              NEW key \in Moments, NEW force \in BOOLEAN,
              ConfirmRead(c, r, edits, key, force)
      PROVE  Typed'
  <2> DEFINE x == [Idle EXCEPT !.pc = "hash", !.r = r, !.h = row[r].sha,
                               !.key = IF edits THEN key ELSE row[r].key,
                               !.edits = edits, !.force = force]
  <2>1. row[r] \in PaymentRow BY <1>10, LiveRows DEF ConfirmRead
  <2>2. /\ row[r].sha \in Hashes \cup {None}
        /\ (IF edits THEN key ELSE row[r].key) \in Moments \cup {None}
    BY <2>1 DEF PaymentRow
  <2>3. x \in Request /\ Armed(x) BY <2>2 DEF Idle, Request, PCs, Armed
  <2>. QED BY <1>10, <2>3, RequestMoves DEF ConfirmRead, Typed, TypeOK
<1>11. ASSUME NEW c \in Clients,
             ConfirmHash(c)
      PROVE  Typed'
  <2>1. req[c] \in Request /\ Armed(req[c]) /\ req[c].pc = "hash"
    BY <1>11 DEF ConfirmHash, Holds, TypeOK, HandsFull
  <2>2. /\ [req[c] EXCEPT !.pc = "cands"] \in Request
        /\ Armed([req[c] EXCEPT !.pc = "cands"])
    BY <2>1 DEF Request, PCs, Armed
  <2>3. Goto(c, Idle) \/ Goto(c, [req[c] EXCEPT !.pc = "cands"]) BY <1>11
                                                                    DEF ConfirmHash
  <2>. QED BY <1>11, <2>2, <2>3, IdleRequest, RequestMoves
              DEF ConfirmHash, Typed, TypeOK
<1>12. ASSUME NEW c \in Clients,
             ConfirmCandidates(c)
      PROVE  Typed'
  <2>1. req[c] \in Request /\ Armed(req[c]) /\ req[c].pc = "cands"
    BY <1>12 DEF ConfirmCandidates, Holds, TypeOK, HandsFull
  <2>2. /\ [req[c] EXCEPT !.pc = "confirm"] \in Request
        /\ Armed([req[c] EXCEPT !.pc = "confirm"])
    BY <2>1 DEF Request, PCs, Armed
  <2>3. Goto(c, Idle) \/ Goto(c, [req[c] EXCEPT !.pc = "confirm"]) BY <1>12
                                                                      DEF ConfirmCandidates
  <2>. QED BY <1>12, <2>2, <2>3, IdleRequest, RequestMoves
              DEF ConfirmCandidates, Typed, TypeOK
<1>13. ASSUME NEW c \in Clients,
             ConfirmWrite(c)
      PROVE  Typed'
  <2>1. req[c] \in Request /\ Armed(req[c]) /\ req[c].pc = "confirm"
    BY <1>13 DEF ConfirmWrite, Holds, TypeOK, HandsFull
  <2>2. req[c].r \in Rows /\ req[c].key \in Moments \cup {None}
    BY <2>1 DEF Armed, Request
  <2>3. row' \in [Rows -> RowType]
    <3>1. CASE req[c].r \notin Live BY <1>13, <3>1 DEF ConfirmWrite, TypeOK, RowType
    <3>2. CASE req[c].r \in Live
      <4> DEFINE x == [row[req[c].r] EXCEPT !.draft = FALSE,
                          !.key = IF req[c].edits THEN req[c].key ELSE @]
      <4>1. row[req[c].r] \in PaymentRow BY <3>2, LiveRows
      <4>2. x \in PaymentRow BY <2>2, <4>1 DEF PaymentRow
      <4>3. row' = [row EXCEPT ![req[c].r] = x]
        BY <1>13, <2>2, <3>2 DEF ConfirmWrite, TypeOK
      <4>. QED BY <2>2, <4>2, <4>3, RowWritten DEF RowType
    <3>. QED BY <3>1, <3>2
  <2>. QED BY <1>13, <2>3, IdleRequest, RequestMoves
              DEF ConfirmWrite, Typed, TypeOK, RowType
<1>14. ASSUME NEW c \in Clients, NEW f \in Files,
             CancelRemove(c, f)
      PROVE  Typed'
  <2>1. /\ [Idle EXCEPT !.pc = "cancel", !.f = f] \in Request
        /\ Armed([Idle EXCEPT !.pc = "cancel", !.f = f])
    BY DEF Idle, Request, PCs, Armed
  <2>2. Goto(c, [Idle EXCEPT !.pc = "cancel", !.f = f]) BY <1>14 DEF CancelRemove
  <2>3. req' \in [Clients -> Request] /\ HandsFull' BY <2>1, <2>2, RequestMoves
  <2>4. row' \in [Rows -> RowType] BY <1>14 DEF CancelRemove, TypeOK, RowType
  <2>5. disk' \in [Files -> {"free", "kept", "removed"}] BY <1>14, FilesRemoved
                                                            DEF CancelRemove
  <2>6. ocr' \in Rows \cup {None} /\ sweep' \subseteq Files BY <1>14
                                                               DEF CancelRemove, TypeOK
  <2>. QED BY <2>3, <2>4, <2>5, <2>6 DEF Typed, TypeOK, RowType
<1>15. ASSUME NEW c \in Clients,
             CancelDelete(c)
      PROVE  Typed'
  BY <1>15, IdleRequest, RequestMoves DEF CancelDelete, Typed, TypeOK
<1>16. ASSUME NEW c \in Clients, NEW r \in Rows,
             DeleteRead(c, r)
      PROVE  Typed'
  <2> DEFINE x == [Idle EXCEPT !.pc = "delete", !.r = r, !.f = row[r].file, !.h = row[r].sha]
  <2>1. row[r] \in PaymentRow BY <1>16, LiveRows DEF DeleteRead
  <2>2. row[r].file \in Files \cup {None} /\ row[r].sha \in Hashes \cup {None}
    BY <2>1 DEF PaymentRow
  <2>3. x \in Request /\ Armed(x) BY <2>2 DEF Idle, Request, PCs, Armed
  <2>. QED BY <1>16, <2>3, RequestMoves DEF DeleteRead, Typed, TypeOK
<1>17. ASSUME NEW c \in Clients,
             DeleteCommit(c)
      PROVE  Typed'
  <2>1. req[c] \in Request /\ Armed(req[c]) /\ req[c].pc = "delete"
    BY <1>17 DEF DeleteCommit, Holds, TypeOK, HandsFull
  <2>2. req[c].r \in Rows BY <2>1 DEF Armed
  <2>3. row' \in [Rows -> RowType] BY <1>17, <2>2 DEF DeleteCommit, TypeOK, RowType
  <2>4. CASE Goto(c, Idle)
    BY <1>17, <2>3, <2>4, IdleRequest, RequestMoves
       DEF DeleteCommit, Typed, TypeOK, RowType
  <2>5. CASE req[c].f # None /\ Goto(c, [req[c] EXCEPT !.pc = "unlink"])
    <3>1. req[c].f \in Files BY <2>1, <2>5 DEF Request
    <3>2. /\ [req[c] EXCEPT !.pc = "unlink"] \in Request
          /\ Armed([req[c] EXCEPT !.pc = "unlink"])
      BY <2>1, <3>1 DEF Request, PCs, Armed
    <3>. QED BY <1>17, <2>3, <2>5, <3>2, RequestMoves
                DEF DeleteCommit, Typed, TypeOK, RowType
  <2>. QED BY <1>17, <2>4, <2>5 DEF DeleteCommit
<1>18. ASSUME NEW c \in Clients,
             DeleteFile(c)
      PROVE  Typed'
  BY <1>18, IdleRequest, RequestMoves, FilesRemoved
     DEF DeleteFile, UploadDiscards, Typed, TypeOK
<1>19. ASSUME NEW r \in Rows,
             OCRRead(r)
      PROVE  Typed'
  BY <1>19 DEF OCRRead, Typed, TypeOK, HandsFull
<1>20. ASSUME NEW r \in Rows,
             Expire(r)
      PROVE  Typed'
  <2>1. row[r] \in PaymentRow /\ row[r].draft BY <1>20, LiveRows DEF Expire, Drafts
  <2>2. [row[r] EXCEPT !.old = TRUE] \in PaymentRow BY <2>1 DEF PaymentRow
  <2>3. row' = [row EXCEPT ![r] = [row[r] EXCEPT !.old = TRUE]]
    BY <1>20 DEF Expire, TypeOK
  <2>4. row' \in [Rows -> RowType] BY <2>2, <2>3, RowWritten DEF RowType
  <2>. QED BY <1>20, <2>4 DEF Expire, Typed, TypeOK, HandsFull, RowType
<1>21. ASSUME NEW key \in Moments \cup {None},
             OCRWrite(key)
      PROVE  Typed'
  <2>1. CASE UNCHANGED row BY <1>21, <2>1 DEF OCRWrite, Typed, TypeOK, HandsFull
  <2>2. CASE ocr \in Live /\ row' = [row EXCEPT ![ocr].key = key]
    <3>1. row[ocr] \in PaymentRow BY <2>2, LiveRows
    <3>2. [row[ocr] EXCEPT !.key = key] \in PaymentRow BY <3>1 DEF PaymentRow
    <3>3. ocr \in Rows /\ row' = [row EXCEPT ![ocr] = [row[ocr] EXCEPT !.key = key]]
      BY <2>2 DEF Live, TypeOK
    <3>4. row' \in [Rows -> RowType] BY <3>2, <3>3, RowWritten DEF RowType
    <3>. QED BY <1>21, <3>4 DEF OCRWrite, Typed, TypeOK, HandsFull, RowType
  <2>. QED BY <1>21, <2>1, <2>2 DEF OCRWrite
<1>22. ASSUME SweepRows
      PROVE  Typed'
  <2>1. row' \in [Rows -> RowType] BY <1>22 DEF SweepRows, TypeOK, RowType
  <2>2. sweep' \subseteq Files BY <1>22, LiveRows DEF SweepRows, Expired
  <2>. QED BY <1>22, <2>1, <2>2 DEF SweepRows, Typed, TypeOK, HandsFull, RowType
<1>23. ASSUME NEW f \in Files,
             SweepFile(f)
      PROVE  Typed'
  BY <1>23, FilesRemoved DEF SweepFile, Typed, TypeOK, HandsFull
<1>24. ASSUME Crash
      PROVE  Typed'
  BY <1>24, IdleRequest DEF Crash, Typed, TypeOK, HandsFull
<1>25. ASSUME NEW r \in Rows, NEW key \in Moments,
             EditPayment(r, key)
      PROVE  Typed'
  <2>1. CASE UNCHANGED row BY <1>25, <2>1 DEF EditPayment, Typed, TypeOK, HandsFull
  <2>2. CASE r \in Live /\ row' = [row EXCEPT ![r].key = key]
    <3>1. row[r] \in PaymentRow BY <2>2, LiveRows
    <3>2. [row[r] EXCEPT !.key = key] \in PaymentRow BY <3>1 DEF PaymentRow
    <3>3. r \in Rows /\ row' = [row EXCEPT ![r] = [row[r] EXCEPT !.key = key]]
      BY <2>2 DEF Live, TypeOK
    <3>4. row' \in [Rows -> RowType] BY <3>2, <3>3, RowWritten DEF RowType
    <3>. QED BY <1>25, <3>4 DEF EditPayment, Typed, TypeOK, HandsFull, RowType
  <2>. QED BY <1>25, <2>1, <2>2 DEF EditPayment
<1>26. ASSUME NEW r \in Rows, NEW f \in Files \cup {None}, NEW key \in Moments,
             CreatePayment(r, f, key)
      PROVE  Typed'
  <2>1. [file |-> f, sha |-> None, draft |-> FALSE, old |-> FALSE, key |-> key] \in RowType
    BY DEF PaymentRow, RowType
  <2>2. row' \in [Rows -> RowType] BY <1>26, <2>1, RowWritten DEF CreatePayment
  <2>. QED BY <1>26, <2>2 DEF CreatePayment, Typed, TypeOK, HandsFull, RowType
<1>27. ASSUME UNCHANGED vars PROVE Typed'
  BY <1>27 DEF vars, Typed, TypeOK, HandsFull
<1>28. ASSUME NEW c \in Clients, NEW inTrip \in SUBSET Confirmed, TripList(c, inTrip)
       PROVE  Typed'
  <2> DEFINE x == [Idle EXCEPT !.pc = "trip",
                               !.fs = {row[r].file : r \in inTrip} \ {None}]
  <2>1. \A r \in inTrip : row[r].file \in Files \cup {None}
    BY LiveRows DEF Confirmed, PaymentRow
  <2>2. {row[r].file : r \in inTrip} \ {None} \in SUBSET Files BY <2>1
  <2>3. x \in Request /\ Armed(x) BY <2>2 DEF Idle, Request, PCs, Armed
  <2>. QED BY <1>28, <2>3, RequestMoves DEF TripList, Typed, TypeOK
<1>29. ASSUME NEW c \in Clients, NEW inTrip \in SUBSET Confirmed, TripCommit(c, inTrip)
       PROVE  Typed'
  <2>1. req[c] \in Request BY DEF TypeOK
  <2>2. /\ [req[c] EXCEPT !.pc = "files"] \in Request
        /\ Armed([req[c] EXCEPT !.pc = "files"])
    BY <2>1 DEF Request, PCs, Armed
  <2>3. Goto(c, Idle) \/ Goto(c, [req[c] EXCEPT !.pc = "files"]) BY <1>29 DEF TripCommit
  <2>4. req' \in [Clients -> Request] /\ HandsFull' BY <2>2, <2>3, IdleRequest, RequestMoves
  <2>5. row' \in [Rows -> RowType] BY <1>29 DEF TripCommit, TypeOK, RowType
  <2>. QED BY <1>29, <2>4, <2>5 DEF TripCommit, Typed, TypeOK, RowType
<1>30. ASSUME NEW c \in Clients, TripRefused(c) PROVE Typed'
  BY <1>30, IdleRequest, RequestMoves DEF TripRefused, Typed, TypeOK
<1>31. ASSUME NEW c \in Clients, NEW f \in Files, TripFile(c, f) PROVE Typed'
  <2> DEFINE x == [req[c] EXCEPT !.fs = req[c].fs \ {f}]
  <2>1. req[c] \in Request /\ req[c].pc = "files" BY <1>31 DEF TripFile, Holds, TypeOK
  <2>2. x \in Request /\ Armed(x) BY <2>1 DEF Request, Armed
  <2>3. Goto(c, Idle) \/ Goto(c, x) BY <1>31 DEF TripFile
  <2> HIDE DEF x
  <2>4. req' \in [Clients -> Request] /\ HandsFull' BY <2>2, <2>3, IdleRequest, RequestMoves
  <2>. QED BY <1>31, <2>4, FilesRemoved DEF TripFile, Typed, TypeOK
<1>32. ASSUME NEW c \in Clients, DeleteTrip(c) PROVE Typed'
  BY <1>28, <1>29, <1>30, <1>31, <1>32 DEF DeleteTrip
<1>. QED
  BY <1>1, <1>2, <1>3, <1>4, <1>5, <1>6, <1>7, <1>8, <1>9, <1>10, <1>11, <1>12, <1>13,
     <1>14, <1>15, <1>16, <1>17, <1>18, <1>19, <1>20, <1>21, <1>22, <1>23, <1>24, <1>25, <1>26, <1>27, <1>32
     DEF Next, Upload, Confirm, Discard, Background

-----------------------------------------------------------------------------
(* One payment per file. *)

\* A row keeps its hash, does not come back, and a row with a hash is
\* confirmed by a request at its last step only.
RowStep(q) ==
    /\ row[q] # Unborn =>
         /\ row'[q] # Unborn
         /\ row'[q] # Gone => q \in Live /\ row'[q].sha = row[q].sha
    /\ row'[q] \notin {Unborn, Gone} /\ ~row'[q].draft /\ row'[q].sha # None =>
         q \in Confirmed \/ \E c \in Clients : Holds(c, "confirm") /\ req[c].r = q

\* A confirmation starts with the hash of its row, passes the look-up only if
\* no other row has that hash, and holds on to both till it writes.
ConfirmStep(b) ==
    req'[b].pc \in {"hash", "cands", "confirm"} =>
      \/ req'[b] = req[b]
      \/ /\ req'[b].pc = "hash" /\ row' = row
         /\ req'[b].r \in Live /\ req'[b].h = row[req'[b].r].sha
      \/ /\ req'[b].pc = "cands" /\ row' = row /\ req[b].pc = "hash"
         /\ req'[b].r = req[b].r /\ req'[b].h = req[b].h
         /\ HashRivals(req[b].r, req[b].h) = {}
      \/ /\ req'[b].pc = "confirm" /\ row' = row /\ req[b].pc = "cands"
         /\ req'[b].r = req[b].r /\ req'[b].h = req[b].h

\* What one step does to the table: nothing, an UPDATE of a row, an INSERT, or
\* a DELETE.
Updates(r, x) ==
    /\ row' = [row EXCEPT ![r] = x]
    /\ x.sha = row[r].sha
    /\ x.file = row[r].file \/ row[r].draft
    /\ x.draft => row[r].draft
    /\ ~x.draft => ~row[r].draft \/ \E c \in Clients : Holds(c, "confirm") /\ req[c].r = r
Inserts(r, x) ==
    /\ row' = [row EXCEPT ![r] = x]
    /\ row[r] = Unborn
    /\ x.draft \/ (x.sha = None /\ (x.file # None => HasBeenShown(x.file)))
Deletes(dead) == row' = [q \in Rows |-> IF q \in dead THEN Gone ELSE row[q]]

Statement ==
    \/ UNCHANGED row
    \/ \E r \in Live, x \in PaymentRow : Updates(r, x)
    \/ \E r \in Rows, x \in PaymentRow : Inserts(r, x)
    \/ \E dead \in SUBSET Live : Deletes(dead)

LEMMA RowUpdated ==
    ASSUME NEW r \in Live, NEW x \in PaymentRow, Updates(r, x)
    PROVE  Statement
BY DEF Statement

LEMMA RowInserted ==
    ASSUME NEW r \in Rows, NEW x \in PaymentRow, Inserts(r, x)
    PROVE  Statement
BY DEF Statement

LEMMA RowsDeleted ==
    ASSUME NEW dead \in SUBSET Live, Deletes(dead)
    PROVE  Statement
BY DEF Statement

LEMMA RowsUntouched == ASSUME UNCHANGED row PROVE Statement
BY DEF Statement

\* A draft that is given another file keeps its hash.
LEMMA RepointedKept ==
    ASSUME Assumptions, TypeOK, NEW r \in Rows, NEW f \in Files,
           row' = Repointed(r, f)
    PROVE  Statement
<1>1. CASE r \in Drafts
  <2>1. r \in Live /\ row[r] \in PaymentRow /\ row[r].draft
    BY <1>1, LiveRows DEF Drafts
  <2> DEFINE x == [row[r] EXCEPT !.file = f]
  <2>2. x \in PaymentRow /\ x.sha = row[r].sha /\ x.draft BY <2>1 DEF PaymentRow
  <2>3. row' = [row EXCEPT ![r] = x] BY <1>1 DEF Repointed, TypeOK
  <2> HIDE DEF x
  <2>. QED BY <2>1, <2>2, <2>3, RowUpdated DEF Updates
<1>2. CASE r \notin Drafts BY <1>2, RowsUntouched DEF Repointed
<1>. QED BY <1>1, <1>2

\* Every step makes one statement at most.
LEMMA OneStatement ==
    ASSUME Assumptions, Typed, [Next]_vars
    PROVE  Statement
<1> USE DEF Typed
<1>1. ASSUME NEW c \in Clients, UploadRepoint(c) \/ UploadRepointUnread(c)
      PROVE  Statement
  <2>1. Armed(req[c]) /\ req[c].pc = "repoint" /\ row' = Repointed(req[c].r, req[c].f)
    BY <1>1 DEF UploadRepoint, UploadRepointUnread, Holds, HandsFull
  <2>2. req[c].r \in Rows /\ req[c].f \in Files BY <2>1 DEF Armed
  <2>. QED BY <2>1, <2>2, RepointedKept
<1>2. ASSUME NEW c \in Clients, NEW r \in Rows, NEW key \in Moments \cup {None},
             UploadInsert(c, r) \/ UploadInsertRead(c, r, key)
      PROVE  Statement
  <2>1. Armed(req[c]) /\ req[c].pc = "insert" /\ row[r] = Unborn
    BY <1>2 DEF UploadInsert, UploadInsertRead, Holds, HandsFull, IsNext
  <2>2. PICK k \in Moments \cup {None} :
             row' = [row EXCEPT ![r] = NewDraft(req[c].f, req[c].h, k)]
    BY <1>2 DEF UploadInsert, UploadInsertRead
  <2> DEFINE x == NewDraft(req[c].f, req[c].h, k)
  <2>3. x \in PaymentRow /\ x.draft BY <2>1 DEF Armed, NewDraft, PaymentRow
  <2>4. row' = [row EXCEPT ![r] = x] BY <2>2
  <2> HIDE DEF x
  <2>5. Inserts(r, x) BY <2>1, <2>3, <2>4 DEF Inserts
  <2>. QED BY <2>3, <2>5, RowInserted
<1>3. ASSUME NEW c \in Clients, ConfirmWrite(c)
      PROVE  Statement
  <2>1. req[c] \in Request /\ Armed(req[c]) /\ req[c].pc = "confirm" /\ Holds(c, "confirm")
    BY <1>3 DEF ConfirmWrite, Holds, TypeOK, HandsFull
  <2>2. req[c].r \in Rows /\ req[c].key \in Moments \cup {None}
    BY <2>1 DEF Armed, Request
  <2>3. CASE req[c].r \notin Live BY <1>3, <2>3, RowsUntouched DEF ConfirmWrite
  <2>4. CASE req[c].r \in Live
    <3> DEFINE x == [row[req[c].r] EXCEPT !.draft = FALSE,
                        !.key = IF req[c].edits THEN req[c].key ELSE @]
    <3>1. row[req[c].r] \in PaymentRow BY <2>4, LiveRows
    <3>2. x \in PaymentRow /\ x.sha = row[req[c].r].sha /\ x.file = row[req[c].r].file /\ ~x.draft
      BY <2>2, <3>1 DEF PaymentRow
    <3>3. row' = [row EXCEPT ![req[c].r] = x]
      BY <1>3, <2>2, <2>4 DEF ConfirmWrite, TypeOK
    <3> HIDE DEF x
    <3>. QED BY <2>1, <2>4, <3>2, <3>3, RowUpdated DEF Updates
  <2>. QED BY <2>3, <2>4
<1>4. ASSUME NEW c \in Clients, CancelDelete(c) \/ DeleteCommit(c)
      PROVE  Statement
  <2>1. CASE CancelDelete(c)
    <3> DEFINE dead == {r \in Drafts : row[r].file = req[c].f}
    <3>1. dead \in SUBSET Live BY DEF Drafts
    <3>2. row' = [q \in Rows |-> IF q \in dead THEN Gone ELSE row[q]]
      BY <2>1 DEF CancelDelete
    <3> HIDE DEF dead
    <3>. QED BY <3>1, <3>2, RowsDeleted DEF Deletes
  <2>2. CASE DeleteCommit(c) /\ req[c].r \in Live
    <3>1. {req[c].r} \in SUBSET Live BY <2>2
    <3>2. row' = [q \in Rows |-> IF q \in {req[c].r} THEN Gone ELSE row[q]]
      BY <2>2 DEF DeleteCommit, TypeOK
    <3>. QED BY <3>1, <3>2, RowsDeleted DEF Deletes
  <2>3. CASE DeleteCommit(c) /\ req[c].r \notin Live
    BY <2>3, RowsUntouched DEF DeleteCommit
  <2>. QED BY <1>4, <2>1, <2>2, <2>3
<1>5. ASSUME SweepRows PROVE Statement
  <2>1. Expired \in SUBSET Live BY DEF Expired, Drafts
  <2>2. row' = [q \in Rows |-> IF q \in Expired THEN Gone ELSE row[q]]
    BY <1>5 DEF SweepRows
  <2>. QED BY <2>1, <2>2, RowsDeleted DEF Deletes
<1>6. ASSUME NEW r \in Live, NEW key \in Moments, row' = [row EXCEPT ![r].key = key]
      PROVE  Statement
  <2> DEFINE x == [row[r] EXCEPT !.key = key]
  <2>1. r \in Rows /\ row[r] \in PaymentRow BY LiveRows DEF Live
  <2>2. /\ x \in PaymentRow /\ x.sha = row[r].sha
        /\ x.file = row[r].file /\ x.draft = row[r].draft
    BY <2>1, <1>6 DEF PaymentRow
  <2>3. row' = [row EXCEPT ![r] = x] BY <1>6, <2>1 DEF TypeOK
  <2> HIDE DEF x
  <2>. QED BY <2>2, <2>3, RowUpdated DEF Updates
<1>7. ASSUME NEW r \in Rows, Expire(r) PROVE Statement
  <2> DEFINE x == [row[r] EXCEPT !.old = TRUE]
  <2>1. r \in Live /\ row[r] \in PaymentRow /\ row[r].draft
    BY <1>7, LiveRows DEF Expire, Drafts
  <2>2. x \in PaymentRow /\ x.sha = row[r].sha /\ x.draft
    BY <2>1 DEF PaymentRow
  <2>3. row' = [row EXCEPT ![r] = x] BY <1>7 DEF Expire, TypeOK
  <2> HIDE DEF x
  <2>. QED BY <2>1, <2>2, <2>3, RowUpdated DEF Updates
<1>8. ASSUME NEW r \in Rows, NEW f \in Files \cup {None}, NEW key \in Moments,
             CreatePayment(r, f, key)
      PROVE  Statement
  <2> DEFINE x == [file |-> f, sha |-> None, draft |-> FALSE, old |-> FALSE, key |-> key]
  <2>1. x \in PaymentRow /\ x.sha = None /\ x.file = f BY <1>8 DEF PaymentRow
  <2>2. row[r] = Unborn /\ row' = [row EXCEPT ![r] = x] /\ (f # None => HasBeenShown(f)) BY <1>8
                                                           DEF CreatePayment, IsNext
  <2> HIDE DEF x
  <2>. QED BY <1>8, <2>1, <2>2, RowInserted DEF Inserts
<1>9. ASSUME NEW key \in Moments \cup {None}, OCRWrite(key)
      PROVE  Statement
  BY <1>6, <1>9, RowsUntouched DEF OCRWrite
<1>10. ASSUME NEW r \in Rows, NEW key \in Moments, EditPayment(r, key)
       PROVE  Statement
  BY <1>6, <1>10 DEF EditPayment
<1>11. ASSUME NEW c \in Clients, Upload(c) PROVE Statement
  BY <1>1, <1>2, <1>11, RowsUntouched
     DEF Upload, UploadSave, UploadFind, UploadStat, UploadMark, UploadFails
<1>12. ASSUME NEW c \in Clients, Confirm(c) \/ Discard(c)
       PROVE  Statement
  BY <1>3, <1>4, <1>12, RowsUntouched
     DEF Confirm, Discard, ConfirmRead, ConfirmHash, ConfirmCandidates,
         CancelRemove, DeleteRead, DeleteFile
<1>15. ASSUME NEW c \in Clients, DeleteTrip(c) PROVE Statement
  <2>1. ASSUME NEW inTrip \in SUBSET Confirmed, TripCommit(c, inTrip) PROVE Statement
    <3>1. inTrip \in SUBSET Live BY DEF Confirmed
    <3>. QED BY <2>1, <3>1, RowsDeleted DEF TripCommit, Deletes
  <2>. QED BY <1>15, <2>1, RowsUntouched DEF DeleteTrip, TripList, TripRefused, TripFile
<1>13. ASSUME Background PROVE Statement
  BY <1>5, <1>7, <1>9, <1>13, RowsUntouched
     DEF Background, OCRRead, SweepFile, Crash
<1>14. ASSUME UNCHANGED vars PROVE Statement
  BY <1>14, RowsUntouched DEF vars
<1>. QED BY <1>8, <1>10, <1>11, <1>12, <1>13, <1>14, <1>15 DEF Next

\* What a statement does to every row.
LEMMA StatementKeeps ==
    ASSUME Assumptions, TypeOK, Statement
    PROVE  \A q \in Rows : RowStep(q)
<1> SUFFICES ASSUME NEW q \in Rows PROVE RowStep(q) OBVIOUS
<1>0. Unborn # Gone /\ {Unborn, Gone} \cap PaymentRow = {} BY DEF Assumptions, NullsAssumption
<1>1. CASE UNCHANGED row BY <1>1 DEF RowStep, Live, Confirmed
<1>2. ASSUME NEW r \in Live, NEW x \in PaymentRow, Updates(r, x) PROVE RowStep(q)
  <2>1. r \in Rows /\ row[r] \in PaymentRow BY LiveRows DEF Live
  <2>2. row'[q] = IF q = r THEN x ELSE row[q] BY <1>2, <2>1 DEF Updates, TypeOK
  <2>. QED BY <1>0, <1>2, <2>1, <2>2 DEF RowStep, Live, Confirmed, Updates
<1>3. ASSUME NEW r \in Rows, NEW x \in PaymentRow, Inserts(r, x) PROVE RowStep(q)
  <2>1. row'[q] = IF q = r THEN x ELSE row[q] BY <1>3 DEF Inserts, TypeOK
  <2>. QED BY <1>0, <1>3, <2>1 DEF RowStep, Live, Confirmed, Inserts
<1>4. ASSUME NEW dead \in SUBSET Live, Deletes(dead) PROVE RowStep(q)
  BY <1>0, <1>4 DEF RowStep, Live, Confirmed, Deletes
<1>. QED BY <1>1, <1>2, <1>3, <1>4 DEF Statement

LEMMA RowsProceed ==
    ASSUME Assumptions, Typed, [Next]_vars
    PROVE  \A q \in Rows : RowStep(q)
BY OneStatement, StatementKeeps DEF Typed

\* What every step does to every confirmation under way.
LEMMA ConfirmsProceed ==
    ASSUME Assumptions, Typed, [Next]_vars
    PROVE  \A b \in Clients : ConfirmStep(b)
<1> SUFFICES ASSUME NEW b \in Clients PROVE ConfirmStep(b) OBVIOUS
<1> USE DEF Typed
<1>1. ASSUME NEW c \in Clients, NEW x \in Request, Goto(c, x),
             x.pc \notin {"hash", "cands", "confirm"}
      PROVE  ConfirmStep(b)
  <2>1. req' = [req EXCEPT ![c] = x] /\ req \in [Clients -> Request]
    BY <1>1 DEF Goto, TypeOK
  <2>. QED BY <1>1, <2>1 DEF ConfirmStep
<1>2. ASSUME NEW c \in Clients, Goto(c, Idle) PROVE ConfirmStep(b)
  BY <1>1, <1>2, IdleRequest DEF Idle
<1>3. ASSUME UNCHANGED req PROVE ConfirmStep(b)
  BY <1>3 DEF ConfirmStep
<1>4. ASSUME NEW c \in Clients, Upload(c) PROVE ConfirmStep(b)
  <2>1. req[c] \in Request BY DEF TypeOK
  <2>2. CASE \E f \in Files, h \in Hashes : UploadSave(c, f, h)
    <3>1. PICK f \in Files, h \in Hashes : UploadSave(c, f, h) BY <2>2
    <3> DEFINE x == [Idle EXCEPT !.pc = "find", !.f = f, !.h = h]
    <3>2. x \in Request /\ x.pc = "find" BY DEF Idle, Request, PCs
    <3>3. Goto(c, x) BY <3>1 DEF UploadSave
    <3> HIDE DEF x
    <3>. QED BY <1>1, <3>2, <3>3
  <2>3. CASE UploadFind(c)
    <3>1. /\ [req[c] EXCEPT !.pc = "insert"] \in Request
          /\ [req[c] EXCEPT !.pc = "insert"].pc = "insert"
      BY <2>1 DEF Request, PCs
    <3>2. ASSUME NEW r \in SameHash(req[c].h), row[r].draft,
                 Goto(c, [req[c] EXCEPT !.pc = "stat", !.r = r, !.old = row[r].file])
          PROVE  ConfirmStep(b)
      <4>1. r \in Rows /\ row[r].file \in Files
        BY <3>2, LiveRows DEF SameHash, Drafts, Live
      <4> DEFINE x == [req[c] EXCEPT !.pc = "stat", !.r = r, !.old = row[r].file]
      <4>2. x \in Request /\ x.pc = "stat" BY <2>1, <4>1 DEF Request, PCs
      <4>3. Goto(c, x) BY <3>2
      <4> HIDE DEF x
      <4>. QED BY <1>1, <4>2, <4>3
    <3>. QED BY <1>1, <1>2, <2>3, <3>1, <3>2 DEF UploadFind, UploadDiscards
  <2>4. CASE UploadStat(c)
    <3>1. /\ [req[c] EXCEPT !.pc = "repoint"] \in Request
          /\ [req[c] EXCEPT !.pc = "repoint"].pc = "repoint"
      BY <2>1 DEF Request, PCs
    <3>. QED BY <1>1, <1>2, <2>4, <3>1 DEF UploadStat, UploadDiscards
  <2>5. CASE \E r \in Rows, key \in Moments \cup {None} : UploadInsertRead(c, r, key)
    <3>1. /\ [req[c] EXCEPT !.pc = "mark"] \in Request
          /\ [req[c] EXCEPT !.pc = "mark"].pc = "mark"
      BY <2>1 DEF Request, PCs
    <3>. QED BY <1>1, <2>5, <3>1 DEF UploadInsertRead
  <2>. QED
    BY <1>2, <1>4, <2>2, <2>3, <2>4, <2>5
       DEF Upload, UploadRepoint, UploadInsert, UploadMark, UploadFails,
           UploadRepointUnread, UploadDiscards
<1>5. ASSUME NEW c \in Clients, Confirm(c) PROVE ConfirmStep(b)
  <2>1. req \in [Clients -> Request] BY DEF TypeOK
  <2>2. ASSUME NEW r \in Rows, NEW edits \in BOOLEAN, NEW force \in BOOLEAN,
               NEW key \in Moments, ConfirmRead(c, r, edits, key, force)
        PROVE  ConfirmStep(b)
    <3> DEFINE x == [Idle EXCEPT !.pc = "hash", !.r = r, !.h = row[r].sha,
                               !.key = IF edits THEN key ELSE row[r].key,
                               !.edits = edits, !.force = force]
    <3>1. x.pc = "hash" /\ x.r = r /\ x.h = row[r].sha BY DEF Idle
    <3>2. /\ req' = [req EXCEPT ![c] = x]
          /\ row' = row /\ r \in Live
      BY <2>2 DEF ConfirmRead, Goto
    <3> HIDE DEF x
    <3>. QED BY <2>1, <3>1, <3>2 DEF ConfirmStep
  <2>3. CASE ConfirmHash(c)
    <3>1. CASE HashRivals(req[c].r, req[c].h) # {}
      BY <1>2, <2>3, <3>1 DEF ConfirmHash
    <3>2. CASE HashRivals(req[c].r, req[c].h) = {}
      <4>1. /\ req' = [req EXCEPT ![c] = [req[c] EXCEPT !.pc = "cands"]]
            /\ row' = row /\ req[c].pc = "hash"
        BY <2>3, <3>2 DEF ConfirmHash, Goto, Holds
      <4>2. req[c] \in Request BY <2>1
      <4>3. req' [c] = [req[c] EXCEPT !.pc = "cands"] /\ (b # c => req'[b] = req[b])
        BY <2>1, <4>1
      <4>4. /\ req'[c].pc = "cands"
            /\ req'[c].r = req[c].r /\ req'[c].h = req[c].h
        BY <4>2, <4>3 DEF Request
      <4>. QED BY <3>2, <4>1, <4>3, <4>4 DEF ConfirmStep
    <3>. QED BY <3>1, <3>2
  <2>4. CASE ConfirmCandidates(c)
    <3>1. CASE Goto(c, Idle) BY <1>2, <3>1
    <3>2. CASE Goto(c, [req[c] EXCEPT !.pc = "confirm"])
      <4>1. /\ req' = [req EXCEPT ![c] = [req[c] EXCEPT !.pc = "confirm"]]
            /\ row' = row /\ req[c].pc = "cands"
        BY <2>4, <3>2 DEF ConfirmCandidates, Goto, Holds
      <4>2. req[c] \in Request BY <2>1
      <4>3. req'[c] = [req[c] EXCEPT !.pc = "confirm"] /\ (b # c => req'[b] = req[b])
        BY <2>1, <4>1
      <4>4. /\ req'[c].pc = "confirm"
            /\ req'[c].r = req[c].r /\ req'[c].h = req[c].h
        BY <4>2, <4>3 DEF Request
      <4>. QED BY <4>1, <4>3, <4>4 DEF ConfirmStep
    <3>. QED BY <2>4, <3>1, <3>2 DEF ConfirmCandidates
  <2>. QED BY <1>2, <1>5, <2>2, <2>3, <2>4 DEF Confirm, ConfirmWrite
<1>6. ASSUME NEW c \in Clients, Discard(c) PROVE ConfirmStep(b)
  <2>1. req[c] \in Request BY DEF TypeOK
  <2>2. ASSUME NEW f \in Files, CancelRemove(c, f) PROVE ConfirmStep(b)
    <3> DEFINE x == [Idle EXCEPT !.pc = "cancel", !.f = f]
    <3>1. x \in Request /\ x.pc = "cancel" BY DEF Idle, Request, PCs
    <3>2. Goto(c, x) BY <2>2 DEF CancelRemove
    <3> HIDE DEF x
    <3>. QED BY <1>1, <3>1, <3>2
  <2>3. ASSUME NEW r \in Rows, DeleteRead(c, r) PROVE ConfirmStep(b)
    <3> DEFINE x == [Idle EXCEPT !.pc = "delete", !.r = r, !.f = row[r].file, !.h = row[r].sha]
    <3>1. row[r].file \in Files \cup {None} /\ row[r].sha \in Hashes \cup {None}
      BY <2>3, LiveRows DEF DeleteRead, PaymentRow
    <3>2. x \in Request /\ x.pc = "delete" BY <3>1 DEF Idle, Request, PCs
    <3>3. Goto(c, x) BY <2>3 DEF DeleteRead
    <3> HIDE DEF x
    <3>. QED BY <1>1, <3>2, <3>3
  <2>4. CASE DeleteCommit(c)
    <3> DEFINE x == [req[c] EXCEPT !.pc = "unlink"]
    <3>1. x \in Request /\ x.pc = "unlink" BY <2>1 DEF Request, PCs
    <3>2. Goto(c, Idle) \/ Goto(c, x) BY <2>4 DEF DeleteCommit
    <3> HIDE DEF x
    <3>. QED BY <1>1, <1>2, <3>1, <3>2
  <2>. QED BY <1>2, <1>6, <2>2, <2>3, <2>4 DEF Discard, CancelDelete, DeleteFile
<1>8. ASSUME NEW c \in Clients, DeleteTrip(c) PROVE ConfirmStep(b)
  <2>1. req \in [Clients -> Request] /\ req[c] \in Request BY DEF TypeOK
  <2>2. ASSUME NEW inTrip \in SUBSET Confirmed, TripList(c, inTrip) PROVE ConfirmStep(b)
    <3> DEFINE x == [Idle EXCEPT !.pc = "trip",
                                 !.fs = {row[r].file : r \in inTrip} \ {None}]
    <3>1. x.pc = "trip" /\ req' = [req EXCEPT ![c] = x] BY <2>2 DEF TripList, Goto, Idle
    <3> HIDE DEF x
    <3>. QED BY <2>1, <3>1 DEF ConfirmStep
  <2>3. ASSUME NEW inTrip \in SUBSET Confirmed, TripCommit(c, inTrip) PROVE ConfirmStep(b)
    <3> DEFINE x == [req[c] EXCEPT !.pc = "files"]
    <3>1. x \in Request /\ x.pc = "files" BY <2>1 DEF Request, PCs
    <3>2. Goto(c, Idle) \/ Goto(c, x) BY <2>3 DEF TripCommit
    <3> HIDE DEF x
    <3>. QED BY <1>1, <1>2, <3>1, <3>2
  <2>4. ASSUME NEW f \in Files, TripFile(c, f) PROVE ConfirmStep(b)
    <3> DEFINE x == [req[c] EXCEPT !.fs = req[c].fs \ {f}]
    <3>1. x \in Request /\ x.pc = "files" BY <2>1, <2>4 DEF TripFile, Holds, Request
    <3>2. Goto(c, Idle) \/ Goto(c, x) BY <2>4 DEF TripFile
    <3> HIDE DEF x
    <3>. QED BY <1>1, <1>2, <3>1, <3>2
  <2>. QED BY <1>2, <1>8, <2>2, <2>3, <2>4 DEF DeleteTrip, TripRefused
<1>7. CASE Background
  <2>1. CASE Crash BY <2>1 DEF Crash, ConfirmStep, Idle
  <2>. QED BY <1>3, <1>7, <2>1
           DEF Background, OCRRead, Expire, OCRWrite, SweepRows, SweepFile
<1>. QED
  BY <1>3, <1>4, <1>5, <1>6, <1>7, <1>8 DEF Next, vars, EditPayment, CreatePayment

\* Every step keeps the invariant: a request that has passed the look-up of
\* its hash stands for a row that no other row shares the hash with.
LEMMA HashNext ==
    ASSUME Assumptions, HashInv, [Next]_vars
    PROVE  HashInv'
<1>1. Typed /\ Typed' BY TypedNext DEF HashInv
<1>2. \A q \in Rows : RowStep(q) BY <1>1, RowsProceed
<1>3. \A b \in Clients : ConfirmStep(b) BY <1>1, ConfirmsProceed
<1>4. HeldHash'
  <2> SUFFICES ASSUME NEW c \in Clients, req'[c].pc \in {"hash", "cands", "confirm"}
               PROVE  /\ row'[req'[c].r] # Unborn
                      /\ req'[c].r \in Live' => row'[req'[c].r].sha = req'[c].h
    BY DEF HeldHash
  <2>1. req'[c].r \in Rows BY <1>1 DEF Typed, HandsFull, Armed
  <2>2. CASE req'[c] = req[c]
    <3>1. /\ row[req[c].r] # Unborn
          /\ req[c].r \in Live => row[req[c].r].sha = req[c].h
      BY <2>2 DEF HashInv, HeldHash
    <3>. QED BY <1>2, <2>1, <2>2, <3>1 DEF RowStep, Live
  <2>3. CASE row' = row
    BY <1>3, <2>3 DEF HashInv, HeldHash, ConfirmStep, Live
  <2>. QED BY <1>3, <2>2, <2>3 DEF ConfirmStep
<1>5. OneClearedPerFile'
  <2> SUFFICES ASSUME NEW q \in Live', NEW r \in Live', q # r,
                      row'[q].sha # None, Cleared(q)', Cleared(r)',
                      row'[q].sha = row'[r].sha
               PROVE  FALSE
    BY DEF OneClearedPerFile
  <2>1. ASSUME NEW p \in Live', row'[p].sha # None, Cleared(p)'
        PROVE  /\ p \in Live /\ row[p].sha = row'[p].sha
               /\ Cleared(p) \/ HashRivals(p, row[p].sha) = {}
    <3>1. p \in Rows /\ row'[p] \notin {Unborn, Gone} BY <2>1 DEF Live
    <3>2. CASE p \in Confirmed'
      <4>1. p \in Confirmed \/ \E c \in Clients : Holds(c, "confirm") /\ req[c].r = p
        BY <1>2, <2>1, <3>1, <3>2 DEF RowStep, Confirmed
      <4>2. row[p] # Unborn
        BY <4>1 DEF Confirmed, Live, HashInv, HeldHash, Holds
      <4>. QED BY <1>2, <3>1, <4>1, <4>2 DEF RowStep, Cleared, Holds
    <3>3. CASE \E c \in Clients : req'[c].pc \in {"cands", "confirm"} /\ req'[c].r = p
      <4>1. PICK c \in Clients : req'[c].pc \in {"cands", "confirm"} /\ req'[c].r = p
        BY <3>3
      <4>2. \/ req[c].pc \in {"cands", "confirm"} /\ req[c].r = p
            \/ /\ req[c].pc = "hash" /\ req[c].r = p
               /\ HashRivals(p, req[c].h) = {}
        BY <1>3, <4>1 DEF ConfirmStep
      <4>3. row[p] # Unborn /\ (p \in Live => row[p].sha = req[c].h)
        BY <4>2 DEF HashInv, HeldHash
      <4>4. p \in Live /\ row[p].sha = row'[p].sha
        BY <1>2, <3>1, <4>3 DEF RowStep
      <4>. QED BY <4>2, <4>3, <4>4 DEF Cleared
    <3>. QED BY <2>1, <3>2, <3>3 DEF Cleared
  <2>2. /\ q \in Live /\ row[q].sha = row'[q].sha
        /\ r \in Live /\ row[r].sha = row'[r].sha
    BY <2>1
  <2>3. Cleared(q)
    BY <2>1, <2>2 DEF HashRivals, SameHash
  <2>4. Cleared(r)
    BY <2>1, <2>2 DEF HashRivals, SameHash
  <2>. QED BY <2>2, <2>3, <2>4 DEF HashInv, OneClearedPerFile
<1>. QED BY <1>1, <1>4, <1>5 DEF HashInv

\* Nothing exists at first, and nothing is under way.
LEMMA HashInit == ASSUME Assumptions, Init PROVE HashInv
<1>1. Typed BY IdleRequest DEF Init, Typed, TypeOK, HandsFull
<1>2. HeldHash BY DEF Init, HeldHash, Idle
<1>3. OneClearedPerFile BY DEF Init, OneClearedPerFile, Live
<1>. QED BY <1>1, <1>2, <1>3 DEF HashInv

\* Every variable keeps to its values: rows are drafts with a screenshot and a
\* hash, or payments; a request holds what its next step needs.
THEOREM DraftsTypeCorrect == Spec => []TypeOK
<1>. Assumptions
  BY RowsAssumption, MomentsAssumption, NullsAssumption DEF Assumptions
<1>1. Init => HashInv BY HashInit
<1>2. HashInv /\ [Next]_vars => HashInv' BY HashNext
<1>3. HashInv => TypeOK BY DEF HashInv, Typed
<1>. QED BY <1>1, <1>2, <1>3, PTL DEF Spec

\* services/payment.go:570-591: however many uploads and confirmations run at
\* once, whatever fails, crashes, is cancelled or swept, no two payments are
\* saved for one screenshot.
THEOREM OneFileOnePayment == Spec => []OneConfirmedPerFile
<1>. Assumptions
  BY RowsAssumption, MomentsAssumption, NullsAssumption DEF Assumptions
<1>1. Init => HashInv BY HashInit
<1>2. HashInv /\ [Next]_vars => HashInv' BY HashNext
<1>3. HashInv => OneConfirmedPerFile
  BY DEF HashInv, OneClearedPerFile, OneConfirmedPerFile, Cleared, Confirmed
<1>. QED BY <1>1, <1>2, <1>3, PTL DEF Spec

-----------------------------------------------------------------------------
(* The payments are rows as UploadLifecycle has them. *)

Documents == [r \in Rows |-> Document(r)]

\* What a row is there.
LEMMA DocumentOf ==
    ASSUME Assumptions, NEW r \in Rows
    PROVE  /\ row[r] = Unborn => Document(r) = Uploads!Absent
           /\ row[r] = Gone => Document(r) = Uploads!Deleted
           /\ r \in Drafts => Document(r) = Uploads!Draft(row[r].sha)
           /\ r \in Confirmed => Document(r) = Uploads!Saved(row[r].sha)
<1>1. Unborn # Gone BY DEF Assumptions, NullsAssumption
<1>. QED BY <1>1 DEF Document, Drafts, Confirmed, Live, Uploads!Absent, Uploads!Deleted, Uploads!Draft, Uploads!Saved

\* One row is written.
LEMMA DocumentWritten ==
    ASSUME TypeOK, NEW r \in Rows, NEW x, row' = [row EXCEPT ![r] = x]
    PROVE  Documents' = [Documents EXCEPT ![r] = Document(r)']
<1>1. \A q \in Rows \ {r} : row'[q] = row[q] BY DEF TypeOK
<1>2. \A q \in Rows \ {r} : Document(q)' = Document(q) BY <1>1 DEF Document
<1>. QED BY <1>2 DEF Documents

\* A draft is confirmed only while no payment is saved for its screenshot.
LEMMA ConfirmationIsOneStep ==
    ASSUME Assumptions, HashInv, HashInv', NEW r \in Live, NEW x \in PaymentRow, Updates(r, x)
    PROVE  Documents' = Documents \/ \E h \in Hashes : Uploads!Confirmed(r, h)
<1> DEFINE h == row[r].sha
<1>0. TypeOK /\ TypeOK' BY DEF HashInv, Typed
<1>1. r \in Rows /\ x \notin {Unborn, Gone} /\ row[r] \in PaymentRow
  BY <1>0, LiveRows DEF Live, Assumptions, NullsAssumption
<1>2. row'[r] = x /\ \A q \in Rows \ {r} : row'[q] = row[q] BY <1>0, <1>1 DEF Updates, TypeOK
<1>3. Documents' = [Documents EXCEPT ![r] = Document(r)'] BY <1>0, <1>1, DocumentWritten DEF Updates
<1>4. CASE x.draft = row[r].draft
  <2>1. Document(r)' = Document(r) BY <1>1, <1>2, <1>4 DEF Document, Updates, Live
  <2>. QED BY <1>1, <1>3, <2>1 DEF Documents
<1>5. CASE x.draft # row[r].draft
  <2>1. row[r].draft /\ ~x.draft /\ x.sha = h BY <1>1, <1>5 DEF Updates, PaymentRow
  <2>2. r \in Drafts /\ r \in Confirmed' BY <1>1, <1>2, <2>1 DEF Drafts, Confirmed, Live
  <2>3. h \in Hashes /\ h # None BY <1>0, <2>2, LiveRows DEF Assumptions, NullsAssumption
  <2>4. ASSUME NEW q \in Rows, Document(q) = Uploads!Saved(h) PROVE FALSE
    <3>1. q \in Confirmed /\ row[q].sha = h
      BY <2>3, <2>4 DEF Document, Uploads!Saved, Confirmed, Live
    <3>2. q # r BY <2>1, <3>1 DEF Confirmed
    <3>3. q \in Confirmed' /\ row'[q].sha = h BY <1>2, <3>1, <3>2 DEF Confirmed, Live
    <3>4. row'[r].sha = h BY <1>2, <2>1
    <3>. QED BY <2>2, <2>3, <3>2, <3>3, <3>4 DEF HashInv, OneClearedPerFile, Cleared, Confirmed
  <2>5. Document(r) = Uploads!Draft(h) BY <1>1, <2>2, DocumentOf
  <2>6. Document(r)' = Uploads!Saved(h)
    BY <1>1, <1>2, <2>1 DEF Document, Uploads!Saved
  <2>7. Uploads!Confirmed(r, h)
    BY <1>1, <1>3, <2>4, <2>5, <2>6 DEF Uploads!Confirmed, Uploads!Write, Documents
  <2>. QED BY <2>3, <2>7
<1>. QED BY <1>4, <1>5

\* Every step of the requests is a step of the rows or leaves them as they are.
LEMMA StepsFollowLifecycle ==
    ASSUME Assumptions, HashInv, HashInv', [Next]_vars
    PROVE  [Uploads!Next]_Documents
<1>0. TypeOK /\ Statement BY OneStatement DEF HashInv, Typed
<1>1. CASE UNCHANGED row BY <1>1 DEF Documents, Document
<1>2. ASSUME NEW r \in Live, NEW x \in PaymentRow, Updates(r, x) PROVE [Uploads!Next]_Documents
  BY <1>2, ConfirmationIsOneStep DEF Uploads!Next, Live
<1>3. ASSUME NEW r \in Rows, NEW x \in PaymentRow, Inserts(r, x) PROVE Uploads!Next
  <2>1. x \notin {Unborn, Gone} BY DEF Assumptions, NullsAssumption
  <2>2. row'[r] = x BY <1>0, <1>3 DEF Inserts, TypeOK
  <2>3. Documents' = [Documents EXCEPT ![r] = Document(r)'] BY <1>0, <1>3, DocumentWritten DEF Inserts
  <2>4. Document(r) = Uploads!Absent BY <1>3, DocumentOf DEF Inserts
  <2>5. CASE x.draft
    <3>1. x.sha \in Hashes BY <2>5 DEF PaymentRow
    <3>2. Document(r)' = Uploads!Draft(x.sha) BY <2>1, <2>2, <2>5 DEF Document, Uploads!Draft
    <3>3. Uploads!Uploaded(r, x.sha)
      BY <2>3, <2>4, <3>2 DEF Uploads!Uploaded, Uploads!Write, Documents
    <3>. QED BY <3>1, <3>3 DEF Uploads!Next
  <2>6. CASE ~x.draft
    <3>1. x.sha = None BY <1>3, <2>6 DEF Inserts
    <3>2. Document(r)' = Uploads!Saved(None) BY <2>1, <2>2, <2>6, <3>1 DEF Document, Uploads!Saved
    <3>3. Uploads!Entered(r)
      BY <2>3, <2>4, <3>2 DEF Uploads!Entered, Uploads!Write, Documents
    <3>. QED BY <3>3 DEF Uploads!Next
  <2>. QED BY <2>5, <2>6
<1>4. ASSUME NEW dead \in SUBSET Live, Deletes(dead) PROVE Uploads!Next
  <2>1. \A r \in dead : r \in Rows /\ Document(r).life \in {"draft", "saved"}
    BY DEF Live, Document
  <2>2. \A r \in Rows : Document(r)' = IF r \in dead THEN Uploads!Deleted ELSE Document(r)
    <3> SUFFICES ASSUME NEW r \in Rows
                 PROVE  Document(r)' = IF r \in dead THEN Uploads!Deleted ELSE Document(r)
      OBVIOUS
    <3>1. Unborn # Gone BY DEF Assumptions, NullsAssumption
    <3>. QED BY <1>4, <3>1 DEF Deletes, Document, Uploads!Deleted
  <2>3. dead \in SUBSET Rows BY DEF Live
  <2>4. Uploads!Removed(dead) BY <2>1, <2>2 DEF Uploads!Removed
  <2>. QED BY <2>3, <2>4 DEF Uploads!Next
<1>. QED BY <1>0, <1>1, <1>2, <1>3, <1>4 DEF Statement

\* Whatever other requests do between the statements of a confirmation, it is
\* one step of UploadLifecycle; so is everything else that becomes of a payment.
THEOREM ConfirmsAsOneStep == Spec => Lifecycle
<1>. Assumptions
  BY RowsAssumption, MomentsAssumption, NullsAssumption DEF Assumptions
<1>1. Init => HashInv BY HashInit
<1>2. HashInv /\ [Next]_vars => HashInv' BY HashNext
<1>3. Init => Uploads!Init
  <2>1. Init => \A r \in Rows : Document(r) = Uploads!Absent BY DocumentOf DEF Init
  <2>. QED BY <2>1 DEF Uploads!Init
<1>4. HashInv /\ HashInv' /\ [Next]_vars => [Uploads!Next]_Documents BY StepsFollowLifecycle
<1>5. [Uploads!Next]_Documents <=> [Uploads!Next]_[r \in Rows |-> Document(r)] BY DEF Documents
<1>. QED BY <1>1, <1>2, <1>3, <1>4, <1>5, PTL DEF Spec, Lifecycle, Uploads!Spec

-----------------------------------------------------------------------------
(* Rows and their files. The lemmas below are about the four things the     *)
(* files depend on, whatever statement changes them: which file every row   *)
(* owns, the directory, the requests and the sweeper's list.                *)

Shaped(own, dk, rq, sw) ==
    /\ own \in [Rows -> Files \cup {None}]
    /\ dk \in [Files -> {"free", "kept", "removed"}]
    /\ rq \in [Clients -> Request]
    /\ sw \subseteq Files
    /\ None \notin Files
    /\ \A c \in Clients : rq[c].pc \in Uploading \cup {"unlink"} => rq[c].f \in Files

Without(fs, dk) == [f \in Files |-> IF f \in fs THEN "removed" ELSE dk[f]]

\* Where a row is left without its file, it was before.
Kept(own, dk, own2, dk2) ==
    \A r \in Rows : own2[r] # None /\ dk2[own2[r]] # "kept" =>
        own2[r] = own[r] /\ dk[own[r]] # "kept"

\* A request goes on with the file it has, or without one.
LEMMA MovesOn ==
    ASSUME NEW own, NEW dk, NEW rq, NEW sw,
           Shaped(own, dk, rq, sw), Sound(own, dk, rq, sw),
           NEW c \in Clients, NEW x \in Request,
           x.f \in {rq[c].f, None}, x.pc \notin {"delete", "unlink"},
           x.pc \in Uploading => rq[c].pc \in Uploading /\ x.f = rq[c].f
    PROVE  Sound(own, dk, [rq EXCEPT ![c] = x], sw)
<1> DEFINE rq2 == [rq EXCEPT ![c] = x]
<1>1. rq2[c] = x /\ \A b \in Clients \ {c} : rq2[b] = rq[b] BY DEF Shaped
<1> HIDE DEF rq2
<1>2. NamesTaken(own, dk, rq2, sw) BY <1>1 DEF Shaped, Sound, NamesTaken
<1>3. ClaimsApart(own, rq2, sw) BY <1>1 DEF Shaped, Sound, ClaimsApart, Uploading
<1>. QED BY <1>2, <1>3 DEF Sound, rq2

\* A file that is new is nobody's.
LEMMA SavesFile ==
    ASSUME NEW own, NEW dk, NEW rq, NEW sw,
           Shaped(own, dk, rq, sw), Sound(own, dk, rq, sw),
           NEW c \in Clients, NEW f \in Files, NEW x \in Request,
           dk[f] = "free", x.f = f, x.pc \in Uploading
    PROVE  /\ Sound(own, [dk EXCEPT ![f] = "kept"], [rq EXCEPT ![c] = x], sw)
           /\ Kept(own, dk, own, [dk EXCEPT ![f] = "kept"])
<1> DEFINE rq2 == [rq EXCEPT ![c] = x]
           dk2 == [dk EXCEPT ![f] = "kept"]
<1>1. rq2[c] = x /\ \A b \in Clients \ {c} : rq2[b] = rq[b] BY DEF Shaped
<1>2. dk2[f] = "kept" /\ \A g \in Files \ {f} : dk2[g] = dk[g] BY DEF Shaped
<1> HIDE DEF rq2, dk2
<1>3. NamesTaken(own, dk2, rq2, sw)
  BY <1>1, <1>2 DEF Shaped, Sound, NamesTaken, Request
<1>4. ClaimsApart(own, rq2, sw)
  BY <1>1 DEF Shaped, Sound, NamesTaken, ClaimsApart, Uploading
<1>5. Kept(own, dk, own, dk2) BY <1>2 DEF Kept, Shaped
<1>. QED BY <1>3, <1>4, <1>5 DEF Sound, rq2, dk2

\* Files that nobody owns and no upload has in hand may be removed.
LEMMA RemovesFiles ==
    ASSUME NEW own, NEW dk, NEW rq, NEW sw,
           Shaped(own, dk, rq, sw), Sound(own, dk, rq, sw), NEW fs,
           \A c \in Clients : rq[c].pc \in Uploading => rq[c].f \notin fs
    PROVE  Sound(own, Without(fs, dk), rq, sw)
<1> DEFINE dk2 == Without(fs, dk)
<1>1. \A g \in Files : dk2[g] = IF g \in fs THEN "removed" ELSE dk[g] BY DEF Without
<1> HIDE DEF dk2
<1>2. NamesTaken(own, dk2, rq, sw)
  BY <1>1 DEF Shaped, Sound, NamesTaken, Request
<1>. QED BY <1>2 DEF Sound, dk2

\* Removing files that nobody owns leaves every row its file.
LEMMA RemovedKeeps ==
    ASSUME NEW own, NEW dk, NEW rq, NEW sw, Shaped(own, dk, rq, sw), NEW fs,
           \A r \in Rows : own[r] \notin fs
    PROVE  Kept(own, dk, own, Without(fs, dk))
BY DEF Kept, Without, Shaped

\* A row is given the new file of an upload.
LEMMA GivesFile ==
    ASSUME NEW own, NEW dk, NEW rq, NEW sw,
           Shaped(own, dk, rq, sw), Sound(own, dk, rq, sw),
           NEW c \in Clients, NEW r \in Rows, NEW x \in Request,
           rq[c].pc \in Uploading,
           x.f \in {rq[c].f, None}, x.pc \notin Uploading \cup {"delete", "unlink"}
    PROVE  /\ Sound([own EXCEPT ![r] = rq[c].f], dk, [rq EXCEPT ![c] = x], sw)
           /\ Kept(own, dk, [own EXCEPT ![r] = rq[c].f], dk)
<1> DEFINE rq2 == [rq EXCEPT ![c] = x]
           own2 == [own EXCEPT ![r] = rq[c].f]
<1>1. rq2[c] = x /\ \A b \in Clients \ {c} : rq2[b] = rq[b] BY DEF Shaped
<1>2. own2[r] = rq[c].f /\ \A q \in Rows \ {r} : own2[q] = own[q] BY DEF Shaped
<1> HIDE DEF rq2, own2
<1>3. NamesTaken(own2, dk, rq2, sw)
  BY <1>1, <1>2 DEF Shaped, Sound, NamesTaken
<1>4. ClaimsApart(own2, rq2, sw)
  BY <1>1, <1>2 DEF Shaped, Sound, ClaimsApart, Uploading
<1>5. Kept(own, dk, own2, dk)
  BY <1>2 DEF Kept, Sound, NamesTaken
<1>. QED BY <1>3, <1>4, <1>5 DEF Sound, rq2, own2

\* Rows are deleted.
LEMMA LosesRows ==
    ASSUME NEW own, NEW dk, NEW rq, NEW sw,
           Shaped(own, dk, rq, sw), Sound(own, dk, rq, sw), NEW dead
    PROVE  /\ Sound([q \in Rows |-> IF q \in dead THEN None ELSE own[q]], dk, rq, sw)
           /\ Kept(own, dk, [q \in Rows |-> IF q \in dead THEN None ELSE own[q]], dk)
<1> DEFINE own2 == [q \in Rows |-> IF q \in dead THEN None ELSE own[q]]
<1>1. \A q \in Rows : own2[q] = IF q \in dead THEN None ELSE own[q] OBVIOUS
<1> HIDE DEF own2
<1>2. NamesTaken(own2, dk, rq, sw) BY <1>1 DEF Sound, NamesTaken
<1>3. ClaimsApart(own2, rq, sw) BY <1>1 DEF Shaped, Sound, ClaimsApart
<1>4. Kept(own, dk, own2, dk) BY <1>1 DEF Kept
<1>. QED BY <1>2, <1>3, <1>4 DEF Sound, own2

\* A file that is owned is taken in hand, to remove it or to delete its row.
LEMMA TakesOwned ==
    ASSUME NEW own, NEW dk, NEW rq, NEW sw,
           Shaped(own, dk, rq, sw), Sound(own, dk, rq, sw),
           NEW c \in Clients, NEW r \in Rows, NEW x \in Request,
           x.f = own[r], x.pc \notin Uploading \cup {"unlink"},
           x.pc = "delete" => x.r = r
    PROVE  Sound(own, dk, [rq EXCEPT ![c] = x], sw)
<1> DEFINE rq2 == [rq EXCEPT ![c] = x]
<1>1. rq2[c] = x /\ \A b \in Clients \ {c} : rq2[b] = rq[b] BY DEF Shaped
<1> HIDE DEF rq2
<1>2. NamesTaken(own, dk, rq2, sw) BY <1>1 DEF Shaped, Sound, NamesTaken
<1>3. ClaimsApart(own, rq2, sw) BY <1>1 DEF Shaped, Sound, ClaimsApart, Uploading
<1>. QED BY <1>2, <1>3 DEF Sound, rq2

\* A file that has been shown is taken in hand by its name.
LEMMA TakesNamed ==
    ASSUME NEW own, NEW dk, NEW rq, NEW sw,
           Shaped(own, dk, rq, sw), Sound(own, dk, rq, sw),
           NEW c \in Clients, NEW x \in Request, x.f \in Files, dk[x.f] # "free",
           \A b \in Clients : rq[b].pc \in Uploading => rq[b].f # x.f,
           x.pc \notin Uploading, x.pc \in {"delete", "unlink"} => x.h = None
    PROVE  Sound(own, dk, [rq EXCEPT ![c] = x], sw)
<1> DEFINE rq2 == [rq EXCEPT ![c] = x]
<1>1. rq2[c] = x /\ \A b \in Clients \ {c} : rq2[b] = rq[b] BY DEF Shaped
<1> HIDE DEF rq2
<1>2. NamesTaken(own, dk, rq2, sw) BY <1>1 DEF Shaped, Sound, NamesTaken
<1>3. ClaimsApart(own, rq2, sw) BY <1>1 DEF Shaped, Sound, ClaimsApart
<1>. QED BY <1>2, <1>3 DEF Sound, rq2

\* A request with no file in hand.
LEMMA HoldsNothing ==
    ASSUME NEW own, NEW dk, NEW rq, NEW sw,
           Shaped(own, dk, rq, sw), Sound(own, dk, rq, sw),
           NEW c \in Clients, NEW x \in Request, x.f = None, x.h = None, x.pc \notin Uploading
    PROVE  Sound(own, dk, [rq EXCEPT ![c] = x], sw)
<1> DEFINE rq2 == [rq EXCEPT ![c] = x]
<1>1. rq2[c] = x /\ \A b \in Clients \ {c} : rq2[b] = rq[b] BY DEF Shaped
<1> HIDE DEF rq2
<1>2. NamesTaken(own, dk, rq2, sw) BY <1>1 DEF Shaped, Sound, NamesTaken
<1>3. ClaimsApart(own, rq2, sw) BY <1>1 DEF Shaped, Sound, ClaimsApart, Uploading
<1>. QED BY <1>2, <1>3 DEF Sound, rq2

\* The row of a deletion is gone: its file is nobody's.
LEMMA DeletesRow ==
    ASSUME NEW own, NEW dk, NEW rq, NEW sw,
           Shaped(own, dk, rq, sw), Sound(own, dk, rq, sw),
           NEW c \in Clients, NEW x \in Request,
           rq[c].pc = "delete", own[rq[c].r] = None,
           x.f = rq[c].f, x.h = rq[c].h, x.f # None, x.pc = "unlink"
    PROVE  Sound(own, dk, [rq EXCEPT ![c] = x], sw)
<1> DEFINE rq2 == [rq EXCEPT ![c] = x]
<1>1. rq2[c] = x /\ \A b \in Clients \ {c} : rq2[b] = rq[b] BY DEF Shaped
<1> HIDE DEF rq2
<1>2. NamesTaken(own, dk, rq2, sw) BY <1>1 DEF Shaped, Sound, NamesTaken, Uploading
<1>3. ClaimsApart(own, rq2, sw) BY <1>1 DEF Shaped, Sound, ClaimsApart, Uploading
<1>. QED BY <1>2, <1>3 DEF Sound, rq2

\* The sweeper's list may shrink.
LEMMA SweepShrinks ==
    ASSUME NEW own, NEW dk, NEW rq, NEW sw, Sound(own, dk, rq, sw), NEW less \in SUBSET sw
    PROVE  Sound(own, dk, rq, less)
BY DEF Sound, NamesTaken, ClaimsApart

\* The rows that the sweeper deletes leave their files to it alone.
LEMMA SweepsRows ==
    ASSUME NEW own, NEW dk, NEW rq, NEW sw,
           Shaped(own, dk, rq, sw), Sound(own, dk, rq, sw), NEW dead \in SUBSET Rows,
           \A r \in dead : own[r] # None
    PROVE  Sound([q \in Rows |-> IF q \in dead THEN None ELSE own[q]], dk, rq,
                 {own[r] : r \in dead})
<1> DEFINE own2 == [q \in Rows |-> IF q \in dead THEN None ELSE own[q]]
           sw2  == {own[r] : r \in dead}
<1>1. \A q \in Rows : own2[q] = IF q \in dead THEN None ELSE own[q] OBVIOUS
<1>2. \A f \in sw2 : \E r \in dead : f = own[r] /\ own[r] # None OBVIOUS
<1>3. Sound(own2, dk, rq, sw) BY LosesRows
<1> HIDE DEF own2, sw2
<1>4. \A f \in sw2 : dk[f] # "free" BY <1>2 DEF Sound, NamesTaken
<1>5. \A f \in sw2, r \in Rows : own2[r] # f
  BY <1>1, <1>2 DEF Sound, ClaimsApart, Shaped
<1>6. \A c \in Clients : rq[c].pc \in Uploading => rq[c].f \notin sw2
  BY <1>2 DEF Sound, ClaimsApart
<1>. QED BY <1>3, <1>4, <1>5, <1>6 DEF Sound, NamesTaken, ClaimsApart, own2, sw2


\* The types of a reachable state are those the lemmas ask for.
LEMMA StateShaped ==
    ASSUME Assumptions, Typed
    PROVE  Shaped(Shot, disk, req, sweep)
<1>1. Shot \in [Rows -> Files \cup {None}]
  BY LiveRows DEF Shot, Typed, PaymentRow
<1>. QED BY <1>1
         DEF Shaped, Typed, TypeOK, HandsFull, Armed, Uploading, Assumptions, NullsAssumption

\* What an INSERT, an UPDATE and a DELETE do to who owns which file.
LEMMA OwnWritten ==
    ASSUME Assumptions, TypeOK, NEW r \in Rows, NEW x \in PaymentRow,
           row' = [row EXCEPT ![r] = x]
    PROVE  Own' = [Own EXCEPT ![r] = x.file]
<1>1. row'[r] = x /\ \A q \in Rows \ {r} : row'[q] = row[q] BY DEF TypeOK
<1>2. x \notin {Unborn, Gone} BY DEF Assumptions, NullsAssumption
<1>3. Own'[r] = x.file /\ \A q \in Rows \ {r} : Own'[q] = Own[q]
  BY <1>1, <1>2 DEF Own, Live
<1>. QED BY <1>3 DEF Own

\* An UPDATE that leaves screenshot_path alone.
LEMMA OwnUpdated ==
    ASSUME Assumptions, TypeOK, NEW r \in Live, NEW x \in PaymentRow,
           x.file = row[r].file, row' = [row EXCEPT ![r] = x]
    PROVE  Own' = Own
<1>1. r \in Rows /\ Own[r] = x.file BY DEF Own, Live
<1>2. Own' = [Own EXCEPT ![r] = x.file] BY <1>1, OwnWritten
<1>. QED BY <1>1, <1>2 DEF Own

\* The UPDATE that points a draft at another file.
LEMMA OwnRepointed ==
    ASSUME Assumptions, TypeOK, NEW r \in Drafts, NEW f \in Files, row' = Repointed(r, f)
    PROVE  Own' = [Own EXCEPT ![r] = f]
<1> DEFINE x == [row[r] EXCEPT !.file = f]
<1>1. r \in Rows /\ row[r] \in PaymentRow /\ row[r].draft BY LiveRows DEF Drafts, Live
<1>2. x \in PaymentRow /\ x.file = f BY <1>1 DEF PaymentRow
<1>3. row' = [row EXCEPT ![r] = x] BY DEF Repointed, TypeOK
<1> HIDE DEF x
<1>. QED BY <1>1, <1>2, <1>3, OwnWritten

\* A DELETE.
LEMMA OwnDeleted ==
    ASSUME Assumptions, TypeOK, NEW dead \in SUBSET Rows,
           row' = [q \in Rows |-> IF q \in dead THEN Gone ELSE row[q]]
    PROVE  Own' = [q \in Rows |-> IF q \in dead THEN None ELSE Own[q]]
BY DEF Own, Live

\* The same for the rows made from screenshots.
LEMMA ShotWritten ==
    ASSUME Assumptions, TypeOK, NEW r \in Rows, NEW x \in PaymentRow,
           row' = [row EXCEPT ![r] = x]
    PROVE  Shot' = [Shot EXCEPT ![r] = IF x.sha # None THEN x.file ELSE None]
<1>1. row'[r] = x /\ \A q \in Rows \ {r} : row'[q] = row[q] BY DEF TypeOK
<1>2. x \notin {Unborn, Gone} BY DEF Assumptions, NullsAssumption
<1>3. /\ Shot'[r] = (IF x.sha # None THEN x.file ELSE None)
      /\ \A q \in Rows \ {r} : Shot'[q] = Shot[q]
  BY <1>1, <1>2 DEF Shot, Live
<1>4. Shot = [q \in Rows |-> Shot[q]] /\ Shot' = [q \in Rows |-> Shot'[q]] BY DEF Shot
<1>. QED BY <1>3, <1>4

LEMMA ShotUpdated ==
    ASSUME Assumptions, TypeOK, NEW r \in Live, NEW x \in PaymentRow,
           x.file = row[r].file, x.sha = row[r].sha, row' = [row EXCEPT ![r] = x]
    PROVE  Shot' = Shot
<1>1. r \in Rows /\ Shot[r] = (IF x.sha # None THEN x.file ELSE None) BY DEF Shot, Live
<1>2. Shot' = [Shot EXCEPT ![r] = IF x.sha # None THEN x.file ELSE None]
  BY <1>1, ShotWritten
<1>. QED BY <1>1, <1>2 DEF Shot

LEMMA ShotRepointed ==
    ASSUME Assumptions, TypeOK, NEW r \in Drafts, NEW f \in Files, row' = Repointed(r, f)
    PROVE  Shot' = [Shot EXCEPT ![r] = f]
<1> DEFINE x == [row[r] EXCEPT !.file = f]
<1>1. r \in Rows /\ row[r] \in PaymentRow /\ row[r].draft BY LiveRows DEF Drafts, Live
<1>2. x \in PaymentRow /\ x.file = f /\ x.sha \in Hashes BY <1>1 DEF PaymentRow
<1>3. row' = [row EXCEPT ![r] = x] BY DEF Repointed, TypeOK
<1>4. x.sha # None BY <1>2 DEF Assumptions, NullsAssumption
<1> HIDE DEF x
<1>. QED BY <1>1, <1>2, <1>3, <1>4, ShotWritten

LEMMA ShotDeleted ==
    ASSUME Assumptions, TypeOK, NEW dead \in SUBSET Rows,
           row' = [q \in Rows |-> IF q \in dead THEN Gone ELSE row[q]]
    PROVE  Shot' = [q \in Rows |-> IF q \in dead THEN None ELSE Shot[q]]
BY DEF Shot, Live

\* A row is written, or was, and a statement after it fails.
LateLoss(c) ==
    /\ "fault" \in Mishaps
    /\ req[c].pc \in {"repoint", "mark"}
    /\ UploadDiscards(c)
    /\ Shot' = Shot \/ Shot' = [Shot EXCEPT ![req[c].r] = req[c].f]

\* What has to be shown of a step.
FilesGoOn ==
    /\ Sound(Shot', disk', req', sweep')
    /\ \/ Kept(Shot, disk, Shot', disk')
       \/ \E c \in Clients, f \in Files : CancelRemove(c, f)
       \/ \E c \in Clients : LateLoss(c)
       \/ \E c \in Clients, f \in Files : TripFile(c, f)
       \/ \E c \in Clients : DeleteFile(c) /\ req[c].h = None

\* Neither the rows' files nor the directory has changed.
LEMMA KeptAlone == ASSUME NEW own, NEW dk PROVE Kept(own, dk, own, dk)
BY DEF Kept

\* Nothing the files depend on has changed.
LEMMA FilesUntouched ==
    ASSUME Assumptions, FileInv, Shot' = Shot, UNCHANGED <<disk, req, sweep>>
    PROVE  FilesGoOn
BY KeptAlone DEF FilesGoOn, FileInv

\* A request goes on and no row changes hands.
LEMMA RequestGoesOn ==
    ASSUME Assumptions, FileInv, Shot' = Shot, UNCHANGED <<disk, sweep>>,
           NEW c \in Clients, NEW x \in Request, Goto(c, x),
           x.f \in {req[c].f, None}, x.pc \notin {"delete", "unlink"},
           x.pc \in Uploading => req[c].pc \in Uploading /\ x.f = req[c].f
    PROVE  FilesGoOn
<1>1. Shaped(Shot, disk, req, sweep) BY StateShaped DEF FileInv
<1>2. Sound(Shot, disk, req', sweep) BY <1>1, MovesOn DEF FileInv, Goto
<1>. QED BY <1>2, KeptAlone DEF FilesGoOn

\* A request ends, and leaves its file to whoever owns it.
LEMMA RequestEnds ==
    ASSUME Assumptions, FileInv, Shot' = Shot, UNCHANGED <<disk, sweep>>,
           NEW c \in Clients, Goto(c, Idle)
    PROVE  FilesGoOn
<1>1. Idle.f = None /\ Idle.pc = "idle" BY DEF Idle
<1>2. Idle.pc \notin Uploading BY <1>1 DEF Uploading
<1>. QED BY <1>1, <1>2, IdleRequest, RequestGoesOn

\* A request ends by removing the file it has in hand, which nobody owns.
LEMMA RequestRemoves ==
    ASSUME Assumptions, FileInv, Shot' = Shot, UNCHANGED sweep, NEW c \in Clients,
           req[c].pc \in Uploading \/ (req[c].pc = "unlink" /\ DeleteFile(c)),
           Remove({req[c].f}), Goto(c, Idle)
    PROVE  FilesGoOn
<1> DEFINE rq2 == [req EXCEPT ![c] = Idle]
<1>1. Shaped(Shot, disk, req, sweep) BY StateShaped DEF FileInv
<1>2. Idle.f = None /\ Idle.pc = "idle" BY DEF Idle
<1>3. Sound(Shot, disk, rq2, sweep)
  BY <1>1, <1>2, IdleRequest, MovesOn DEF FileInv, Uploading
<1>4. \A b \in Clients : rq2[b].pc \in Uploading => rq2[b].f \notin {req[c].f}
  BY <1>1, <1>2 DEF Shaped, FileInv, Sound, ClaimsApart, Uploading
<1>5. rq2 \in [Clients -> Request] BY <1>1, IdleRequest DEF Shaped
<1>6. Shaped(Shot, disk, rq2, sweep)
  BY <1>1, <1>2, <1>5 DEF Shaped, Uploading
<1>7. disk' = Without({req[c].f}, disk) BY DEF Remove, Without
<1>8. req[c].pc \in Uploading \/ req[c].h # None => \A r \in Rows : Shot[r] \notin {req[c].f}
  BY DEF FileInv, Sound, ClaimsApart
<1>9. req' = rq2 BY DEF Goto
<1> HIDE DEF rq2
<1>10. Sound(Shot, Without({req[c].f}, disk), rq2, sweep)
  BY <1>3, <1>4, <1>6, RemovesFiles
<1>11. \/ Kept(Shot, disk, Shot, Without({req[c].f}, disk))
       \/ DeleteFile(c) /\ req[c].h = None
  BY <1>1, <1>8, RemovedKeeps
<1>. QED BY <1>7, <1>9, <1>10, <1>11 DEF FilesGoOn


\* A row is given the new file of an upload, which goes on without it.
LEMMA RequestGives ==
    ASSUME Assumptions, FileInv, UNCHANGED <<disk, sweep>>,
           NEW c \in Clients, NEW r \in Rows, NEW x \in Request, Goto(c, x),
           req[c].pc \in Uploading, Shot' = [Shot EXCEPT ![r] = req[c].f],
           x.f \in {req[c].f, None}, x.pc \in {"idle", "mark"}
    PROVE  FilesGoOn
<1>1. Shaped(Shot, disk, req, sweep) BY StateShaped DEF FileInv
<1>2. x.pc \notin Uploading \cup {"delete", "unlink"} BY DEF Uploading
<1>3. /\ Sound([Shot EXCEPT ![r] = req[c].f], disk, [req EXCEPT ![c] = x], sweep)
      /\ Kept(Shot, disk, [Shot EXCEPT ![r] = req[c].f], disk)
  BY <1>1, <1>2, GivesFile DEF FileInv
<1>. QED BY <1>3 DEF FilesGoOn, Goto

\* A request fails after its row was written: the file goes all the same.
LEMMA LateFailure ==
    ASSUME Assumptions, FileInv, UNCHANGED sweep, NEW c \in Clients, LateLoss(c),
           req[c].pc = "mark" => Shot' = Shot
    PROVE  FilesGoOn
<1> DEFINE rq2 == [req EXCEPT ![c] = Idle]
<1>1. /\ Shaped(Shot, disk, req, sweep) /\ Typed /\ TypeOK
      /\ req[c] \in Request /\ Armed(req[c])
  BY StateShaped DEF FileInv, Typed, TypeOK, HandsFull
<1>2. Idle.f = None /\ Idle.pc = "idle" BY DEF Idle
<1>3. req[c].f \in Files BY <1>1 DEF LateLoss, Armed
<1>4. Sound(Shot', disk, rq2, sweep)
  <2>1. CASE Shot' = Shot
    BY <1>1, <1>2, <2>1, IdleRequest, MovesOn DEF FileInv, Uploading
  <2>2. CASE Shot' # Shot
    <3>1. req[c].pc = "repoint" /\ Shot' = [Shot EXCEPT ![req[c].r] = req[c].f]
      BY <2>2 DEF LateLoss
    <3>2. req[c].pc \in Uploading /\ req[c].r \in Rows
      BY <1>1, <3>1 DEF Uploading, Armed
    <3>3. Idle.pc \notin Uploading \cup {"delete", "unlink"} BY <1>2 DEF Uploading
    <3>. QED BY <1>1, <1>2, <3>1, <3>2, <3>3, IdleRequest, GivesFile DEF FileInv
  <2>. QED BY <2>1, <2>2
<1>5. rq2 \in [Clients -> Request] BY <1>1, IdleRequest DEF Shaped
<1>6. rq2[c] = Idle /\ \A b \in Clients \ {c} : rq2[b] = req[b] BY <1>1 DEF Shaped
<1>7. \A b \in Clients : rq2[b].pc \in Uploading => rq2[b].f \notin {req[c].f}
  BY <1>1, <1>2, <1>6 DEF FileInv, Sound, ClaimsApart, Uploading
<1>8. Shot' \in [Rows -> Files \cup {None}] BY <1>1, <1>3 DEF LateLoss, Shaped
<1>9. Shaped(Shot', disk, rq2, sweep)
  BY <1>1, <1>2, <1>5, <1>6, <1>8 DEF Shaped, Uploading
<1>10. disk' = Without({req[c].f}, disk) /\ req' = rq2
  BY DEF LateLoss, UploadDiscards, Remove, Without, Goto
<1> HIDE DEF rq2
<1>11. Sound(Shot', Without({req[c].f}, disk), rq2, sweep) BY <1>4, <1>7, <1>9, RemovesFiles
<1>. QED BY <1>10, <1>11 DEF FilesGoOn

\* A file that some row points to is out of its upload's hands.
LEMMA RowsAreShown ==
    ASSUME Assumptions, FileInv, NEW r \in Live, row[r].file \in Files
    PROVE  HasBeenShown(row[r].file)
<1>1. CASE row[r].sha = None
  <2>1. row[r].file \in Shown BY <1>1 DEF Shown
  <2>. QED BY <2>1 DEF FileInv, AllShown
<1>2. CASE row[r].sha # None
  <2>1. r \in Rows /\ Shot[r] = row[r].file /\ Shot[r] # None
    BY <1>2 DEF Shot, Live, Assumptions, NullsAssumption
  <2>2. disk[Shot[r]] # "free" BY <2>1 DEF FileInv, Sound, NamesTaken
  <2>3. \A c \in Clients : req[c].pc \in Uploading => req[c].f # Shot[r]
    BY <2>1 DEF FileInv, Sound, ClaimsApart
  <2>. QED BY <2>1, <2>2, <2>3 DEF HasBeenShown
<1>. QED BY <1>1, <1>2

\* The steps of an upload.
LEMMA UploadFiles ==
    ASSUME Assumptions, FileInv, NEW c \in Clients, Upload(c)
    PROVE  FilesGoOn
<1>0. /\ Shaped(Shot, disk, req, sweep) /\ Typed /\ TypeOK
      /\ req[c] \in Request /\ Armed(req[c])
  BY StateShaped DEF FileInv, Typed, TypeOK, HandsFull
<1>u. ASSUME UNCHANGED row PROVE Shot' = Shot BY <1>u DEF Shot, Live
<1>1. ASSUME NEW f \in Files, NEW h \in Hashes, UploadSave(c, f, h) PROVE FilesGoOn
  <2> DEFINE x == [Idle EXCEPT !.pc = "find", !.f = f, !.h = h]
  <2>1. x \in Request /\ x.pc = "find" /\ x.f = f BY DEF Idle, Request, PCs
  <2>2. disk[f] = "free" /\ disk' = [disk EXCEPT ![f] = "kept"]
        /\ req' = [req EXCEPT ![c] = x] /\ UNCHANGED <<row, sweep>>
    BY <1>1 DEF UploadSave, IsFresh, Goto
  <2> HIDE DEF x
  <2>3. x.pc \in Uploading BY <2>1 DEF Uploading
  <2>4. /\ Sound(Shot, [disk EXCEPT ![f] = "kept"], [req EXCEPT ![c] = x], sweep)
        /\ Kept(Shot, disk, Shot, [disk EXCEPT ![f] = "kept"])
    BY <1>0, <2>1, <2>2, <2>3, SavesFile DEF FileInv
  <2>. QED BY <1>u, <2>2, <2>4 DEF FilesGoOn
<1>2. CASE UploadFind(c)
  <2>1. req[c].pc \in Uploading /\ UNCHANGED <<row, sweep>>
    BY <1>2 DEF UploadFind, Holds, Uploading
  <2>2. CASE UploadDiscards(c)
    BY <1>u, <2>1, <2>2, RequestRemoves DEF UploadDiscards
  <2>3. CASE UNCHANGED disk /\ Goto(c, [req[c] EXCEPT !.pc = "insert"])
    <3> DEFINE x == [req[c] EXCEPT !.pc = "insert"]
    <3>1. x \in Request /\ x.pc = "insert" /\ x.f = req[c].f BY <1>0
                                                                DEF Request, PCs
    <3> HIDE DEF x
    <3>. QED BY <1>u, <2>1, <2>3, <3>1, RequestGoesOn DEF x
  <2>4. ASSUME NEW r \in SameHash(req[c].h), row[r].draft, UNCHANGED disk,
               Goto(c, [req[c] EXCEPT !.pc = "stat", !.r = r, !.old = row[r].file])
        PROVE  FilesGoOn
    <3> DEFINE x == [req[c] EXCEPT !.pc = "stat", !.r = r, !.old = row[r].file]
    <3>1. r \in Rows /\ row[r].file \in Files
      BY <1>0, <2>4, LiveRows DEF SameHash, Drafts, Live
    <3>2. x \in Request /\ x.pc = "stat" /\ x.f = req[c].f
      BY <1>0, <3>1 DEF Request, PCs
    <3> HIDE DEF x
    <3>. QED BY <1>u, <2>1, <2>4, <3>2, RequestGoesOn DEF x
  <2>. QED BY <1>2, <2>2, <2>3, <2>4 DEF UploadFind
<1>3. CASE UploadStat(c)
  <2>1. req[c].pc \in Uploading /\ UNCHANGED <<row, sweep>>
    BY <1>3 DEF UploadStat, Holds, Uploading
  <2>2. CASE UploadDiscards(c)
    BY <1>u, <2>1, <2>2, RequestRemoves DEF UploadDiscards
  <2>3. CASE UNCHANGED disk /\ Goto(c, [req[c] EXCEPT !.pc = "repoint"])
    <3> DEFINE x == [req[c] EXCEPT !.pc = "repoint"]
    <3>1. x \in Request /\ x.pc = "repoint" /\ x.f = req[c].f BY <1>0
                                                                 DEF Request, PCs
    <3> HIDE DEF x
    <3>. QED BY <1>u, <2>1, <2>3, <3>1, RequestGoesOn DEF x
  <2>. QED BY <1>3, <2>2, <2>3 DEF UploadStat
<1>4. CASE UploadRepoint(c)
  <2> DEFINE r == req[c].r
             f == req[c].f
  <2>1. /\ req[c].pc = "repoint" /\ req[c].pc \in Uploading /\ UNCHANGED sweep
        /\ row' = Repointed(r, f)
    BY <1>4 DEF UploadRepoint, Holds, Uploading
  <2>2. r \in Rows /\ f \in Files BY <1>0, <2>1 DEF Armed
  <2>3. CASE r \in Drafts
    <3>1. Shot' = [Shot EXCEPT ![r] = f] BY <1>0, <2>1, <2>2, <2>3, ShotRepointed
    <3>2. Goto(c, Idle) /\ UNCHANGED disk BY <1>4, <2>3 DEF UploadRepoint, Drafts
    <3>3. Idle.f = None /\ Idle.pc = "idle" BY DEF Idle
    <3>. QED BY <2>1, <2>2, <3>1, <3>2, <3>3, IdleRequest, RequestGives
  <2>4. CASE r \notin Drafts
    <3>1. Shot' = Shot BY <1>u, <2>1, <2>4 DEF Repointed
    <3>2. CASE Goto(c, Idle) /\ UNCHANGED disk BY <2>1, <3>1, <3>2, RequestEnds
    <3>3. CASE UploadDiscards(c) BY <2>1, <3>1, <3>3, RequestRemoves
                                    DEF UploadDiscards
    <3>. QED BY <1>4, <3>2, <3>3 DEF UploadRepoint
  <2>. QED BY <2>3, <2>4
<1>5. ASSUME NEW r \in Rows, NEW key \in Moments \cup {None}, NEW x \in Request,
             Holds(c, "insert"), UNCHANGED <<disk, sweep>>,
             row' = [row EXCEPT ![r] = NewDraft(req[c].f, req[c].h, key)],
             Goto(c, x), x.f \in {req[c].f, None}, x.pc \in {"idle", "mark"}
      PROVE  FilesGoOn
  <2> DEFINE new == NewDraft(req[c].f, req[c].h, key)
  <2>1. req[c].pc = "insert" BY <1>5 DEF Holds
  <2>2. new \in PaymentRow /\ new.file = req[c].f /\ new.sha # None
    BY <1>0, <1>5, <2>1 DEF Armed, NewDraft, PaymentRow, Assumptions, NullsAssumption
  <2>3. row' = [row EXCEPT ![r] = new] BY <1>5
  <2> HIDE DEF new
  <2>4. Shot' = [Shot EXCEPT ![r] = IF new.sha # None THEN new.file ELSE None]
    BY <1>0, <2>2, <2>3, ShotWritten
  <2>5. Shot' = [Shot EXCEPT ![r] = req[c].f] BY <2>2, <2>4
  <2>6. req[c].pc \in Uploading BY <2>1 DEF Uploading
  <2>. QED BY <1>5, <2>5, <2>6, RequestGives
<1>6. ASSUME NEW r \in Rows, UploadInsert(c, r) PROVE FilesGoOn
  <2>1. Idle.f = None /\ Idle.pc = "idle" BY DEF Idle
  <2>. QED BY <1>5, <1>6, <2>1, IdleRequest DEF UploadInsert
<1>7. ASSUME NEW r \in Rows, NEW key \in Moments \cup {None}, UploadInsertRead(c, r, key)
      PROVE  FilesGoOn
  <2> DEFINE x == [req[c] EXCEPT !.pc = "mark"]
  <2>1. x \in Request /\ x.pc = "mark" /\ x.f = req[c].f BY <1>0 DEF Request, PCs
  <2>2. Goto(c, x) BY <1>7 DEF UploadInsertRead
  <2> HIDE DEF x
  <2>. QED BY <1>5, <1>7, <2>1, <2>2 DEF UploadInsertRead
<1>8. CASE UploadMark(c) BY <1>u, <1>8, RequestEnds DEF UploadMark
<1>9. CASE UploadFails(c)
  <2>1. UNCHANGED <<row, sweep>> /\ UploadDiscards(c) BY <1>9 DEF UploadFails
  <2>2. CASE req[c].pc \in Uploading
    BY <1>u, <2>1, <2>2, RequestRemoves DEF UploadDiscards
  <2>3. CASE req[c].pc = "mark"
    <3>1. LateLoss(c) BY <1>9, <1>u, <2>1, <2>3 DEF LateLoss, UploadFails
    <3>. QED BY <1>u, <2>1, <3>1, LateFailure
  <2>. QED BY <1>9, <2>2, <2>3 DEF UploadFails, Uploading
<1>10. CASE UploadRepointUnread(c)
  <2> DEFINE r == req[c].r
             f == req[c].f
  <2>1. /\ "fault" \in Mishaps /\ req[c].pc = "repoint" /\ UNCHANGED sweep
        /\ row' = Repointed(r, f) /\ UploadDiscards(c)
    BY <1>10 DEF UploadRepointUnread, Holds
  <2>2. r \in Rows /\ f \in Files BY <1>0, <2>1 DEF Armed
  <2>3. Shot' = Shot \/ Shot' = [Shot EXCEPT ![r] = f]
    BY <1>0, <1>u, <2>1, <2>2, ShotRepointed DEF Repointed
  <2>4. LateLoss(c) BY <2>1, <2>3 DEF LateLoss
  <2>. QED BY <2>1, <2>4, LateFailure
<1>. QED
  BY <1>1, <1>2, <1>3, <1>4, <1>6, <1>7, <1>8, <1>9, <1>10 DEF Upload

\* The steps of a confirmation.
LEMMA ConfirmFiles ==
    ASSUME Assumptions, FileInv, NEW c \in Clients, Confirm(c)
    PROVE  FilesGoOn
<1>0. /\ Typed /\ TypeOK /\ req[c] \in Request /\ Armed(req[c])
  BY DEF FileInv, Typed, TypeOK, HandsFull
<1>u. ASSUME UNCHANGED row PROVE Shot' = Shot BY <1>u DEF Shot, Live
<1>1. ASSUME NEW r \in Rows, NEW edits \in BOOLEAN, NEW force \in BOOLEAN,
             NEW key \in Moments, ConfirmRead(c, r, edits, key, force)
      PROVE  FilesGoOn
  <2> DEFINE x == [Idle EXCEPT !.pc = "hash", !.r = r, !.h = row[r].sha,
                               !.key = IF edits THEN key ELSE row[r].key,
                               !.edits = edits, !.force = force]
  <2>1. row[r] \in PaymentRow BY <1>0, <1>1, LiveRows DEF ConfirmRead
  <2>2. /\ row[r].sha \in Hashes \cup {None}
        /\ (IF edits THEN key ELSE row[r].key) \in Moments \cup {None}
    BY <2>1 DEF PaymentRow
  <2>3. x \in Request /\ x.f = None /\ x.pc = "hash" BY <2>2 DEF Idle, Request, PCs
  <2>4. Goto(c, x) /\ UNCHANGED <<row, disk, sweep>> BY <1>1 DEF ConfirmRead
  <2> HIDE DEF x
  <2>5. x.pc \notin Uploading BY <2>3 DEF Uploading
  <2>. QED BY <1>u, <2>3, <2>4, <2>5, RequestGoesOn
<1>2. ASSUME NEW to \in {"cands", "confirm"}, Goto(c, [req[c] EXCEPT !.pc = to]),
             UNCHANGED <<row, disk, sweep>>
      PROVE  FilesGoOn
  <2> DEFINE x == [req[c] EXCEPT !.pc = to]
  <2>1. x \in Request /\ x.pc = to /\ x.f = req[c].f BY <1>0 DEF Request, PCs
  <2>2. Goto(c, x) BY <1>2
  <2> HIDE DEF x
  <2>3. x.pc \notin Uploading \cup {"delete", "unlink"} BY <2>1 DEF Uploading
  <2>. QED BY <1>2, <1>u, <2>1, <2>2, <2>3, RequestGoesOn
<1>3. CASE ConfirmHash(c) \/ ConfirmCandidates(c)
  BY <1>2, <1>3, <1>u, RequestEnds DEF ConfirmHash, ConfirmCandidates
<1>4. CASE ConfirmWrite(c)
  <2> DEFINE r == req[c].r
             x == [row[r] EXCEPT !.draft = FALSE,
                      !.key = IF req[c].edits THEN req[c].key ELSE @]
  <2>1. req[c].pc = "confirm" BY <1>4 DEF ConfirmWrite, Holds
  <2>2. r \in Rows /\ req[c].key \in Moments \cup {None}
    BY <1>0, <2>1 DEF Armed, Request
  <2>3. Shot' = Shot
    <3>1. CASE r \notin Live BY <1>4, <1>u, <3>1 DEF ConfirmWrite
    <3>2. CASE r \in Live
      <4>1. row[r] \in PaymentRow BY <1>0, <3>2, LiveRows
      <4>2. x \in PaymentRow /\ x.file = row[r].file /\ x.sha = row[r].sha
        BY <2>2, <4>1 DEF PaymentRow
      <4>3. row' = [row EXCEPT ![r] = x]
        BY <1>0, <1>4, <2>2, <3>2 DEF ConfirmWrite, TypeOK
      <4> HIDE DEF x
      <4>. QED BY <1>0, <3>2, <4>2, <4>3, ShotUpdated
    <3>. QED BY <3>1, <3>2
  <2>. QED BY <1>4, <2>3, RequestEnds DEF ConfirmWrite
<1>. QED BY <1>1, <1>3, <1>4 DEF Confirm


\* The steps of a cancellation and of a deletion.
LEMMA DiscardFiles ==
    ASSUME Assumptions, FileInv, NEW c \in Clients, Discard(c)
    PROVE  FilesGoOn
<1>0. /\ Shaped(Shot, disk, req, sweep) /\ Typed /\ TypeOK
      /\ req[c] \in Request /\ Armed(req[c])
  BY StateShaped DEF FileInv, Typed, TypeOK, HandsFull
<1>u. ASSUME UNCHANGED row PROVE Shot' = Shot BY <1>u DEF Shot, Live
<1>i. Idle.f = None /\ Idle.pc = "idle" BY DEF Idle
<1>1. ASSUME NEW f \in Files, CancelRemove(c, f) PROVE FilesGoOn
  <2> DEFINE x   == [Idle EXCEPT !.pc = "cancel", !.f = f]
             rq2 == [req EXCEPT ![c] = x]
  <2>1. PICK r \in Live : row[r].file = f BY <1>1 DEF CancelRemove
  <2>2. HasBeenShown(f) BY <1>0, <2>1, RowsAreShown
  <2>3. x \in Request /\ x.f = f /\ x.pc = "cancel" BY DEF Idle, Request, PCs
  <2>4. req' = rq2 /\ UNCHANGED <<row, sweep>> /\ disk' = Without({f}, disk)
    BY <1>1 DEF CancelRemove, Goto, Remove, Without
  <2> HIDE DEF x
  <2>5. x.pc \notin Uploading \cup {"delete", "unlink"} BY <2>3 DEF Uploading
  <2>6. Sound(Shot, disk, rq2, sweep)
    BY <1>0, <2>2, <2>3, <2>5, TakesNamed DEF FileInv, HasBeenShown
  <2>7. /\ rq2 \in [Clients -> Request] /\ rq2[c] = x
        /\ \A b \in Clients : b # c => rq2[b] = req[b]
    BY <1>0, <2>3 DEF Shaped
  <2> HIDE DEF rq2
  <2>8. \A b \in Clients : rq2[b].pc \in Uploading => rq2[b].f \notin {f}
    BY <2>2, <2>5, <2>7 DEF HasBeenShown
  <2>9. Shaped(Shot, disk, rq2, sweep) BY <1>0, <2>5, <2>7 DEF Shaped
  <2>10. Sound(Shot, Without({f}, disk), rq2, sweep) BY <2>6, <2>8, <2>9, RemovesFiles
  <2>. QED BY <1>1, <1>u, <2>4, <2>10 DEF FilesGoOn
<1>2. ASSUME NEW dead \in SUBSET Rows, UNCHANGED <<disk, sweep>>, NEW x \in Request,
             row' = [q \in Rows |-> IF q \in dead THEN Gone ELSE row[q]], Goto(c, x),
             \/ x.f = None /\ x.pc \in {"idle", "files"}
             \/ /\ req[c].pc = "delete" /\ req[c].r \in dead
                /\ x.f = req[c].f /\ x.h = req[c].h /\ x.f # None /\ x.pc = "unlink"
      PROVE  FilesGoOn
  <2> DEFINE own2 == [q \in Rows |-> IF q \in dead THEN None ELSE Shot[q]]
  <2>1. Shot' = own2 BY <1>0, <1>2, ShotDeleted
  <2>2. Sound(own2, disk, req, sweep) /\ Kept(Shot, disk, own2, disk)
    BY <1>0, LosesRows DEF FileInv
  <2>3. own2 \in [Rows -> Files \cup {None}] BY <1>0 DEF Shaped
  <2>4. req[c].r \in dead => own2[req[c].r] = None BY <1>2
  <2> HIDE DEF own2
  <2>5. Shaped(own2, disk, req, sweep) BY <1>0, <2>3 DEF Shaped
  <2>6. CASE x.f = None /\ x.pc \in {"idle", "files"}
    <3>1. x.pc \notin Uploading \cup {"delete", "unlink"} BY <2>6 DEF Uploading
    <3>2. Sound(own2, disk, [req EXCEPT ![c] = x], sweep)
      BY <2>2, <2>5, <2>6, <3>1, MovesOn
    <3>. QED BY <1>2, <2>1, <2>2, <3>2 DEF FilesGoOn, Goto
  <2>7. CASE ~(x.f = None /\ x.pc \in {"idle", "files"})
    <3>1. Sound(own2, disk, [req EXCEPT ![c] = x], sweep)
      BY <1>2, <2>2, <2>4, <2>5, <2>7, DeletesRow
    <3>. QED BY <1>2, <2>1, <2>2, <3>1 DEF FilesGoOn, Goto
  <2>. QED BY <2>6, <2>7
<1>3. CASE CancelDelete(c)
  <2> DEFINE dead == {r \in Drafts : row[r].file = req[c].f}
  <2>1. dead \in SUBSET Rows BY DEF Drafts, Live
  <2>2. row' = [q \in Rows |-> IF q \in dead THEN Gone ELSE row[q]]
    BY <1>3 DEF CancelDelete
  <2> HIDE DEF dead
  <2>. QED BY <1>2, <1>3, <1>i, <2>1, <2>2, IdleRequest DEF CancelDelete
<1>4. ASSUME NEW r \in Rows, DeleteRead(c, r) PROVE FilesGoOn
  <2> DEFINE x == [Idle EXCEPT !.pc = "delete", !.r = r, !.f = row[r].file, !.h = row[r].sha]
  <2>1. /\ row[r].file \in Files \cup {None} /\ row[r].sha \in Hashes \cup {None}
        /\ r \in Live
    BY <1>0, <1>4, LiveRows DEF DeleteRead, PaymentRow
  <2>2. /\ x \in Request /\ x.f = row[r].file /\ x.h = row[r].sha
        /\ x.pc = "delete" /\ x.r = r
    BY <2>1 DEF Idle, Request, PCs
  <2>3. Goto(c, x) /\ UNCHANGED <<row, disk, sweep>> BY <1>4 DEF DeleteRead
  <2> HIDE DEF x
  <2>4. x.pc \notin Uploading \cup {"unlink"} BY <2>2 DEF Uploading
  <2>5. Sound(Shot, disk, [req EXCEPT ![c] = x], sweep)
    <3>1. CASE row[r].sha # None
      <4>1. x.f = Shot[r] BY <2>1, <2>2, <3>1 DEF Shot
      <4>. QED BY <1>0, <1>4, <2>2, <2>4, <4>1, TakesOwned DEF FileInv
    <3>2. CASE row[r].sha = None /\ row[r].file \in Files
      <4>1. HasBeenShown(row[r].file) BY <1>0, <2>1, <3>2, RowsAreShown
      <4>. QED BY <1>0, <2>2, <2>4, <3>2, <4>1, TakesNamed DEF FileInv, HasBeenShown
    <3>3. CASE row[r].sha = None /\ row[r].file = None
      BY <1>0, <2>2, <2>4, <3>3, HoldsNothing DEF FileInv
    <3>. QED BY <2>1, <3>1, <3>2, <3>3
  <2>. QED BY <1>u, <2>3, <2>5, KeptAlone DEF FilesGoOn, Goto
<1>5. CASE DeleteCommit(c)
  <2> DEFINE x == [req[c] EXCEPT !.pc = "unlink"]
  <2>1. req[c].pc = "delete" /\ UNCHANGED <<disk, sweep>>
    BY <1>5 DEF DeleteCommit, Holds
  <2>2. req[c].r \in Rows BY <1>0, <2>1 DEF Armed
  <2>3. x \in Request /\ x.f = req[c].f /\ x.h = req[c].h /\ x.pc = "unlink"
    BY <1>0 DEF Request, PCs
  <2>4. CASE req[c].r \in Live
    <3>1. row' = [q \in Rows |-> IF q \in {req[c].r} THEN Gone ELSE row[q]]
      BY <1>0, <1>5, <2>4 DEF DeleteCommit, TypeOK
    <3>2. Goto(c, Idle) \/ (req[c].f # None /\ Goto(c, x))
      BY <1>5, <2>4 DEF DeleteCommit
    <3> HIDE DEF x
    <3>. QED BY <1>2, <1>i, <2>1, <2>2, <2>3, <3>1, <3>2, IdleRequest
  <2>5. CASE req[c].r \notin Live
    BY <1>5, <1>u, <2>1, <2>5, RequestEnds DEF DeleteCommit
  <2>. QED BY <2>4, <2>5
<1>6. CASE DeleteFile(c)
  BY <1>6, <1>u, RequestRemoves DEF DeleteFile, Holds
<1>. QED BY <1>1, <1>3, <1>4, <1>5, <1>6 DEF Discard

\* The steps of the deletion of a trip.
LEMMA TripFiles ==
    ASSUME Assumptions, FileInv, NEW c \in Clients, DeleteTrip(c)
    PROVE  FilesGoOn
<1>0. /\ Shaped(Shot, disk, req, sweep) /\ Typed /\ TypeOK /\ req[c] \in Request
  BY StateShaped DEF FileInv, Typed, TypeOK
<1>u. ASSUME UNCHANGED row PROVE Shot' = Shot BY <1>u DEF Shot, Live
<1>i. Idle.f = None /\ Idle.pc = "idle" BY DEF Idle
<1>1. ASSUME NEW inTrip \in SUBSET Confirmed, TripList(c, inTrip) PROVE FilesGoOn
  <2> DEFINE x == [Idle EXCEPT !.pc = "trip",
                               !.fs = {row[r].file : r \in inTrip} \ {None}]
  <2>1. \A r \in inTrip : row[r].file \in Files \cup {None}
    BY <1>0, LiveRows DEF Confirmed, PaymentRow
  <2>2. {row[r].file : r \in inTrip} \ {None} \in SUBSET Files BY <2>1
  <2>3. x \in Request /\ x.f = None /\ x.pc = "trip" BY <2>2 DEF Idle, Request, PCs
  <2>4. Goto(c, x) /\ UNCHANGED <<row, disk, sweep>> BY <1>1 DEF TripList
  <2> HIDE DEF x
  <2>5. x.pc \notin Uploading BY <2>3 DEF Uploading
  <2>. QED BY <1>u, <2>3, <2>4, <2>5, RequestGoesOn
<1>2. ASSUME NEW inTrip \in SUBSET Confirmed, TripCommit(c, inTrip) PROVE FilesGoOn
  <2> DEFINE own2 == [q \in Rows |-> IF q \in inTrip THEN None ELSE Shot[q]]
             y    == [req[c] EXCEPT !.pc = "files"]
  <2>1. inTrip \in SUBSET Rows /\ UNCHANGED <<disk, sweep>> BY <1>2 DEF TripCommit, Confirmed, Live
  <2>2. Shot' = own2 BY <1>0, <1>2, <2>1, ShotDeleted DEF TripCommit
  <2>3. Sound(own2, disk, req, sweep) /\ Kept(Shot, disk, own2, disk)
    BY <1>0, LosesRows DEF FileInv
  <2>4. own2 \in [Rows -> Files \cup {None}] BY <1>0 DEF Shaped
  <2>5. y \in Request /\ y.f = req[c].f /\ y.pc = "files" BY <1>0 DEF Request, PCs
  <2>6. Goto(c, Idle) \/ Goto(c, y) BY <1>2 DEF TripCommit
  <2> HIDE DEF own2, y
  <2>7. Shaped(own2, disk, req, sweep) BY <1>0, <2>4 DEF Shaped
  <2>8. y.pc \notin Uploading /\ Idle.pc \notin Uploading BY <1>i, <2>5 DEF Uploading
  <2>9. /\ Sound(own2, disk, [req EXCEPT ![c] = y], sweep)
        /\ Sound(own2, disk, [req EXCEPT ![c] = Idle], sweep)
    BY <1>i, <2>3, <2>5, <2>7, <2>8, IdleRequest, MovesOn
  <2>. QED BY <2>1, <2>2, <2>3, <2>6, <2>9 DEF FilesGoOn, Goto
<1>3. CASE TripRefused(c) BY <1>3, <1>u, RequestEnds DEF TripRefused
<1>4. ASSUME NEW f \in Files, TripFile(c, f) PROVE FilesGoOn
  <2> DEFINE y == [req[c] EXCEPT !.fs = req[c].fs \ {f}]
  <2>1. /\ f \in req[c].fs /\ req[c].pc = "files" /\ UNCHANGED <<row, sweep>>
        /\ disk' = Without({f}, disk)
    BY <1>4 DEF TripFile, Holds, Remove, Without
  <2>2. HasBeenShown(f) BY <2>1 DEF FileInv, AllShown, Shown
  <2>3. \A b \in Clients : req[b].pc \in Uploading => req[b].f \notin {f}
    BY <2>2 DEF HasBeenShown
  <2>4. Sound(Shot, Without({f}, disk), req, sweep) BY <1>0, <2>3, RemovesFiles DEF FileInv
  <2>5. Without({f}, disk) \in [Files -> {"free", "kept", "removed"}]
    BY <1>0 DEF Shaped, Without
  <2>6. Shaped(Shot, Without({f}, disk), req, sweep) BY <1>0, <2>5 DEF Shaped
  <2>7. y \in Request /\ y.f = req[c].f /\ y.pc = "files" BY <1>0, <2>1 DEF Request
  <2>8. Goto(c, Idle) \/ Goto(c, y) BY <1>4 DEF TripFile
  <2> HIDE DEF y
  <2>9. y.pc \notin Uploading /\ Idle.pc \notin Uploading BY <1>i, <2>7 DEF Uploading
  <2>10. /\ Sound(Shot, Without({f}, disk), [req EXCEPT ![c] = y], sweep)
         /\ Sound(Shot, Without({f}, disk), [req EXCEPT ![c] = Idle], sweep)
    BY <1>i, <2>4, <2>6, <2>7, <2>9, IdleRequest, MovesOn
  <2>. QED BY <1>4, <1>u, <2>1, <2>8, <2>10 DEF FilesGoOn, Goto
<1>. QED BY <1>1, <1>2, <1>3, <1>4 DEF DeleteTrip

\* Recognition, the sweeper and a restart.
LEMMA BackgroundFiles ==
    ASSUME Assumptions, FileInv, Background
    PROVE  FilesGoOn
<1>0. Shaped(Shot, disk, req, sweep) /\ Typed /\ TypeOK
  BY StateShaped DEF FileInv, Typed
<1>u. ASSUME UNCHANGED row PROVE Shot' = Shot BY <1>u DEF Shot, Live
<1>1. ASSUME NEW r \in Rows, OCRRead(r) PROVE FilesGoOn
  BY <1>1, <1>u, FilesUntouched DEF OCRRead
<1>2. ASSUME NEW r \in Rows, Expire(r) PROVE FilesGoOn
  <2> DEFINE x == [row[r] EXCEPT !.old = TRUE]
  <2>1. r \in Live /\ row[r] \in PaymentRow /\ row[r].draft
    BY <1>0, <1>2, LiveRows DEF Expire, Drafts
  <2>2. x \in PaymentRow /\ x.file = row[r].file /\ x.sha = row[r].sha
    BY <2>1 DEF PaymentRow
  <2>3. row' = [row EXCEPT ![r] = x] BY <1>0, <1>2 DEF Expire, TypeOK
  <2> HIDE DEF x
  <2>4. Shot' = Shot BY <1>0, <2>1, <2>2, <2>3, ShotUpdated
  <2>. QED BY <1>2, <2>4, FilesUntouched DEF Expire
<1>3. ASSUME NEW key \in Moments \cup {None}, OCRWrite(key) PROVE FilesGoOn
  <2>1. CASE ocr \in Live /\ key # None
    <3> DEFINE x == [row[ocr] EXCEPT !.key = key]
    <3>1. row[ocr] \in PaymentRow /\ ocr \in Rows BY <1>0, <2>1, LiveRows DEF Live
    <3>2. x \in PaymentRow /\ x.file = row[ocr].file /\ x.sha = row[ocr].sha
      BY <3>1 DEF PaymentRow
    <3>3. row' = [row EXCEPT ![ocr] = x] BY <1>0, <1>3, <2>1, <3>1
                                            DEF OCRWrite, TypeOK
    <3> HIDE DEF x
    <3>4. Shot' = Shot BY <1>0, <2>1, <3>2, <3>3, ShotUpdated
    <3>. QED BY <1>3, <3>4, FilesUntouched DEF OCRWrite
  <2>2. CASE ~(ocr \in Live /\ key # None)
    BY <1>3, <1>u, <2>2, FilesUntouched DEF OCRWrite
  <2>. QED BY <2>1, <2>2
<1>4. CASE SweepRows
  <2>1. Expired \in SUBSET Rows /\ \A r \in Expired : Shot[r] = row[r].file /\ Shot[r] \in Files
    <3>1. \A r \in Expired : r \in Live /\ row[r].file \in Files /\ row[r].sha \in Hashes
      BY <1>0, LiveRows DEF Expired, Drafts
    <3>. QED BY <3>1 DEF Shot, Live, Assumptions, NullsAssumption
  <2>2. \A r \in Expired : Shot[r] # None BY <1>0, <2>1 DEF Shaped
  <2>3. /\ row' = [q \in Rows |-> IF q \in Expired THEN Gone ELSE row[q]]
        /\ sweep' = {Shot[r] : r \in Expired} /\ UNCHANGED <<disk, req>>
    BY <1>4, <2>1 DEF SweepRows
  <2>4. Shot' = [q \in Rows |-> IF q \in Expired THEN None ELSE Shot[q]]
    BY <1>0, <2>1, <2>3, ShotDeleted
  <2>5. Sound(Shot', disk, req, sweep') BY <1>0, <2>1, <2>2, <2>3, <2>4, SweepsRows
                                          DEF FileInv
  <2>6. Kept(Shot, disk, Shot', disk) BY <1>0, <2>4, LosesRows DEF FileInv
  <2>. QED BY <2>3, <2>5, <2>6 DEF FilesGoOn
<1>5. ASSUME NEW f \in Files, SweepFile(f) PROVE FilesGoOn
  <2>1. /\ f \in sweep /\ sweep' = sweep \ {f} /\ UNCHANGED <<row, req>>
        /\ disk' = Without({f}, disk)
    BY <1>5 DEF SweepFile, Remove, Without
  <2>2. /\ \A b \in Clients : req[b].pc \in Uploading => req[b].f \notin {f}
        /\ \A r \in Rows : Shot[r] \notin {f}
    BY <2>1 DEF FileInv, Sound, ClaimsApart
  <2>3. Sound(Shot, Without({f}, disk), req, sweep) BY <1>0, <2>2, RemovesFiles
                                                      DEF FileInv
  <2>4. Kept(Shot, disk, Shot, Without({f}, disk)) BY <1>0, <2>2, RemovedKeeps
  <2>5. Sound(Shot, Without({f}, disk), req, sweep \ {f})
    BY <2>3, SweepShrinks
  <2>. QED BY <1>u, <2>1, <2>4, <2>5 DEF FilesGoOn
<1>6. CASE Crash
  <2>1. /\ req' = [c \in Clients |-> Idle] /\ sweep' = {} /\ UNCHANGED <<row, disk>>
    BY <1>6 DEF Crash
  <2>2. Idle.f = None /\ Idle.pc = "idle" BY DEF Idle
  <2>3. \A c \in Clients : req'[c].f = None /\ req'[c].pc = "idle" BY <2>1, <2>2
  <2>4. \A c \in Clients : req'[c].pc \notin Uploading \cup {"delete", "unlink"}
    BY <2>3 DEF Uploading
  <2>5. Sound(Shot, disk, req', sweep')
    BY <2>1, <2>3, <2>4 DEF FileInv, Sound, NamesTaken, ClaimsApart
  <2>. QED BY <1>u, <2>1, <2>5, KeptAlone DEF FilesGoOn
<1>. QED BY <1>1, <1>2, <1>3, <1>4, <1>5, <1>6 DEF Background

\* Every step.
LEMMA FilesNext ==
    ASSUME Assumptions, FileInv, [Next]_vars
    PROVE  FilesGoOn
<1>0. Typed /\ TypeOK BY DEF FileInv, Typed
<1>u. ASSUME UNCHANGED row PROVE Shot' = Shot BY <1>u DEF Shot, Live
<1>1. ASSUME NEW r \in Rows, NEW key \in Moments, EditPayment(r, key) PROVE FilesGoOn
  <2> DEFINE x == [row[r] EXCEPT !.key = key]
  <2>1. r \in Live /\ row[r] \in PaymentRow BY <1>0, <1>1, LiveRows DEF EditPayment
  <2>2. x \in PaymentRow /\ x.file = row[r].file /\ x.sha = row[r].sha
    BY <2>1 DEF PaymentRow
  <2>3. row' = [row EXCEPT ![r] = x] BY <1>0, <1>1 DEF EditPayment, TypeOK
  <2> HIDE DEF x
  <2>4. Shot' = Shot BY <1>0, <2>1, <2>2, <2>3, ShotUpdated
  <2>. QED BY <1>1, <2>4, FilesUntouched DEF EditPayment
<1>2. ASSUME NEW r \in Rows, NEW f \in Files \cup {None}, NEW key \in Moments,
             CreatePayment(r, f, key)
      PROVE  FilesGoOn
  <2> DEFINE x == [file |-> f, sha |-> None, draft |-> FALSE, old |-> FALSE, key |-> key]
  <2>1. x \in PaymentRow /\ x.sha = None BY <1>2 DEF PaymentRow
  <2>2. row[r] = Unborn /\ row' = [row EXCEPT ![r] = x] BY <1>2
                                                           DEF CreatePayment, IsNext
  <2> HIDE DEF x
  <2>3. Shot' = [Shot EXCEPT ![r] = IF x.sha # None THEN x.file ELSE None]
    BY <1>0, <1>2, <2>1, <2>2, ShotWritten
  <2>4. Shot[r] = None BY <1>2, <2>2 DEF Shot, Live
  <2>5. Shot' = Shot BY <2>1, <2>3, <2>4 DEF Shot
  <2>. QED BY <1>2, <2>5, FilesUntouched DEF CreatePayment
<1>3. CASE UNCHANGED vars BY <1>3, <1>u, FilesUntouched DEF vars
<1>. QED
  BY <1>1, <1>2, <1>3, UploadFiles, ConfirmFiles, DiscardFiles, TripFiles, BackgroundFiles
     DEF Next

\* Nothing is there at the start.
LEMMA FilesInit ==
    ASSUME Assumptions, Init
    PROVE  FileInv
<1>1. Typed BY HashInit DEF HashInv
<1>2. Idle.f = None /\ Idle.pc = "idle" BY DEF Idle
<1>3. \A c \in Clients : req[c].f = None /\ req[c].pc = "idle" BY <1>2 DEF Init
<1>4. \A c \in Clients : req[c].pc \notin Uploading \cup {"delete", "unlink"}
  BY <1>3 DEF Uploading
<1>5. \A r \in Rows : Shot[r] = None BY DEF Init, Shot, Live
<1>6. sweep = {} BY DEF Init
<1>7. Sound(Shot, disk, req, sweep)
  BY <1>3, <1>4, <1>5, <1>6 DEF Sound, NamesTaken, ClaimsApart
<1>8. Shown = {} BY DEF Init, Shown, Live, Idle
<1>. QED BY <1>1, <1>7, <1>8 DEF FileInv, AllShown

\* An upload under way is the one of before, or has a new name; and what trips
\* have listed they have listed before, or row by row just now.
RequestStep(b) ==
    /\ req'[b].pc \in Uploading =>
         \/ req[b].pc \in Uploading /\ req'[b].f = req[b].f
         \/ disk[req'[b].f] = "free"
    /\ \A f \in req'[b].fs :
         \/ f \in req[b].fs
         \/ f \in Files /\ \E r \in Live : row[r].file = f

\* A step of one request.
LEMMA RequestStepped ==
    ASSUME Typed, NEW c \in Clients, NEW x \in Request, Goto(c, x),
           x.pc \in Uploading =>
              \/ req[c].pc \in Uploading /\ x.f = req[c].f
              \/ disk[x.f] = "free",
           \A f \in x.fs : \/ f \in req[c].fs
                           \/ f \in Files /\ \E r \in Live : row[r].file = f
    PROVE  \A b \in Clients : RequestStep(b)
<1>1. req'[c] = x /\ \A b \in Clients \ {c} : req'[b] = req[b]
  BY DEF Goto, Typed, TypeOK
<1>. QED BY <1>1 DEF RequestStep

\* What every step does to the requests.
LEMMA RequestsStep ==
    ASSUME Assumptions, Typed, [Next]_vars
    PROVE  \A b \in Clients : RequestStep(b)
<1>0. TypeOK BY DEF Typed
<1>i. Idle.f = None /\ Idle.pc = "idle" /\ Idle.fs = {} BY DEF Idle
<1>j. Idle.pc \notin Uploading BY <1>i DEF Uploading
<1>u. ASSUME UNCHANGED req PROVE \A b \in Clients : RequestStep(b) BY <1>u DEF RequestStep
<1>e. ASSUME NEW c \in Clients, Goto(c, Idle) PROVE \A b \in Clients : RequestStep(b)
  BY <1>e, <1>i, <1>j, IdleRequest, RequestStepped
<1>p. ASSUME NEW c \in Clients, NEW pc \in PCs, Goto(c, [req[c] EXCEPT !.pc = pc]),
             pc \in Uploading => req[c].pc \in Uploading
      PROVE  \A b \in Clients : RequestStep(b)
  <2> DEFINE x == [req[c] EXCEPT !.pc = pc]
  <2>1. x \in Request /\ x.f = req[c].f /\ x.fs = req[c].fs /\ x.pc = pc
    BY <1>0 DEF TypeOK, Request
  <2> HIDE DEF x
  <2>2. Goto(c, x) BY <1>p DEF x
  <2>. QED BY <1>p, <2>1, <2>2, RequestStepped
<1>1. ASSUME NEW c \in Clients, Upload(c) PROVE \A b \in Clients : RequestStep(b)
  <2>0. req[c] \in Request BY <1>0 DEF TypeOK
  <2>1. ASSUME NEW f \in Files, NEW h \in Hashes, UploadSave(c, f, h)
        PROVE  \A b \in Clients : RequestStep(b)
    <3> DEFINE x == [Idle EXCEPT !.pc = "find", !.f = f, !.h = h]
    <3>1. x \in Request /\ x.f = f /\ x.fs = {} BY DEF Idle, Request, PCs
    <3>2. Goto(c, x) /\ disk[f] = "free" BY <2>1 DEF UploadSave, IsFresh
    <3> HIDE DEF x
    <3>. QED BY <3>1, <3>2, RequestStepped
  <2>2. CASE UploadFind(c)
    <3>1. ASSUME NEW r \in SameHash(req[c].h), row[r].draft,
                 Goto(c, [req[c] EXCEPT !.pc = "stat", !.r = r, !.old = row[r].file])
          PROVE  \A b \in Clients : RequestStep(b)
      <4> DEFINE x == [req[c] EXCEPT !.pc = "stat", !.r = r, !.old = row[r].file]
      <4>1. r \in Rows /\ row[r].file \in Files
        BY <1>0, <3>1, LiveRows DEF SameHash, Drafts, Live
      <4>2. x \in Request /\ x.f = req[c].f /\ x.fs = req[c].fs
        BY <2>0, <4>1 DEF Request, PCs
      <4>3. Goto(c, x) BY <3>1
      <4> HIDE DEF x
      <4>4. req[c].pc \in Uploading BY <2>2 DEF UploadFind, Holds, Uploading
      <4>. QED BY <4>2, <4>3, <4>4, RequestStepped
    <3>2. req[c].pc \in Uploading /\ "insert" \in PCs
      BY <2>2 DEF UploadFind, Holds, Uploading, PCs
    <3>. QED BY <1>e, <1>p, <2>2, <3>1, <3>2 DEF UploadFind, UploadDiscards
  <2>3. CASE UploadStat(c)
    <3>1. req[c].pc \in Uploading /\ "repoint" \in PCs
      BY <2>3 DEF UploadStat, Holds, Uploading, PCs
    <3>. QED BY <1>e, <1>p, <2>3, <3>1 DEF UploadStat, UploadDiscards
  <2>4. ASSUME NEW r \in Rows, NEW key \in Moments \cup {None}, UploadInsertRead(c, r, key)
        PROVE  \A b \in Clients : RequestStep(b)
    <3>1. "mark" \in PCs /\ "mark" \notin Uploading BY DEF PCs, Uploading
    <3>. QED BY <1>p, <2>4, <3>1 DEF UploadInsertRead
  <2>. QED
    BY <1>1, <1>e, <2>1, <2>2, <2>3, <2>4
       DEF Upload, UploadRepoint, UploadInsert, UploadMark, UploadFails,
           UploadRepointUnread, UploadDiscards
<1>2. ASSUME NEW c \in Clients, Confirm(c) PROVE \A b \in Clients : RequestStep(b)
  <2>1. ASSUME NEW r \in Rows, NEW edits \in BOOLEAN, NEW force \in BOOLEAN,
               NEW key \in Moments, ConfirmRead(c, r, edits, key, force)
        PROVE  \A b \in Clients : RequestStep(b)
    <3> DEFINE x == [Idle EXCEPT !.pc = "hash", !.r = r, !.h = row[r].sha,
                               !.key = IF edits THEN key ELSE row[r].key,
                               !.edits = edits, !.force = force]
    <3>1. row[r] \in PaymentRow BY <1>0, <2>1, LiveRows DEF ConfirmRead
    <3>2. /\ row[r].sha \in Hashes \cup {None}
          /\ (IF edits THEN key ELSE row[r].key) \in Moments \cup {None}
      BY <3>1 DEF PaymentRow
    <3>3. x \in Request /\ x.pc = "hash" /\ x.fs = {} BY <3>2 DEF Idle, Request, PCs
    <3>4. Goto(c, x) BY <2>1 DEF ConfirmRead
    <3> HIDE DEF x
    <3>5. x.pc \notin Uploading BY <3>3 DEF Uploading
    <3>. QED BY <3>3, <3>4, <3>5, RequestStepped
  <2>2. /\ "cands" \in PCs /\ "cands" \notin Uploading
        /\ "confirm" \in PCs /\ "confirm" \notin Uploading
    BY DEF PCs, Uploading
  <2>. QED BY <1>2, <1>e, <1>p, <2>1, <2>2
           DEF Confirm, ConfirmHash, ConfirmCandidates, ConfirmWrite
<1>3. ASSUME NEW c \in Clients, Discard(c) PROVE \A b \in Clients : RequestStep(b)
  <2>1. ASSUME NEW f \in Files, CancelRemove(c, f) PROVE \A b \in Clients : RequestStep(b)
    <3> DEFINE x == [Idle EXCEPT !.pc = "cancel", !.f = f]
    <3>1. x \in Request /\ x.pc = "cancel" /\ x.fs = {} BY DEF Idle, Request, PCs
    <3>2. Goto(c, x) BY <2>1 DEF CancelRemove
    <3> HIDE DEF x
    <3>3. x.pc \notin Uploading BY <3>1 DEF Uploading
    <3>. QED BY <3>1, <3>2, <3>3, RequestStepped
  <2>2. ASSUME NEW r \in Rows, DeleteRead(c, r) PROVE \A b \in Clients : RequestStep(b)
    <3> DEFINE x == [Idle EXCEPT !.pc = "delete", !.r = r, !.f = row[r].file, !.h = row[r].sha]
    <3>1. row[r].file \in Files \cup {None} /\ row[r].sha \in Hashes \cup {None}
      BY <1>0, <2>2, LiveRows DEF DeleteRead, PaymentRow
    <3>2. x \in Request /\ x.pc = "delete" /\ x.fs = {} BY <3>1 DEF Idle, Request, PCs
    <3>3. Goto(c, x) BY <2>2 DEF DeleteRead
    <3> HIDE DEF x
    <3>4. x.pc \notin Uploading BY <3>2 DEF Uploading
    <3>. QED BY <3>2, <3>3, <3>4, RequestStepped
  <2>3. "unlink" \in PCs /\ "unlink" \notin Uploading BY DEF PCs, Uploading
  <2>. QED BY <1>3, <1>e, <1>p, <2>1, <2>2, <2>3
           DEF Discard, CancelDelete, DeleteCommit, DeleteFile
<1>4. ASSUME NEW c \in Clients, DeleteTrip(c) PROVE \A b \in Clients : RequestStep(b)
  <2>1. ASSUME NEW inTrip \in SUBSET Confirmed, TripList(c, inTrip)
        PROVE  \A b \in Clients : RequestStep(b)
    <3> DEFINE x == [Idle EXCEPT !.pc = "trip",
                                 !.fs = {row[r].file : r \in inTrip} \ {None}]
    <3>1. \A r \in inTrip : r \in Live /\ row[r].file \in Files \cup {None}
      BY <1>0, LiveRows DEF Confirmed, PaymentRow
    <3>2. {row[r].file : r \in inTrip} \ {None} \in SUBSET Files BY <3>1
    <3>3. /\ x \in Request /\ x.pc = "trip"
          /\ x.fs = {row[r].file : r \in inTrip} \ {None}
      BY <3>2 DEF Idle, Request, PCs
    <3>4. Goto(c, x) BY <2>1 DEF TripList
    <3> HIDE DEF x
    <3>5. x.pc \notin Uploading BY <3>3 DEF Uploading
    <3>6. \A f \in x.fs : f \in Files /\ \E r \in Live : row[r].file = f BY <3>1, <3>3
    <3>. QED BY <3>3, <3>4, <3>5, <3>6, RequestStepped
  <2>2. ASSUME NEW f \in Files, TripFile(c, f) PROVE \A b \in Clients : RequestStep(b)
    <3> DEFINE x == [req[c] EXCEPT !.fs = req[c].fs \ {f}]
    <3>1. req[c] \in Request /\ req[c].pc = "files" BY <1>0, <2>2 DEF TripFile, Holds, TypeOK
    <3>2. x \in Request /\ x.pc = "files" /\ x.fs = req[c].fs \ {f} BY <3>1 DEF Request
    <3>3. Goto(c, Idle) \/ Goto(c, x) BY <2>2 DEF TripFile
    <3> HIDE DEF x
    <3>4. x.pc \notin Uploading BY <3>2 DEF Uploading
    <3>. QED BY <1>e, <3>2, <3>3, <3>4, RequestStepped
  <2>3. "files" \in PCs /\ "files" \notin Uploading BY DEF PCs, Uploading
  <2>. QED BY <1>4, <1>e, <1>p, <2>1, <2>2, <2>3 DEF DeleteTrip, TripCommit, TripRefused
<1>5. CASE Background
  <2>1. CASE Crash
    <3>1. \A b \in Clients : req'[b] = Idle BY <2>1 DEF Crash
    <3>. QED BY <1>i, <1>j, <3>1 DEF RequestStep
  <2>. QED BY <1>5, <1>u, <2>1
           DEF Background, OCRRead, Expire, OCRWrite, SweepRows, SweepFile
<1>. QED
  BY <1>u, <1>1, <1>2, <1>3, <1>4, <1>5 DEF Next, vars, EditPayment, CreatePayment

\* A row typed in by hand names what it named, or a file that has been shown.
LEMMA NamesStep ==
    ASSUME Assumptions, TypeOK, Statement, NEW q \in Rows,
           row'[q] \notin {Unborn, Gone}, row'[q].sha = None, row'[q].file \in Files
    PROVE  \/ q \in Live /\ row[q].sha = None /\ row[q].file = row'[q].file
           \/ HasBeenShown(row'[q].file)
<1>0. /\ Unborn # Gone /\ {Unborn, Gone} \cap PaymentRow = {}
      /\ None \notin Files /\ None \notin Hashes
  BY DEF Assumptions, NullsAssumption
<1>1. CASE UNCHANGED row BY <1>1 DEF Live
<1>2. ASSUME NEW r \in Live, NEW x \in PaymentRow, Updates(r, x), row'[q].sha = None
      PROVE  q \in Live /\ row[q].sha = None /\ row[q].file = row'[q].file
  <2>1. r \in Rows /\ row[r] \in PaymentRow BY LiveRows DEF Live
  <2>2. row'[q] = IF q = r THEN x ELSE row[q] BY <1>2, <2>1 DEF Updates, TypeOK
  <2>3. r \in Drafts => row[r].sha # None BY <1>0, LiveRows
  <2>4. row[r].draft => r \in Drafts BY DEF Drafts
  <2>. QED BY <1>2, <2>1, <2>2, <2>3, <2>4 DEF Updates, Live
<1>3. ASSUME NEW r \in Rows, NEW x \in PaymentRow, Inserts(r, x)
      PROVE  \/ q \in Live /\ row[q].sha = None /\ row[q].file = row'[q].file
             \/ HasBeenShown(row'[q].file)
  <2>1. row'[q] = IF q = r THEN x ELSE row[q] BY <1>3 DEF Inserts, TypeOK
  <2>2. x.draft => x.sha # None BY <1>0 DEF PaymentRow
  <2>. QED BY <1>0, <1>3, <2>1, <2>2 DEF Inserts, Live
<1>4. ASSUME NEW dead \in SUBSET Live, Deletes(dead)
      PROVE  q \in Live /\ row[q].sha = None /\ row[q].file = row'[q].file
  BY <1>0, <1>4 DEF Deletes, Live
<1>. QED BY <1>1, <1>2, <1>3, <1>4 DEF Statement

\* What is made is not unmade, and what is removed does not come back.
Onwards ==
    /\ \A f \in Files :
          /\ disk[f] # "free" => disk'[f] # "free"
          /\ disk[f] = "removed" => disk'[f] = "removed"
    /\ \A r \in Rows : row[r] # Unborn => row'[r] # Unborn

\* Every statement on the table.
LEMMA RowsGoOn ==
    ASSUME Assumptions, Typed, [Next]_vars, NEW q \in Rows, row[q] # Unborn
    PROVE  row'[q] # Unborn
BY RowsProceed DEF RowStep

\* Every operation on the directory.
LEMMA DiskGoesOn ==
    ASSUME Typed, NEW g \in Files,
           \/ UNCHANGED disk
           \/ \E f \in Files : disk[f] = "free" /\ disk' = [disk EXCEPT ![f] = "kept"]
           \/ \E fs : Remove(fs)
    PROVE  /\ disk[g] # "free" => disk'[g] # "free"
           /\ disk[g] = "removed" => disk'[g] = "removed"
BY DEF Typed, TypeOK, Remove

LEMMA GoesOn ==
    ASSUME Assumptions, Typed, [Next]_vars
    PROVE  Onwards
<1>1. ASSUME NEW c \in Clients, Upload(c)
      PROVE  \/ UNCHANGED disk
             \/ \E f \in Files : disk[f] = "free" /\ disk' = [disk EXCEPT ![f] = "kept"]
             \/ \E fs : Remove(fs)
  BY <1>1 DEF Upload, UploadSave, IsFresh, UploadFind, UploadStat, UploadRepoint, UploadInsert,
              UploadInsertRead, UploadMark, UploadFails, UploadRepointUnread, UploadDiscards
<1>2. ASSUME NEW c \in Clients, Confirm(c) \/ Discard(c) \/ DeleteTrip(c)
      PROVE  UNCHANGED disk \/ \E fs : Remove(fs)
  BY <1>2 DEF Confirm, ConfirmRead, ConfirmHash, ConfirmCandidates, ConfirmWrite, Discard,
              CancelRemove, CancelDelete, DeleteRead, DeleteCommit, DeleteFile,
              DeleteTrip, TripList, TripCommit, TripRefused, TripFile
<1>3. CASE Background
  <2>1. UNCHANGED disk \/ \E fs : Remove(fs)
    BY <1>3 DEF Background, OCRRead, Expire, OCRWrite, SweepRows, SweepFile, Crash
  <2>. QED BY <2>1, DiskGoesOn, RowsGoOn DEF Onwards
<1>4. \/ UNCHANGED disk
      \/ \E f \in Files : disk[f] = "free" /\ disk' = [disk EXCEPT ![f] = "kept"]
      \/ \E fs : Remove(fs)
      \/ Background
  BY <1>1, <1>2 DEF Next, EditPayment, CreatePayment, vars
<1>. QED BY <1>3, <1>4, DiskGoesOn, RowsGoOn DEF Onwards

\* Every step: what has been shown stays so.
LEMMA ShownNext ==
    ASSUME Assumptions, FileInv, [Next]_vars
    PROVE  AllShown'
<1>0. Typed /\ TypeOK /\ Statement BY OneStatement DEF FileInv, Typed
<1>1. \A b \in Clients : RequestStep(b) BY <1>0, RequestsStep
<1>2. ASSUME NEW f \in Files, HasBeenShown(f) PROVE HasBeenShown(f)'
  <2>1. disk'[f] # "free" BY <1>0, <1>2, GoesOn DEF HasBeenShown, Onwards
  <2>. QED BY <1>1, <1>2, <2>1 DEF HasBeenShown, RequestStep
<1>. SUFFICES ASSUME NEW f \in Files, f \in Shown' PROVE HasBeenShown(f)
  BY <1>2 DEF AllShown, Shown
<1>3. f \in Shown => HasBeenShown(f) BY DEF FileInv, AllShown
<1>4. CASE \E r \in Live' : row'[r].sha = None /\ row'[r].file = f
  <2>1. PICK r \in Rows : /\ row'[r] \notin {Unborn, Gone}
                          /\ row'[r].sha = None /\ row'[r].file = f
    BY <1>4 DEF Live
  <2>2. (r \in Live /\ row[r].sha = None /\ row[r].file = f) \/ HasBeenShown(f)
    BY <1>0, <2>1, NamesStep
  <2>. QED BY <1>3, <2>2 DEF Shown
<1>5. CASE \E c \in Clients : f \in req'[c].fs
  <2>1. PICK c \in Clients : f \in req'[c].fs BY <1>5
  <2>2. f \in req[c].fs \/ \E r \in Live : row[r].file = f BY <1>1, <2>1 DEF RequestStep
  <2>3. ASSUME NEW r \in Live, row[r].file = f PROVE HasBeenShown(f)
    BY <2>3, RowsAreShown
  <2>. QED BY <1>3, <2>2, <2>3 DEF Shown
<1>. QED BY <1>4, <1>5 DEF Shown

\* What is shown of the files holds in every step.
LEMMA FilesStep ==
    ASSUME Assumptions, FileInv, [Next]_vars
    PROVE  FileInv' /\ FilesGoOn
BY FilesNext, ShownNext, TypedNext DEF FilesGoOn, FileInv

\* A payment made from a screenshot never loses its file to another upload, to a
\* confirmation, to the sweeper or to a restart: whatever these remove or give
\* away no other such payment points to. Four steps only take the file of a row
\* that stays (handlers/payment.go:522 and :331, services/trip.go:776,
\* services/payment.go:798).
THEOREM RowsKeepTheirFiles == Spec => ScreenshotsStay
<1>. Assumptions
  BY RowsAssumption, MomentsAssumption, NullsAssumption DEF Assumptions
<1> DEFINE Takes(c, f) == \/ Cancels(c, f) \/ FailsLate(c, f)
                          \/ GoesByList(c, f) \/ GoesByName(c, f)
<1>1. ASSUME Init PROVE FileInv BY <1>1, FilesInit
<1>2. ASSUME FileInv, [Next]_vars PROVE FileInv' /\ FilesGoOn BY <1>2, FilesStep
<1>3. ASSUME FileInv, [Next]_vars, NEW r \in Rows,
             r \in Live, row[r].sha # None, HasFile(r), (r \in Live)', ~HasFile(r)'
      PROVE  \E c \in Clients : Takes(c, row'[r].file)
  <2>0. row'[r].sha = row[r].sha
    BY <1>3, RowsProceed DEF FileInv, RowStep, Live
  <2>1. Shot[r] = row[r].file /\ Shot'[r] = row'[r].file BY <1>3, <2>0 DEF Shot
  <2>2. Shot'[r] # None /\ disk'[Shot'[r]] # "kept" BY <1>3, <2>1 DEF HasFile
  <2>3. ~Kept(Shot, disk, Shot', disk') BY <1>3, <2>1, <2>2 DEF Kept, HasFile
  <2>4. req \in [Clients -> Request] /\ Shot \in [Rows -> Files \cup {None}]
    BY <1>3, StateShaped DEF FileInv, Shaped
  <2>5. Shot'[r] = Shot[r] => row[r].file \in Files /\ disk[row[r].file] = "kept"
    BY <1>3, <2>1, <2>2, <2>4 DEF HasFile
  <2>6. ASSUME NEW f, row' = row, Remove({f}) PROVE row'[r].file = f
    BY <2>1, <2>2, <2>5, <2>6 DEF Remove
  <2>7. ASSUME NEW c \in Clients, NEW f \in Files, CancelRemove(c, f)
        PROVE  Takes(c, row'[r].file)
    <3>1. Holds(c, "idle") /\ row' = row /\ Remove({f})
          /\ Goto(c, [Idle EXCEPT !.pc = "cancel", !.f = f])
      BY <2>7 DEF CancelRemove
    <3>2. req'[c].pc = "cancel" /\ req'[c].f = f BY <2>4, <3>1 DEF Goto, Idle
    <3>. QED BY <2>6, <3>1, <3>2 DEF Holds, Cancels
  <2>8. ASSUME NEW c \in Clients, LateLoss(c)
        PROVE  Takes(c, row'[r].file)
    <3>1. Remove({req[c].f}) /\ Goto(c, Idle) BY <2>8 DEF LateLoss, UploadDiscards
    <3>2. req'[c].pc = "idle" BY <2>4, <3>1 DEF Goto, Idle
    <3>3. Shot'[r] = Shot[r] \/ Shot'[r] = req[c].f BY <2>4, <2>8 DEF LateLoss
    <3>4. row'[r].file = req[c].f BY <2>1, <2>2, <2>5, <3>1, <3>3 DEF Remove
    <3>. QED BY <2>8, <3>2, <3>4 DEF Holds, LateLoss, FailsLate
  <2>9. ASSUME NEW c \in Clients, NEW f \in Files, TripFile(c, f)
        PROVE  Takes(c, row'[r].file)
    BY <2>6, <2>9 DEF TripFile, GoesByList
  <2>10. ASSUME NEW c \in Clients, DeleteFile(c), req[c].h = None
         PROVE  Takes(c, row'[r].file)
    BY <2>6, <2>10 DEF DeleteFile, GoesByName
  <2>. QED BY <1>2, <1>3, <2>3, <2>7, <2>8, <2>9, <2>10 DEF FilesGoOn
<1>4. FileInv /\ [Next]_vars => [\A r \in Rows :
          r \in Live /\ row[r].sha # None /\ HasFile(r) /\ (r \in Live)' /\ ~HasFile(r)'
            => \E c \in Clients :
                  LET f == row'[r].file
                  IN  Cancels(c, f) \/ FailsLate(c, f) \/ GoesByList(c, f) \/ GoesByName(c, f)]_vars
  BY <1>3
<1>. QED BY <1>1, <1>2, <1>4, PTL DEF Spec, ScreenshotsStay

-----------------------------------------------------------------------------
(* No file is forgotten. *)

\* A request that removes the file yet, or gives it to a row.
Has(q, f) ==
    \/ q.f = f /\ q.pc \notin {"delete", "mark"}
    \/ q.pc = "files" /\ f \in q.fs

\* What a request has in hand, as far as it is not its own new file.
HandFine(c) ==
    /\ req[c].pc \in {"idle", "hash", "cands", "confirm", "trip", "files"} => req[c].f = None
    /\ req[c].pc \in {"stat", "repoint"} => disk[req[c].old] # "free"
    /\ req[c].pc = "repoint" => disk[req[c].old] = "removed"
    /\ req[c].pc = "cancel" => disk[req[c].f] = "removed"
HandsInv == FileInv /\ \A c \in Clients : HandFine(c)

\* The file is gone, or still accounted for if it was, or it is one of those
\* that may be forgotten.
Spared(f) ==
    \/ disk[f] = "kept" /\ Accounted(f) /\ disk'[f] = "kept" => Accounted(f)'
    \/ Crash
    \/ \E c \in Clients : (Outdated(c) \/ Unlisted(c, f)) /\ req'[c] # req[c]

\* What has to be shown of a step.
HandsGoOn ==
    /\ \A c \in Clients : HandFine(c)'
    /\ \A f \in Files : Spared(f)

LEMMA AccountedIs ==
    ASSUME Assumptions, NEW f \in Files
    PROVE  Accounted(f) <=> \/ f \in sweep
                            \/ \E c \in Clients : Has(req[c], f)
                            \/ \E r \in Rows : Own[r] = f
<1>1. (\E r \in Live : row[r].file = f) <=> \E r \in Rows : Own[r] = f
  BY DEF Own, Live, Assumptions, NullsAssumption
<1>2. InHand(f) <=> f \in sweep \/ \E c \in Clients : Has(req[c], f)
  BY DEF InHand, Has, Holds
<1>. QED BY <1>1, <1>2 DEF Accounted

\* The primed form of the same.
LEMMA AccountedNext ==
    ASSUME Assumptions, NEW f \in Files
    PROVE  Accounted(f)' <=> \/ f \in sweep'
                             \/ \E c \in Clients : Has(req'[c], f)
                             \/ \E r \in Rows : Own'[r] = f
<1>1. (\E r \in Live : row[r].file = f)' <=> \E r \in Rows : Own'[r] = f
  BY DEF Own, Live, Assumptions, NullsAssumption
<1>2. InHand(f)' <=> f \in sweep' \/ \E c \in Clients : Has(req'[c], f)
  BY DEF InHand, Has, Holds
<1>. QED BY <1>1, <1>2 DEF Accounted

\* A step of one request: what it takes over it has seen, and what it lets go
\* of, or takes from a row, is gone, in its hands, or some row's.
LEMMA HandGoesOn ==
    ASSUME Assumptions, HandsInv, Onwards, UNCHANGED sweep,
           NEW c \in Clients, NEW x \in Request, Goto(c, x), HandFine(c)',
           \A f \in Files :
              \/ disk'[f] # "kept"
              \/ (Outdated(c) \/ Unlisted(c, f)) /\ x # req[c]
              \/ Has(req[c], f) \/ (\E r \in Rows : Own[r] = f)
                   => Has(x, f) \/ \E r \in Rows : Own'[r] = f
    PROVE  HandsGoOn
<1>0. Typed /\ req \in [Clients -> Request] /\ \A b \in Clients : Armed(req[b])
  BY DEF HandsInv, FileInv, Typed, TypeOK, HandsFull
<1>1. req'[c] = x /\ \A b \in Clients \ {c} : req'[b] = req[b] BY <1>0 DEF Goto
<1>2. ASSUME NEW b \in Clients \ {c} PROVE HandFine(b)'
  <2>1. HandFine(b) /\ Armed(req[b]) /\ req'[b] = req[b] BY <1>0, <1>1 DEF HandsInv
  <2>. QED BY <2>1 DEF HandFine, Onwards, Armed
<1>3. ASSUME NEW f \in Files PROVE Spared(f)
  <2>1. CASE (Outdated(c) \/ Unlisted(c, f)) /\ x # req[c] BY <1>1, <2>1 DEF Spared
  <2>2. CASE disk'[f] # "kept" BY <2>2 DEF Spared
  <2>3. CASE Has(req[c], f) \/ (\E r \in Rows : Own[r] = f)
               => Has(x, f) \/ \E r \in Rows : Own'[r] = f
    <3>1. ASSUME Accounted(f) PROVE Accounted(f)'
      <4>1. \/ f \in sweep \/ (\E b \in Clients \ {c} : Has(req[b], f))
            \/ Has(req[c], f) \/ \E r \in Rows : Own[r] = f
        BY <3>1, AccountedIs
      <4>2. \/ f \in sweep' \/ (\E b \in Clients : Has(req'[b], f))
            \/ \E r \in Rows : Own'[r] = f
        BY <1>1, <2>3, <4>1
      <4>. QED BY <4>2, AccountedNext
    <3>. QED BY <3>1 DEF Spared
  <2>. QED BY <2>1, <2>2, <2>3
<1>. QED BY <1>2, <1>3 DEF HandsGoOn

\* A step of one request that changes no row's file.
LEMMA HandAlone ==
    ASSUME Assumptions, HandsInv, Onwards, UNCHANGED sweep, Own' = Own,
           NEW c \in Clients, NEW x \in Request, Goto(c, x), HandFine(c)',
           \A f \in Files : Has(req[c], f) => Has(x, f) \/ disk'[f] # "kept"
    PROVE  HandsGoOn
BY HandGoesOn

\* A request that ends and changes no row's file.
LEMMA HandEnds ==
    ASSUME Assumptions, HandsInv, Onwards, UNCHANGED sweep, Own' = Own,
           NEW c \in Clients, Goto(c, Idle),
           \A f \in Files : Has(req[c], f) => disk'[f] # "kept"
    PROVE  HandsGoOn
<1>1. Idle.f = None /\ Idle.pc = "idle" BY DEF Idle
<1>2. req'[c] = Idle BY DEF HandsInv, FileInv, Typed, TypeOK, Goto
<1>3. HandFine(c)' BY <1>1, <1>2 DEF HandFine
<1>. QED BY <1>3, IdleRequest, HandAlone

\* What is known of a request before its step.
LEMMA HandBefore ==
    ASSUME Assumptions, HandsInv, NEW c \in Clients
    PROVE  /\ Typed /\ TypeOK /\ req[c] \in Request /\ Armed(req[c]) /\ HandFine(c)
           /\ Own \in [Rows -> Files \cup {None}] /\ None \notin Files
           /\ \A x : Goto(c, x) => req'[c] = x
           /\ (UNCHANGED row => Own' = Own)
<1>1. Typed /\ TypeOK /\ req[c] \in Request /\ Armed(req[c]) /\ HandFine(c)
  BY DEF HandsInv, FileInv, Typed, TypeOK, HandsFull
<1>2. Own \in [Rows -> Files \cup {None}] BY <1>1, LiveRows DEF Own, PaymentRow
<1>3. \A x : Goto(c, x) => req'[c] = x BY <1>1 DEF Goto, TypeOK
<1>4. UNCHANGED row => Own' = Own BY DEF Own, Live
<1>. QED BY <1>1, <1>2, <1>3, <1>4 DEF Assumptions, NullsAssumption

\* The steps of an upload.
LEMMA UploadHands ==
    ASSUME Assumptions, HandsInv, Onwards, NEW c \in Clients, Upload(c)
    PROVE  HandsGoOn
<1>0. /\ Typed /\ TypeOK /\ req[c] \in Request /\ Armed(req[c]) /\ HandFine(c)
      /\ Own \in [Rows -> Files \cup {None}] /\ None \notin Files
  BY HandBefore
<1>u. ASSUME UNCHANGED row PROVE Own' = Own BY <1>u, HandBefore
<1>g. ASSUME NEW x, Goto(c, x) PROVE req'[c] = x BY <1>g, HandBefore
<1>d. ASSUME UploadDiscards(c), UNCHANGED <<row, sweep>>,
             req[c].pc \in {"find", "stat", "repoint", "insert", "mark"}
      PROVE  HandsGoOn
  <2>1. disk'[req[c].f] = "removed" BY <1>0, <1>d DEF UploadDiscards, Remove, Armed
  <2>2. \A f \in Files : Has(req[c], f) => disk'[f] # "kept" BY <1>d, <2>1 DEF Has
  <2>. QED BY <1>d, <1>u, <2>2, HandEnds DEF UploadDiscards
<1>1. ASSUME NEW f \in Files, NEW h \in Hashes, UploadSave(c, f, h) PROVE HandsGoOn
  <2> DEFINE x == [Idle EXCEPT !.pc = "find", !.f = f, !.h = h]
  <2>1. x \in Request /\ x.pc = "find" BY DEF Idle, Request, PCs
  <2>2. Goto(c, x) /\ UNCHANGED <<row, sweep>> /\ req[c].pc = "idle"
    BY <1>1 DEF UploadSave, Holds
  <2> HIDE DEF x
  <2>3. HandFine(c)' BY <1>g, <2>1, <2>2 DEF HandFine
  <2>4. \A g \in Files : ~Has(req[c], g) BY <1>0, <2>2 DEF HandFine, Has
  <2>. QED BY <1>u, <2>1, <2>2, <2>3, <2>4, HandAlone
<1>2. CASE UploadFind(c)
  <2>1. req[c].pc = "find" /\ UNCHANGED <<row, sweep>> BY <1>2 DEF UploadFind, Holds
  <2>2. CASE UploadDiscards(c) BY <1>d, <2>1, <2>2
  <2>3. CASE Goto(c, [req[c] EXCEPT !.pc = "insert"])
    <3> DEFINE x == [req[c] EXCEPT !.pc = "insert"]
    <3>1. x \in Request /\ x.pc = "insert" /\ x.f = req[c].f BY <1>0 DEF Request, PCs
    <3> HIDE DEF x
    <3>2. Goto(c, x) BY <2>3 DEF x
    <3>3. HandFine(c)' BY <1>g, <3>1, <3>2 DEF HandFine
    <3>4. \A g \in Files : Has(req[c], g) => Has(x, g) BY <2>1, <3>1 DEF Has
    <3>. QED BY <1>u, <2>1, <3>1, <3>2, <3>3, <3>4, HandAlone
  <2>4. ASSUME NEW r \in SameHash(req[c].h), row[r].draft, UNCHANGED disk,
               Goto(c, [req[c] EXCEPT !.pc = "stat", !.r = r, !.old = row[r].file])
        PROVE  HandsGoOn
    <3> DEFINE x == [req[c] EXCEPT !.pc = "stat", !.r = r, !.old = row[r].file]
    <3>1. r \in Rows /\ r \in Live /\ row[r].file \in Files /\ row[r].sha \in Hashes
      BY <1>0, <2>4, LiveRows DEF SameHash, Drafts, Live
    <3>2. x \in Request /\ x.pc = "stat" /\ x.f = req[c].f /\ x.old = row[r].file
      BY <1>0, <3>1 DEF Request, PCs
    <3> HIDE DEF x
    <3>3. Goto(c, x) BY <2>4 DEF x
    <3>4. disk[row[r].file] # "free"
      BY <3>1, RowsAreShown DEF HandsInv, HasBeenShown
    <3>5. HandFine(c)' BY <1>g, <2>1, <2>4, <3>2, <3>3, <3>4 DEF HandFine
    <3>6. \A g \in Files : Has(req[c], g) => Has(x, g) BY <2>1, <3>2 DEF Has
    <3>. QED BY <1>u, <2>1, <3>2, <3>3, <3>5, <3>6, HandAlone
  <2>. QED BY <1>2, <2>2, <2>3, <2>4 DEF UploadFind
<1>3. CASE UploadStat(c)
  <2>1. req[c].pc = "stat" /\ UNCHANGED <<row, sweep>> BY <1>3 DEF UploadStat, Holds
  <2>2. CASE UploadDiscards(c) BY <1>d, <2>1, <2>2
  <2>3. CASE disk[req[c].old] # "kept" /\ UNCHANGED disk /\ Goto(c, [req[c] EXCEPT !.pc = "repoint"])
    <3> DEFINE x == [req[c] EXCEPT !.pc = "repoint"]
    <3>1. x \in Request /\ x.pc = "repoint" /\ x.f = req[c].f /\ x.old = req[c].old
      BY <1>0 DEF Request, PCs
    <3> HIDE DEF x
    <3>2. Goto(c, x) BY <2>3 DEF x
    <3>3. req[c].old \in Files /\ disk[req[c].old] = "removed"
      BY <1>0, <2>1, <2>3 DEF HandFine, Armed, TypeOK
    <3>4. HandFine(c)' BY <1>g, <2>1, <2>3, <3>1, <3>2, <3>3 DEF HandFine
    <3>5. \A g \in Files : Has(req[c], g) => Has(x, g) BY <2>1, <3>1 DEF Has
    <3>. QED BY <1>u, <2>1, <3>1, <3>2, <3>4, <3>5, HandAlone
  <2>. QED BY <1>3, <2>2, <2>3 DEF UploadStat
<1>4. CASE UploadRepoint(c) \/ UploadRepointUnread(c)
  <2>0. req[c].pc = "repoint" BY <1>4 DEF UploadRepoint, UploadRepointUnread, Holds
  <2>. PICK r \in Rows, f \in Files : r = req[c].r /\ f = req[c].f BY <1>0, <2>0 DEF Armed
  <2>1. /\ req[c].pc = "repoint" /\ UNCHANGED sweep /\ row' = Repointed(r, f)
        /\ Goto(c, Idle) /\ (r \notin Live => UploadDiscards(c))
        /\ UNCHANGED disk \/ UploadDiscards(c)
    BY <1>4, <2>0 DEF UploadRepoint, UploadRepointUnread, UploadDiscards
  <2>2. req[c].old \in Files /\ disk[req[c].old] = "removed" BY <1>0, <2>1 DEF Armed, HandFine
  <2>3. Idle.f = None /\ Idle.pc = "idle" BY DEF Idle
  <2>4. Idle # req[c] BY <2>1, <2>3
  <2>5. HandFine(c)' BY <1>g, <2>1, <2>3 DEF HandFine
  <2>6. disk'[req[c].old] = "removed" BY <2>2 DEF Onwards
  <2>7. \A g \in Files : Has(req[c], g) => g = f BY <2>1 DEF Has
  <2>8. CASE r \in Drafts
    <3>1. Own' = [Own EXCEPT ![r] = f] BY <1>0, <2>1, <2>8, OwnRepointed
    <3>2. Own'[r] = f /\ \A q \in Rows \ {r} : Own'[q] = Own[q] BY <1>0, <3>1
    <3>3. r \in Live /\ Own[r] = row[r].file BY <2>8 DEF Drafts, Own
    <3>4. Outdated(c) \/ Own[r] = req[c].old BY <2>1, <3>3 DEF Outdated, Holds
    <3>5. \A g \in Files, q \in Rows :
             Own[r] = req[c].old /\ Own[q] = g => disk'[g] # "kept" \/ Own'[q] = g
      BY <2>6, <3>2
    <3>6. \A g \in Files :
             \/ disk'[g] # "kept"
             \/ (Outdated(c) \/ Unlisted(c, g)) /\ Idle # req[c]
             \/ Has(req[c], g) \/ (\E q \in Rows : Own[q] = g)
                  => Has(Idle, g) \/ \E q \in Rows : Own'[q] = g
      BY <2>4, <2>7, <3>2, <3>4, <3>5
    <3>. QED BY <2>1, <2>5, <3>6, IdleRequest, HandGoesOn
  <2>9. CASE r \notin Drafts
    <3>1. UNCHANGED row BY <2>1, <2>9 DEF Repointed
    <3>2. CASE UploadDiscards(c) BY <1>d, <2>1, <3>1, <3>2
    <3>3. CASE ~UploadDiscards(c)
      <4>1. Outdated(c) BY <2>1, <2>9, <3>3 DEF Outdated, Holds, Drafts
      <4>. QED BY <2>1, <2>4, <2>5, <4>1, IdleRequest, HandGoesOn
    <3>. QED BY <3>2, <3>3
  <2>. QED BY <2>8, <2>9
<1>5. ASSUME NEW r \in Rows, NEW key \in Moments \cup {None}, NEW x \in Request,
             Holds(c, "insert"), IsNext(r), UNCHANGED <<disk, sweep>>,
             row' = [row EXCEPT ![r] = NewDraft(req[c].f, req[c].h, key)],
             Goto(c, x), x.pc \in {"idle", "mark"}, x.pc = "idle" => x.f = None
      PROVE  HandsGoOn
  <2> DEFINE new == NewDraft(req[c].f, req[c].h, key)
  <2>1. req[c].pc = "insert" /\ row[r] = Unborn BY <1>5 DEF Holds, IsNext
  <2>. PICK f \in Files : f = req[c].f BY <1>0, <2>1 DEF Armed
  <2>2. new \in PaymentRow /\ new.file = f BY <1>0, <1>5, <2>1 DEF Armed, NewDraft, PaymentRow
  <2>3. row' = [row EXCEPT ![r] = new] BY <1>5
  <2> HIDE DEF new
  <2>4. Own' = [Own EXCEPT ![r] = f] BY <1>0, <2>2, <2>3, OwnWritten
  <2>5. Own'[r] = f /\ \A q \in Rows \ {r} : Own'[q] = Own[q] BY <1>0, <2>4
  <2>6. Own[r] = None BY <2>1 DEF Own, Live
  <2>7. HandFine(c)' BY <1>g, <1>5 DEF HandFine
  <2>8. \A g \in Files : Has(req[c], g) \/ (\E q \in Rows : Own[q] = g)
                           => \E q \in Rows : Own'[q] = g
    <3>1. \A g \in Files : Has(req[c], g) => Own'[r] = g BY <2>1, <2>5 DEF Has
    <3>2. \A g \in Files, q \in Rows : Own[q] = g => Own'[q] = g BY <1>0, <2>5, <2>6
    <3>. QED BY <3>1, <3>2
  <2>. QED BY <1>5, <2>7, <2>8, HandGoesOn
<1>6. ASSUME NEW r \in Rows, UploadInsert(c, r) PROVE HandsGoOn
  <2>1. Idle.f = None /\ Idle.pc = "idle" BY DEF Idle
  <2>. QED BY <1>5, <1>6, <2>1, IdleRequest DEF UploadInsert
<1>7. ASSUME NEW r \in Rows, NEW key \in Moments \cup {None}, UploadInsertRead(c, r, key)
      PROVE  HandsGoOn
  <2> DEFINE x == [req[c] EXCEPT !.pc = "mark"]
  <2>1. x \in Request /\ x.pc = "mark" BY <1>0 DEF Request, PCs
  <2>2. Goto(c, x) BY <1>7 DEF UploadInsertRead
  <2> HIDE DEF x
  <2>. QED BY <1>5, <1>7, <2>1, <2>2 DEF UploadInsertRead
<1>8. CASE UploadMark(c)
  <2>1. req[c].pc = "mark" /\ Goto(c, Idle) /\ UNCHANGED <<row, disk, sweep>>
    BY <1>8 DEF UploadMark, Holds
  <2>2. \A f \in Files : ~Has(req[c], f) BY <2>1 DEF Has
  <2>. QED BY <1>u, <2>1, <2>2, HandEnds
<1>9. CASE UploadFails(c) BY <1>9, <1>d DEF UploadFails
<1>. QED BY <1>1, <1>2, <1>3, <1>4, <1>6, <1>7, <1>8, <1>9 DEF Upload

\* The steps of a confirmation, which has no file in hand.
LEMMA ConfirmHands ==
    ASSUME Assumptions, HandsInv, Onwards, NEW c \in Clients, Confirm(c)
    PROVE  HandsGoOn
<1>0. /\ Typed /\ TypeOK /\ req[c] \in Request /\ Armed(req[c]) /\ HandFine(c)
      /\ None \notin Files
  BY HandBefore
<1>u. ASSUME UNCHANGED row PROVE Own' = Own BY <1>u, HandBefore
<1>g. ASSUME NEW x, Goto(c, x) PROVE req'[c] = x BY <1>g, HandBefore
<1>1. ASSUME NEW x \in Request, x.f = None, x.pc \in {"idle", "hash", "cands", "confirm"},
             req[c].pc \in {"idle", "hash", "cands", "confirm"},
             Goto(c, x), Own' = Own, UNCHANGED <<disk, sweep>>
      PROVE  HandsGoOn
  <2>1. HandFine(c)' BY <1>g, <1>1 DEF HandFine
  <2>2. \A f \in Files : ~Has(req[c], f) BY <1>0, <1>1 DEF HandFine, Has
  <2>. QED BY <1>1, <2>1, <2>2, HandAlone
<1>i. Idle.f = None /\ Idle.pc = "idle" BY DEF Idle
<1>2. ASSUME NEW r \in Rows, NEW edits \in BOOLEAN, NEW force \in BOOLEAN,
             NEW key \in Moments, ConfirmRead(c, r, edits, key, force)
      PROVE  HandsGoOn
  <2> DEFINE x == [Idle EXCEPT !.pc = "hash", !.r = r, !.h = row[r].sha,
                               !.key = IF edits THEN key ELSE row[r].key,
                               !.edits = edits, !.force = force]
  <2>1. row[r] \in PaymentRow BY <1>0, <1>2, LiveRows DEF ConfirmRead
  <2>2. /\ row[r].sha \in Hashes \cup {None}
        /\ (IF edits THEN key ELSE row[r].key) \in Moments \cup {None}
    BY <2>1 DEF PaymentRow
  <2>3. x \in Request /\ x.f = None /\ x.pc = "hash" BY <2>2 DEF Idle, Request, PCs
  <2>4. Goto(c, x) /\ UNCHANGED <<row, disk, sweep>> /\ req[c].pc = "idle"
    BY <1>2 DEF ConfirmRead, Holds
  <2> HIDE DEF x
  <2>. QED BY <1>1, <1>u, <2>3, <2>4
<1>3. ASSUME NEW to \in {"cands", "confirm"}, Goto(c, [req[c] EXCEPT !.pc = to]),
             req[c].pc \in {"hash", "cands"}, UNCHANGED <<row, disk, sweep>>
      PROVE  HandsGoOn
  <2> DEFINE x == [req[c] EXCEPT !.pc = to]
  <2>1. x \in Request /\ x.pc = to /\ x.f = req[c].f BY <1>0 DEF Request, PCs
  <2>2. Goto(c, x) BY <1>3
  <2> HIDE DEF x
  <2>3. req[c].f = None BY <1>0, <1>3 DEF HandFine
  <2>. QED BY <1>1, <1>3, <1>u, <2>1, <2>2, <2>3
<1>4. CASE ConfirmHash(c) \/ ConfirmCandidates(c)
  BY <1>1, <1>3, <1>4, <1>i, <1>u, IdleRequest DEF ConfirmHash, ConfirmCandidates, Holds
<1>5. CASE ConfirmWrite(c)
  <2> DEFINE r == req[c].r
             x == [row[r] EXCEPT !.draft = FALSE,
                      !.key = IF req[c].edits THEN req[c].key ELSE @]
  <2>1. req[c].pc = "confirm" BY <1>5 DEF ConfirmWrite, Holds
  <2>2. r \in Rows /\ req[c].key \in Moments \cup {None} BY <1>0, <2>1 DEF Armed, Request
  <2>3. Own' = Own
    <3>1. CASE r \notin Live BY <1>5, <1>u, <3>1 DEF ConfirmWrite
    <3>2. CASE r \in Live
      <4>1. row[r] \in PaymentRow BY <1>0, <3>2, LiveRows
      <4>2. x \in PaymentRow /\ x.file = row[r].file BY <2>2, <4>1 DEF PaymentRow
      <4>3. row' = [row EXCEPT ![r] = x]
        BY <1>0, <1>5, <2>2, <3>2 DEF ConfirmWrite, TypeOK
      <4> HIDE DEF x
      <4>. QED BY <1>0, <3>2, <4>2, <4>3, OwnUpdated
    <3>. QED BY <3>1, <3>2
  <2>. QED BY <1>1, <1>5, <1>i, <2>1, <2>3, IdleRequest DEF ConfirmWrite
<1>. QED BY <1>2, <1>4, <1>5 DEF Confirm

\* The steps of a cancellation and of a deletion.
LEMMA DiscardHands ==
    ASSUME Assumptions, HandsInv, Onwards, NEW c \in Clients, Discard(c)
    PROVE  HandsGoOn
<1>0. /\ Typed /\ TypeOK /\ req[c] \in Request /\ Armed(req[c]) /\ HandFine(c)
      /\ Own \in [Rows -> Files \cup {None}] /\ None \notin Files
  BY HandBefore
<1>u. ASSUME UNCHANGED row PROVE Own' = Own BY <1>u, HandBefore
<1>g. ASSUME NEW x, Goto(c, x) PROVE req'[c] = x BY <1>g, HandBefore
<1>i. Idle.f = None /\ Idle.pc = "idle" /\ Idle \in Request BY IdleRequest DEF Idle
<1>1. ASSUME NEW f \in Files, CancelRemove(c, f) PROVE HandsGoOn
  <2> DEFINE x == [Idle EXCEPT !.pc = "cancel", !.f = f]
  <2>1. x \in Request /\ x.f = f /\ x.pc = "cancel" BY DEF Idle, Request, PCs
  <2>2. Goto(c, x) /\ UNCHANGED <<row, sweep>> /\ Remove({f}) /\ req[c].pc = "idle"
    BY <1>1 DEF CancelRemove, Holds
  <2> HIDE DEF x
  <2>3. disk'[f] = "removed" BY <2>2 DEF Remove
  <2>4. HandFine(c)' BY <1>g, <2>1, <2>2, <2>3 DEF HandFine
  <2>5. \A g \in Files : ~Has(req[c], g) BY <1>0, <2>2 DEF HandFine, Has
  <2>. QED BY <1>u, <2>1, <2>2, <2>4, <2>5, HandAlone
<1>2. CASE CancelDelete(c)
  <2> DEFINE dead == {r \in Drafts : row[r].file = req[c].f}
  <2>0. req[c].pc = "cancel" BY <1>2 DEF CancelDelete, Holds
  <2>1. PICK f \in Files : f = req[c].f BY <1>0, <2>0 DEF Armed
  <2>2. dead \in SUBSET Rows /\ \A r \in dead : Own[r] = f
    BY <2>1 DEF Drafts, Live, Own
  <2>3. row' = [q \in Rows |-> IF q \in dead THEN Gone ELSE row[q]]
        /\ Goto(c, Idle) /\ UNCHANGED <<disk, sweep>>
    BY <1>2 DEF CancelDelete
  <2> HIDE DEF dead
  <2>4. Own' = [q \in Rows |-> IF q \in dead THEN None ELSE Own[q]]
    BY <1>0, <2>2, <2>3, OwnDeleted
  <2>5. disk'[f] = "removed" BY <1>0, <2>0, <2>1, <2>3 DEF HandFine
  <2>6. \A q \in Rows, g \in Files : Own[q] = g => disk'[g] # "kept" \/ Own'[q] = g
    BY <2>2, <2>4, <2>5
  <2>7. HandFine(c)' BY <1>g, <1>i, <2>3 DEF HandFine
  <2>8. \A g \in Files : Has(req[c], g) => disk'[g] # "kept" BY <2>0, <2>1, <2>5 DEF Has
  <2>9. \A g \in Files : \/ disk'[g] # "kept"
                         \/ Has(req[c], g) \/ (\E r \in Rows : Own[r] = g)
                              => \E r \in Rows : Own'[r] = g
    BY <2>6, <2>8
  <2>. QED BY <1>i, <2>3, <2>7, <2>9, HandGoesOn
<1>3. ASSUME NEW r \in Rows, DeleteRead(c, r) PROVE HandsGoOn
  <2> DEFINE x == [Idle EXCEPT !.pc = "delete", !.r = r, !.f = row[r].file, !.h = row[r].sha]
  <2>1. row[r].file \in Files \cup {None} /\ row[r].sha \in Hashes \cup {None}
    BY <1>0, <1>3, LiveRows DEF DeleteRead, PaymentRow
  <2>2. x \in Request /\ x.pc = "delete" BY <2>1 DEF Idle, Request, PCs
  <2>3. Goto(c, x) /\ UNCHANGED <<row, disk, sweep>> /\ req[c].pc = "idle"
    BY <1>3 DEF DeleteRead, Holds
  <2> HIDE DEF x
  <2>4. HandFine(c)' BY <1>g, <2>2, <2>3 DEF HandFine
  <2>5. \A g \in Files : ~Has(req[c], g) BY <1>0, <2>3 DEF HandFine, Has
  <2>. QED BY <1>u, <2>2, <2>3, <2>4, <2>5, HandAlone
<1>4. CASE DeleteCommit(c)
  <2>1. req[c].pc = "delete" /\ UNCHANGED <<disk, sweep>> BY <1>4 DEF DeleteCommit, Holds
  <2>2. \A g \in Files : ~Has(req[c], g) BY <2>1 DEF Has
  <2>. PICK r \in Rows : r = req[c].r BY <1>0, <2>1 DEF Armed
  <2>3. CASE r \notin Live
    BY <1>4, <1>u, <2>1, <2>2, <2>3, HandEnds DEF DeleteCommit
  <2>4. CASE r \in Live
    <3> DEFINE x == IF req[c].f = None THEN Idle ELSE [req[c] EXCEPT !.pc = "unlink"]
    <3>1. x \in Request BY <1>0, <1>i DEF Request, PCs
    <3>2. IF req[c].f = None THEN x.pc = "idle" /\ x.f = None
                             ELSE x.pc = "unlink" /\ x.f = req[c].f
      BY <1>0, <1>i DEF Request
    <3>3. Goto(c, x) /\ row' = [q \in Rows |-> IF q \in {r} THEN Gone ELSE row[q]]
      BY <1>0, <1>4, <2>4 DEF DeleteCommit, TypeOK
    <3> HIDE DEF x
    <3>4. \A q \in Rows : Own'[q] = IF q = r THEN None ELSE Own[q]
      <4>1. Own' = [q \in Rows |-> IF q \in {r} THEN None ELSE Own[q]]
        BY <1>0, <3>3, OwnDeleted
      <4>. QED BY <4>1
    <3>5. HandFine(c)' BY <1>g, <3>2, <3>3 DEF HandFine
    <3>6. Own[r] = row[r].file BY <2>4 DEF Own
    <3>7. CASE Own[r] # req[c].f
      <4>1. Outdated(c) /\ x # req[c] BY <2>1, <2>4, <3>2, <3>6, <3>7 DEF Outdated, Holds
      <4>. QED BY <2>1, <3>1, <3>3, <3>5, <4>1, HandGoesOn
    <3>8. CASE Own[r] = req[c].f
      <4>1. \A g \in Files : Own[r] = g => Has(x, g) BY <1>0, <3>2, <3>8 DEF Has
      <4>2. \A g \in Files : Has(req[c], g) \/ (\E q \in Rows : Own[q] = g)
                               => Has(x, g) \/ \E q \in Rows : Own'[q] = g
        BY <2>2, <3>4, <4>1
      <4>. QED BY <2>1, <3>1, <3>3, <3>5, <4>2, HandGoesOn
    <3>. QED BY <3>7, <3>8
  <2>. QED BY <2>3, <2>4
<1>5. CASE DeleteFile(c)
  <2>1. req[c].pc = "unlink" /\ UNCHANGED <<row, sweep>> /\ Remove({req[c].f}) /\ Goto(c, Idle)
    BY <1>5 DEF DeleteFile, Holds
  <2>2. disk'[req[c].f] = "removed" BY <1>0, <2>1 DEF Remove, Armed
  <2>3. \A f \in Files : Has(req[c], f) => disk'[f] # "kept" BY <2>1, <2>2 DEF Has
  <2>. QED BY <1>u, <2>1, <2>3, HandEnds
<1>. QED BY <1>1, <1>2, <1>3, <1>4, <1>5 DEF Discard

\* The steps of the deletion of a trip: a payment that has joined since the list
\* was made leaves its file behind.
LEMMA TripHands ==
    ASSUME Assumptions, HandsInv, Onwards, NEW c \in Clients, DeleteTrip(c)
    PROVE  HandsGoOn
<1>0. /\ Typed /\ TypeOK /\ req[c] \in Request /\ HandFine(c)
      /\ Own \in [Rows -> Files \cup {None}] /\ None \notin Files
  BY HandBefore
<1>u. ASSUME UNCHANGED row PROVE Own' = Own BY <1>u, HandBefore
<1>g. ASSUME NEW x, Goto(c, x) PROVE req'[c] = x BY <1>g, HandBefore
<1>i. Idle.f = None /\ Idle.pc = "idle" /\ Idle \in Request BY IdleRequest DEF Idle
<1>1. ASSUME NEW inTrip \in SUBSET Confirmed, TripList(c, inTrip) PROVE HandsGoOn
  <2> DEFINE x == [Idle EXCEPT !.pc = "trip",
                               !.fs = {row[r].file : r \in inTrip} \ {None}]
  <2>1. \A r \in inTrip : row[r].file \in Files \cup {None}
    BY <1>0, LiveRows DEF Confirmed, PaymentRow
  <2>2. {row[r].file : r \in inTrip} \ {None} \in SUBSET Files BY <2>1
  <2>3. x \in Request /\ x.f = None /\ x.pc = "trip" BY <2>2 DEF Idle, Request, PCs
  <2>4. Goto(c, x) /\ UNCHANGED <<row, disk, sweep>> /\ req[c].pc = "idle"
    BY <1>1 DEF TripList, Holds
  <2> HIDE DEF x
  <2>5. HandFine(c)' BY <1>g, <2>3, <2>4 DEF HandFine
  <2>6. \A f \in Files : ~Has(req[c], f) BY <1>0, <2>4 DEF HandFine, Has
  <2>. QED BY <1>u, <2>3, <2>4, <2>5, <2>6, HandAlone
<1>2. ASSUME NEW inTrip \in SUBSET Confirmed, TripCommit(c, inTrip) PROVE HandsGoOn
  <2> DEFINE x == IF req[c].fs = {} THEN Idle ELSE [req[c] EXCEPT !.pc = "files"]
  <2>1. /\ req[c].pc = "trip" /\ UNCHANGED <<disk, sweep>> /\ inTrip \in SUBSET Rows
        /\ row' = [q \in Rows |-> IF q \in inTrip THEN Gone ELSE row[q]] /\ Goto(c, x)
    BY <1>2 DEF TripCommit, Holds, Confirmed, Live
  <2>2. x \in Request BY <1>0, <1>i DEF Request, PCs
  <2>3. req[c].f = None BY <1>0, <2>1 DEF HandFine
  <2>4. /\ x.f = None /\ x.pc \in {"idle", "files"}
        /\ \A f \in req[c].fs : x.pc = "files" /\ f \in x.fs
    BY <1>0, <1>i, <2>3 DEF Request
  <2> HIDE DEF x
  <2>5. HandFine(c)' BY <1>g, <2>1, <2>4 DEF HandFine
  <2>6. Own' = [q \in Rows |-> IF q \in inTrip THEN None ELSE Own[q]]
    BY <1>0, <2>1, OwnDeleted
  <2>7. x # req[c] BY <2>1, <2>4
  <2>8. \A f \in Files : f \in req[c].fs => Has(x, f) BY <2>4 DEF Has
  <2>9. \A f \in Files : f \notin req[c].fs => Unlisted(c, f) BY <2>1 DEF Unlisted, Holds
  <2>. QED BY <2>1, <2>2, <2>5, <2>7, <2>8, <2>9, HandGoesOn
<1>3. CASE TripRefused(c)
  <2>1. req[c].pc = "trip" /\ Goto(c, Idle) /\ UNCHANGED <<row, disk, sweep>>
    BY <1>3 DEF TripRefused, Holds
  <2>2. \A f \in Files : ~Has(req[c], f) BY <1>0, <2>1 DEF HandFine, Has
  <2>. QED BY <1>u, <2>1, <2>2, HandEnds
<1>4. ASSUME NEW f \in Files, TripFile(c, f) PROVE HandsGoOn
  <2> DEFINE rest == req[c].fs \ {f}
             x    == IF rest = {} THEN Idle ELSE [req[c] EXCEPT !.fs = rest]
  <2>1. req[c].pc = "files" /\ UNCHANGED <<row, sweep>> /\ Remove({f}) /\ Goto(c, x)
    BY <1>4 DEF TripFile, Holds
  <2>2. x \in Request BY <1>0, <1>i DEF Request
  <2>3. req[c].f = None BY <1>0, <2>1 DEF HandFine
  <2>4. /\ x.f = None /\ x.pc \in {"idle", "files"}
        /\ \A g \in req[c].fs : g # f => x.pc = "files" /\ g \in x.fs
    BY <1>0, <1>i, <2>1, <2>3 DEF Request
  <2> HIDE DEF x
  <2>5. HandFine(c)' BY <1>g, <2>1, <2>4 DEF HandFine
  <2>6. disk'[f] # "kept" BY <2>1 DEF Remove
  <2>7. \A g \in Files : Has(req[c], g) => Has(x, g) \/ disk'[g] # "kept"
    BY <1>0, <2>3, <2>4, <2>6 DEF Has
  <2>. QED BY <1>u, <2>1, <2>2, <2>5, <2>7, HandAlone
<1>. QED BY <1>1, <1>2, <1>3, <1>4 DEF DeleteTrip

\* A step of nobody's request.
LEMMA HandsRest ==
    ASSUME Assumptions, HandsInv, Onwards, UNCHANGED req,
           \A f \in Files : f \in sweep => f \in sweep' \/ disk'[f] = "removed",
           \A r \in Rows, f \in Files : Own[r] = f => Own'[r] = f \/ f \in sweep'
    PROVE  HandsGoOn
<1>1. ASSUME NEW b \in Clients PROVE HandFine(b)'
  <2>1. HandFine(b) /\ Armed(req[b])
    BY DEF HandsInv, FileInv, Typed, HandsFull
  <2>. QED BY <2>1 DEF HandFine, Onwards, Armed
<1>2. ASSUME NEW f \in Files, Accounted(f), disk'[f] = "kept" PROVE Accounted(f)'
  <2>1. f \in sweep \/ (\E c \in Clients : Has(req[c], f)) \/ \E r \in Rows : Own[r] = f
    BY <1>2, AccountedIs
  <2>2. f \in sweep' \/ (\E c \in Clients : Has(req'[c], f)) \/ \E r \in Rows : Own'[r] = f
    BY <1>2, <2>1
  <2>. QED BY <2>2, AccountedNext
<1>3. \A f \in Files : Spared(f) BY <1>2 DEF Spared
<1>. QED BY <1>1, <1>3 DEF HandsGoOn

\* Recognition, the sweeper and a restart.
LEMMA BackgroundHands ==
    ASSUME Assumptions, HandsInv, Onwards, Background
    PROVE  HandsGoOn
<1>0. Typed /\ TypeOK BY DEF HandsInv, FileInv, Typed
<1>u. ASSUME UNCHANGED row PROVE Own' = Own BY <1>u DEF Own, Live
<1>1. ASSUME NEW r \in Rows, OCRRead(r) PROVE HandsGoOn
  BY <1>1, <1>u, HandsRest DEF OCRRead
<1>2. ASSUME NEW r \in Rows, Expire(r) PROVE HandsGoOn
  <2> DEFINE x == [row[r] EXCEPT !.old = TRUE]
  <2>1. r \in Live /\ row[r] \in PaymentRow /\ row[r].draft
    BY <1>0, <1>2, LiveRows DEF Expire, Drafts
  <2>2. x \in PaymentRow /\ x.file = row[r].file BY <2>1 DEF PaymentRow
  <2>3. row' = [row EXCEPT ![r] = x] BY <1>0, <1>2 DEF Expire, TypeOK
  <2> HIDE DEF x
  <2>4. Own' = Own BY <1>0, <2>1, <2>2, <2>3, OwnUpdated
  <2>. QED BY <1>2, <2>4, HandsRest DEF Expire
<1>3. ASSUME NEW key \in Moments \cup {None}, OCRWrite(key) PROVE HandsGoOn
  <2>1. CASE ocr \in Live /\ key # None
    <3> DEFINE x == [row[ocr] EXCEPT !.key = key]
    <3>1. row[ocr] \in PaymentRow /\ ocr \in Rows BY <1>0, <2>1, LiveRows DEF Live
    <3>2. x \in PaymentRow /\ x.file = row[ocr].file BY <3>1 DEF PaymentRow
    <3>3. row' = [row EXCEPT ![ocr] = x] BY <1>0, <1>3, <2>1, <3>1 DEF OCRWrite, TypeOK
    <3> HIDE DEF x
    <3>4. Own' = Own BY <1>0, <2>1, <3>2, <3>3, OwnUpdated
    <3>. QED BY <1>3, <3>4, HandsRest DEF OCRWrite
  <2>2. CASE ~(ocr \in Live /\ key # None)
    BY <1>3, <1>u, <2>2, HandsRest DEF OCRWrite
  <2>. QED BY <2>1, <2>2
<1>4. CASE SweepRows
  <2>1. Expired \in SUBSET Rows /\ \A r \in Expired : Own[r] = row[r].file
    BY DEF Expired, Drafts, Live, Own
  <2>2. /\ row' = [q \in Rows |-> IF q \in Expired THEN Gone ELSE row[q]]
        /\ sweep = {} /\ sweep' = {Own[r] : r \in Expired} /\ UNCHANGED <<disk, req>>
    BY <1>4, <2>1 DEF SweepRows
  <2>3. \A q \in Rows : Own'[q] = IF q \in Expired THEN None ELSE Own[q]
    BY <1>0, <2>1, <2>2, OwnDeleted
  <2>. QED BY <2>2, <2>3, HandsRest
<1>5. ASSUME NEW f \in Files, SweepFile(f) PROVE HandsGoOn
  <2>1. sweep' = sweep \ {f} /\ UNCHANGED <<row, req>> /\ disk'[f] = "removed"
    BY <1>5 DEF SweepFile, Remove
  <2>. QED BY <1>u, <2>1, HandsRest
<1>6. CASE Crash
  <2>1. \A c \in Clients : req'[c] = Idle BY <1>6 DEF Crash
  <2>2. Idle.f = None /\ Idle.pc = "idle" BY DEF Idle
  <2>3. \A c \in Clients : HandFine(c)' BY <2>1, <2>2 DEF HandFine
  <2>. QED BY <1>6, <2>3 DEF HandsGoOn, Spared
<1>. QED BY <1>1, <1>2, <1>3, <1>4, <1>5, <1>6 DEF Background

\* Every step.
LEMMA HandsNext ==
    ASSUME Assumptions, HandsInv, [Next]_vars
    PROVE  HandsGoOn
<1>0. Typed /\ TypeOK /\ Onwards BY GoesOn DEF HandsInv, FileInv, Typed
<1>u. ASSUME UNCHANGED row PROVE Own' = Own BY <1>u DEF Own, Live
<1>1. ASSUME NEW r \in Rows, NEW key \in Moments, EditPayment(r, key) PROVE HandsGoOn
  <2> DEFINE x == [row[r] EXCEPT !.key = key]
  <2>1. r \in Live /\ row[r] \in PaymentRow BY <1>0, <1>1, LiveRows DEF EditPayment
  <2>2. x \in PaymentRow /\ x.file = row[r].file BY <2>1 DEF PaymentRow
  <2>3. row' = [row EXCEPT ![r] = x] BY <1>0, <1>1 DEF EditPayment, TypeOK
  <2> HIDE DEF x
  <2>4. Own' = Own BY <1>0, <2>1, <2>2, <2>3, OwnUpdated
  <2>. QED BY <1>0, <1>1, <2>4, HandsRest DEF EditPayment
<1>2. ASSUME NEW r \in Rows, NEW f \in Files \cup {None}, NEW key \in Moments,
             CreatePayment(r, f, key)
      PROVE  HandsGoOn
  <2> DEFINE x == [file |-> f, sha |-> None, draft |-> FALSE, old |-> FALSE, key |-> key]
  <2>1. x \in PaymentRow BY <1>2 DEF PaymentRow
  <2>2. row[r] = Unborn /\ row' = [row EXCEPT ![r] = x] BY <1>2 DEF CreatePayment, IsNext
  <2> HIDE DEF x
  <2>3. Own' = [Own EXCEPT ![r] = x.file] BY <1>0, <1>2, <2>1, <2>2, OwnWritten
  <2>4. Own[r] = None /\ None \notin Files
    BY <1>2, <2>2 DEF Own, Live, Assumptions, NullsAssumption
  <2>5. \A q \in Rows, g \in Files : Own[q] = g => Own'[q] = g BY <2>3, <2>4 DEF Own
  <2>. QED BY <1>0, <1>2, <2>5, HandsRest DEF CreatePayment
<1>3. CASE UNCHANGED vars BY <1>0, <1>3, <1>u, HandsRest DEF vars
<1>. QED
  BY <1>0, <1>1, <1>2, <1>3, UploadHands, ConfirmHands, DiscardHands, TripHands,
     BackgroundHands
     DEF Next

\* A file that a row points to, or that a request or the sweeper is busy with,
\* is removed before the last of them lets go of it, whatever else happens in
\* between and whichever statement fails: what remains are a process that dies,
\* a request that writes by what it has read of a row that has changed, and a
\* trip that is deleted with payments its list does not have.
THEOREM FilesAreAccountedFor == Spec => NoFileIsForgotten
<1>. Assumptions
  BY RowsAssumption, MomentsAssumption, NullsAssumption DEF Assumptions
<1>1. ASSUME Init PROVE HandsInv
  <2>1. Idle.f = None /\ Idle.pc = "idle" BY DEF Idle
  <2>2. \A c \in Clients : HandFine(c) BY <1>1, <2>1 DEF Init, HandFine
  <2>. QED BY <1>1, <2>2, FilesInit DEF HandsInv
<1>2. ASSUME HandsInv, [Next]_vars PROVE HandsInv' /\ HandsGoOn
  <2>1. HandsGoOn BY <1>2, HandsNext
  <2>2. FileInv' BY <1>2, FilesStep DEF HandsInv
  <2>. QED BY <2>1, <2>2 DEF HandsGoOn, HandsInv
<1>3. HandsInv /\ [Next]_vars => [\A f \in Files :
          disk[f] = "kept" /\ Accounted(f) /\ disk'[f] = "kept" /\ ~Accounted(f)'
            => \/ Crash
               \/ \E c \in Clients : (Outdated(c) \/ Unlisted(c, f)) /\ req'[c] # req[c]]_vars
  BY <1>2 DEF HandsGoOn, Spared
<1>. QED BY <1>1, <1>2, <1>3, PTL DEF Spec, NoFileIsForgotten

=============================================================================
