----------------------------- MODULE TripLedger -----------------------------
(****************************************************************************)
(* The trips, payments and invoices of one user: trip edits that reassign   *)
(* payments (services/trip.go, trip_assignment.go), the pending list        *)
(* (trip_pending.go), payment and invoice edits (payment.go, invoice.go)    *)
(* and the cached bad_debt_locked flag of a trip (bad_debt.go).             *)
(*                                                                          *)
(* A transaction, or a statement outside one, is one atomic step.  A        *)
(* request that reads, commits and then refreshes the flag takes several,   *)
(* the requests of the user's tabs interleave between them, and any of them *)
(* may end early: a statement fails, or the process is killed.              *)
(****************************************************************************)
EXTENDS Naturals

CONSTANTS
    Trips, Payments, Invoices,  \* row ids (UUIDs: never used twice)
    Windows,        \* pairs <<start_time_ts, end_time_ts>>
    Times,          \* values of transaction_time_ts
    Patches,        \* bodies of PUT /payments/:id
    Clients,        \* concurrent requests
    Unborn, Gone,   \* a row before INSERT, and after DELETE
    None,           \* NULL in a column; "" in a request
    Keep,           \* a field the request does not carry
    MaxRequests     \* bound on the requests made

PaymentRow ==
    [at: Times, trip: Trips \cup {None}, src: {"auto", "manual", "blocked"},
     state: {"assigned", "no_match", "overlap", "blocked"},
     bad: BOOLEAN, draft: BOOLEAN,
     scan: BOOLEAN]     \* it started as a screenshot, sent to OCR
InvoiceRow == [ptr: Payments \cup {None}, bad: BOOLEAN, draft: BOOLEAN]
PatchType ==
    [at: Times \cup {Keep}, trip: Trips \cup {None, Keep},
     src: {"keep", "auto", "manual", "blocked"},
     bad: BOOLEAN \cup {Keep}, confirm: BOOLEAN]

ASSUME WindowsAssumption == \A w \in Windows : w \in Nat \X Nat /\ w[1] <= w[2]
ASSUME TimesAssumption   == Times \subseteq Nat
ASSUME RowsAssumption    ==
    /\ Unborn # Gone
    /\ \A v \in {Unborn, Gone} :
          v \notin Windows /\ v \notin PaymentRow /\ v \notin InvoiceRow
    /\ \A v \in {None, Keep} :
          v \notin Trips /\ v \notin Payments /\ v \notin Invoices /\ v \notin Times
    /\ Keep # None
    /\ Keep \notin BOOLEAN
ASSUME PatchesAssumption == Patches \subseteq PatchType
ASSUME BoundAssumption   == MaxRequests \in Nat

VARIABLES
    window,     \* table trips: start_time_ts, end_time_ts
    locked,     \* trips whose column bad_debt_locked is set
    pay,        \* table payments
    inv,        \* table invoices; ptr is the legacy column payment_id
    link,       \* table invoice_payment_links (unique index on invoice_id)
    req,        \* requests between two of their statements
    \* history and bound
    doubt,      \* trips whose flag was left behind: the refresh that was due
                \* never came, or an outdated count was written over it
    canceled,   \* drafts removed by cancelling their upload
    outdated,   \* payments updated from a trip read before it changed
    asked       \* requests made

tables  == <<window, locked, pay, inv, link>>
history == <<doubt, canceled, outdated>>
vars == <<tables, req, history, asked>>

PCs == {"idle", "update", "reread", "assign", "delpay", "updinv", "delinv",
        "linked", "pending", "recalc", "flag"}

\* p, i, t: rows in hand; at: time of the payment read; todo: trips whose flag
\* is to be refreshed; flag: the value computed; auto: autoAssign follows.
Request == [pc: PCs, p: Payments \cup {None, Keep}, i: Invoices \cup {None},
            t: Trips \cup {None}, at: Times \cup {None}, todo: SUBSET Trips,
            flag: BOOLEAN, auto: BOOLEAN]

Idle == [pc |-> "idle", p |-> None, i |-> None, t |-> None, at |-> None,
         todo |-> {}, flag |-> FALSE, auto |-> FALSE]

TypeOK ==
    /\ window \in [Trips -> Windows \cup {Unborn, Gone}]
    /\ locked \subseteq Trips
    /\ pay \in [Payments -> PaymentRow \cup {Unborn, Gone}]
    /\ inv \in [Invoices -> InvoiceRow \cup {Unborn, Gone}]
    /\ link \in [Invoices -> Payments \cup {None}]
    /\ req \in [Clients -> Request]
    /\ doubt \subseteq Trips
    /\ canceled \subseteq Payments
    /\ outdated \subseteq Payments
    /\ asked \in Nat

Init ==
    /\ window = [t \in Trips |-> Unborn]
    /\ locked = {}
    /\ pay = [p \in Payments |-> Unborn]
    /\ inv = [i \in Invoices |-> Unborn]
    /\ link = [i \in Invoices |-> None]
    /\ req = [c \in Clients |-> Idle]
    /\ doubt = {} /\ canceled = {} /\ outdated = {}
    /\ asked = 0

Exists(row) == row \notin {Unborn, Gone}
LivePayments == {p \in Payments : Exists(pay[p])}
LiveInvoices == {i \in Invoices : Exists(inv[i])}
LiveTrips    == {t \in Trips : Exists(window[t])}
Confirmed(p) == p \in LivePayments /\ ~pay[p].draft
ConfirmedUnder(t) == {p \in Payments : Confirmed(p) /\ pay[p].trip = t}

Step(c, from, to) ==
    /\ req[c].pc = from
    /\ req' = [req EXCEPT ![c] = to]
    /\ IF from = "idle" THEN asked < MaxRequests /\ asked' = asked + 1
                        ELSE UNCHANGED asked

\* What is left of the request: the flags of the trips in S.
Recalc(S) == IF S = {} THEN Idle ELSE [Idle EXCEPT !.pc = "recalc", !.todo = S]

\* The trip of a row read, as the set of trips to refresh.
TripOf(p) == IF p \in LivePayments THEN {pay[p].trip} \ {None} ELSE {}

-----------------------------------------------------------------------------
(* Automatic assignment.                                                    *)

\* start_time_ts <= at AND end_time_ts > at
Cover(w, at) == {t \in Trips : Exists(w[t]) /\ w[t][1] <= at /\ at < w[t][2]}

\* One trip is a match, several are an overlap.
Matched(w, row, at) ==
    LET ts == Cover(w, at)
    IN  IF \E t \in Trips : ts = {t}
          THEN [row EXCEPT !.trip = CHOOSE t \in ts : TRUE, !.state = "assigned"]
          ELSE [row EXCEPT !.trip = None,
                           !.state = IF ts = {} THEN "no_match" ELSE "overlap"]

\* recomputeAutoAssignmentsForRangeTx: the automatic payments with lo <= at < hi.
InRangeAnySource(P, lo, hi) ==
    {p \in Payments : Exists(P[p]) /\ lo <= P[p].at /\ P[p].at < hi}
InRange(P, lo, hi) ==
    {p \in Payments : Exists(P[p]) /\ P[p].src = "auto" /\ lo <= P[p].at /\ P[p].at < hi}

Recompute(w, P, lo, hi) ==
    [p \in Payments |->
        IF p \in InRange(P, lo, hi) THEN Matched(w, P[p], P[p].at) ELSE P[p]]

\* The trips whose flag it asks to refresh: those a bad debt left or entered.
AffectedOnlyLeft(w, P, lo, hi) ==
    {P[p].trip : p \in {q \in InRange(P, lo, hi) : P[q].bad}} \ {None}
Affected(w, P, lo, hi) ==
    (UNION {{P[p].trip, Recompute(w, P, lo, hi)[p].trip} :
                p \in {q \in InRange(P, lo, hi) : P[q].bad}}) \ {None}

-----------------------------------------------------------------------------
(* The bad-debt flag.  Both functions count the same three ways; one read   *)
(* stands for the three counts.                                             *)

BadUnderCached(t) == t \in locked
BadUnder(t) ==
    \/ \E p \in ConfirmedUnder(t) : pay[p].bad
    \/ \E i \in LiveInvoices, p \in ConfirmedUnder(t) :
          inv[i].bad /\ ~inv[i].draft /\ (link[i] = p \/ inv[i].ptr = p)

\* recalcTripBadDebtLocked: count, then UPDATE trips in a statement of its own.
CountBadDebt(c) ==
    /\ \E t \in req[c].todo :
          Step(c, "recalc",
               [req[c] EXCEPT !.pc = "flag", !.t = t, !.todo = @ \ {t}, !.flag = BadUnder(t)])
    /\ UNCHANGED <<tables, history>>

SetFlag(t, flag) ==
    locked' = IF flag /\ t \in LiveTrips THEN locked \cup {t} ELSE locked \ {t}

\* The count may be outdated by the time it is written.
WriteFlag(c) ==
    LET t == req[c].t IN
    /\ Step(c, "flag", Recalc(req[c].todo))
    /\ SetFlag(t, req[c].flag)
    /\ doubt' = IF ~req[c].flag /\ BadUnder(t) THEN doubt \cup {t} ELSE doubt \ {t}
    /\ UNCHANGED <<window, pay, inv, link, canceled, outdated>>

\* The trips that request c will still find bad, or already counted as bad.
Owed(c) ==
    CASE req[c].pc = "recalc" -> req[c].todo
      [] req[c].pc = "flag"   -> req[c].todo \cup (IF req[c].flag THEN {req[c].t} ELSE {})
      [] req[c].pc \in {"reread", "assign"} -> TripOf(req[c].p)
      [] OTHER                -> {}

\* A statement after the commit fails - the trip handlers drop the error, the
\* others report it - or the process is killed, which ends every request: no
\* refresh follows, and nothing repeats it.
RequestEnds(c) ==
    /\ req[c].pc # "idle"
    /\ Step(c, req[c].pc, Idle)
    /\ doubt' = doubt \cup Owed(c)
    /\ UNCHANGED <<tables, canceled, outdated>>

-----------------------------------------------------------------------------
(* Trips: each handler is one transaction; the flags follow it.             *)

CreateTrip(c, t, w) ==
    /\ window[t] = Unborn
    /\ window' = [window EXCEPT ![t] = w]
    /\ pay' = Recompute(window', pay, w[1], w[2])
    /\ Step(c, "idle", Recalc(Affected(window', pay, w[1], w[2])))
    /\ UNCHANGED <<locked, inv, link, history>>

Least(a, b) == IF a < b THEN a ELSE b
Largest(a, b) == IF a > b THEN a ELSE b

\* The range of both windows is recomputed.
NewRange(old, w) == w
EditRange(old, w) == <<Least(old[1], w[1]), Largest(old[2], w[2])>>

UpdateTrip(c, t, w) ==
    /\ t \in LiveTrips
    /\ window' = [window EXCEPT ![t] = w]
    /\ LET r == EditRange(window[t], w)
       IN  /\ pay' = Recompute(window', pay, r[1], r[2])
           /\ Step(c, "idle", Recalc(Affected(window', pay, r[1], r[2])))
    /\ UNCHANGED <<locked, inv, link, history>>

\* DELETE /trips/:id with the payments: they go, with the invoices linked to
\* them (an invoice has one link, so none stays linked elsewhere), and the
\* window is recomputed.
DeleteTripCascade(c, t) ==
    LET dead == ConfirmedUnder(t)
        left == [p \in Payments |-> IF p \in dead THEN Gone ELSE pay[p]]
        cut  == {i \in Invoices : link[i] \in dead}
        lo   == window[t][1]
        hi   == window[t][2]
    IN  /\ t \in LiveTrips
        /\ ~BadUnder(t)
        /\ window' = [window EXCEPT ![t] = Gone]
        /\ locked' = locked \ {t}
        /\ inv' = [i \in Invoices |-> IF i \in cut /\ Exists(inv[i]) THEN Gone ELSE inv[i]]
        /\ link' = [i \in Invoices |-> IF i \in cut THEN None ELSE link[i]]
        /\ pay' = Recompute(window', left, lo, hi)
        /\ Step(c, "idle", Recalc(Affected(window', left, lo, hi)))
        /\ UNCHANGED history

\* ... and without them: the confirmed ones go back to the pending list, and
\* nothing is recomputed.
ReleasedStateKept(row) == [row EXCEPT !.trip = None, !.src = "manual"]
Released(row) == [row EXCEPT !.trip = None, !.src = "manual", !.state = "no_match"]

DeleteTripKeep(c, t) ==
    /\ t \in LiveTrips
    /\ ~BadUnder(t)
    /\ window' = [window EXCEPT ![t] = Gone]
    /\ locked' = locked \ {t}
    /\ pay' = [p \in Payments |-> IF p \in ConfirmedUnder(t) THEN Released(pay[p]) ELSE pay[p]]
    /\ Step(c, "idle", Idle)
    /\ UNCHANGED <<inv, link, history>>

\* ?deletePayments decides; a locked trip is refused either way.
DeleteTrip(c, t) == DeleteTripCascade(c, t) \/ DeleteTripKeep(c, t)

-----------------------------------------------------------------------------
(* The pending list.                                                        *)

\* AssignPendingPayment: the trip is looked up, then the payment is updated.
AssignPending(c, p, t) ==
    /\ t \in LiveTrips
    /\ p \in LivePayments
    /\ Step(c, "idle", [Idle EXCEPT !.pc = "pending", !.p = p, !.t = t])
    /\ UNCHANGED <<tables, history>>

AssignPendingCommit(c) ==
    LET p == req[c].p IN
    /\ pay' = IF p \in LivePayments
                THEN [pay EXCEPT ![p].trip = req[c].t, ![p].src = "manual",
                                 ![p].state = "assigned"]
                ELSE pay
    /\ Step(c, "pending", Recalc({req[c].t}))
    /\ UNCHANGED <<window, locked, inv, link, history>>

BlockPending(c, p) ==
    /\ p \in LivePayments
    /\ pay' = [pay EXCEPT ![p].trip = None, ![p].src = "blocked", ![p].state = "blocked"]
    /\ Step(c, "idle", Idle)
    /\ UNCHANGED <<window, locked, inv, link, history>>

-----------------------------------------------------------------------------
(* Payments.                                                                *)

NewPayment(at, draft) ==
    [at |-> at, trip |-> None, src |-> "auto", state |-> "no_match",
     bad |-> FALSE, draft |-> draft, scan |-> draft]

CreatePayment(c, p, at) ==
    /\ pay[p] = Unborn
    /\ pay' = [pay EXCEPT ![p] = Matched(window, NewPayment(at, FALSE), at)]
    /\ Step(c, "idle", Idle)
    /\ UNCHANGED <<window, locked, inv, link, history>>

\* The upload of a screenshot stores a draft at the current time.
UploadDraft(c, p, at) ==
    /\ pay[p] = Unborn
    /\ pay' = [pay EXCEPT ![p] = NewPayment(at, TRUE)]
    /\ Step(c, "idle", Idle)
    /\ UNCHANGED <<window, locked, inv, link, history>>

\* The OCR worker rewrites the time it read off the screenshot, and only that.
OCRSetsTime(p, at) ==
    /\ p \in LivePayments /\ pay[p].scan
    /\ pay' = [pay EXCEPT ![p].at = at]
    /\ UNCHANGED <<window, locked, inv, link, req, history, asked>>

\* Update first reads the row ...
ReadBefore(c, p) ==
    /\ p \in LivePayments
    /\ Step(c, "idle",
            [Idle EXCEPT !.pc = "update", !.p = p, !.t = pay[p].trip,
                         !.todo = IF pay[p].bad THEN TripOf(p) ELSE {}])
    /\ UNCHANGED <<tables, history>>

\* ... and derives the columns from the request and what it read.
PatchSource(patch) ==
    CASE patch.src # "keep"  -> patch.src
      [] patch.src = "keep" /\ patch.trip = None -> "blocked"
      [] patch.src = "keep" /\ patch.trip \in Trips -> "manual"
      [] OTHER               -> "keep"

Patched(row, patch, before) ==
    LET src  == PatchSource(patch)
        trip == IF patch.trip = Keep THEN before ELSE patch.trip
    IN  [at    |-> IF patch.at = Keep THEN row.at ELSE patch.at,
         trip  |-> IF src = "blocked" THEN None
                   ELSE IF patch.trip = Keep THEN row.trip ELSE patch.trip,
         src   |-> IF src = "keep" THEN row.src ELSE src,
         state |-> CASE src = "blocked" -> "blocked"
                     [] src = "manual"  -> IF trip = None THEN "no_match" ELSE "assigned"
                     [] OTHER           -> row.state,
         bad   |-> IF patch.bad = Keep THEN row.bad ELSE patch.bad,
         draft |-> row.draft /\ ~patch.confirm,
         scan  |-> row.scan]

UpdateCommit(c, patch) ==
    LET p == req[c].p IN
    /\ patch.trip \in Trips => window[patch.trip] # Unborn
    /\ IF p \in LivePayments
         THEN /\ pay' = [pay EXCEPT ![p] = Patched(pay[p], patch, req[c].t)]
              /\ Step(c, "update",
                      [req[c] EXCEPT !.pc = "reread", !.t = None,
                                     !.auto = patch.at # Keep \/ patch.confirm])
              /\ outdated' = IF pay[p].trip # req[c].t THEN outdated \cup {p} ELSE outdated
         ELSE Step(c, "update", Idle) /\ UNCHANGED <<pay, outdated>>
    /\ UNCHANGED <<window, locked, inv, link, doubt, canceled>>

\* Update reads the row again, before and after the automatic assignment.
ReadAfter(c) ==
    LET p == req[c].p IN
    /\ Step(c, "reread",
            IF p \notin LivePayments THEN Idle
            ELSE IF req[c].auto /\ pay[p].src = "auto"
              THEN [req[c] EXCEPT !.pc = "assign", !.at = pay[p].at]
              ELSE Recalc(req[c].todo \cup (IF pay[p].bad THEN TripOf(p) ELSE {})))
    /\ UNCHANGED <<tables, history>>

\* autoAssignPaymentTx works on the row that was read, not on the row there is.
AutoAssign(c) ==
    LET p == req[c].p IN
    /\ Step(c, "assign", [req[c] EXCEPT !.pc = "reread", !.at = None, !.auto = FALSE])
    /\ pay' = IF p \in LivePayments
                THEN [pay EXCEPT ![p] = [Matched(window, @, req[c].at) EXCEPT !.src = "auto"]]
                ELSE pay
    /\ UNCHANGED <<window, locked, inv, link, history>>

DeletePayment(c, p) ==
    /\ p \in LivePayments
    /\ Step(c, "idle", [Idle EXCEPT !.pc = "delpay", !.p = p, !.todo = TripOf(p)])
    /\ UNCHANGED <<tables, history>>

\* The links go with the row; invoices.payment_id stays.
CutNone(p) == link
CutLinks(p) == [i \in Invoices |-> IF link[i] = p THEN None ELSE link[i]]

DeletePaymentCommit(c) ==
    LET p == req[c].p IN
    /\ IF p \in LivePayments
         THEN /\ pay' = [pay EXCEPT ![p] = Gone]
              /\ link' = CutLinks(p)
              /\ Step(c, "delpay", Recalc(req[c].todo))
         ELSE Step(c, "delpay", Idle) /\ UNCHANGED <<pay, link>>
    /\ UNCHANGED <<window, locked, inv, history>>

\* DELETE /payments/upload-screenshot/cancel: a bare DELETE of the draft with
\* that file, which leaves its links alone.
CancelUpload(c, p) ==
    /\ p \in LivePayments /\ pay[p].draft
    /\ pay' = [pay EXCEPT ![p] = Gone]
    /\ canceled' = canceled \cup {p}
    /\ Step(c, "idle", Idle)
    /\ UNCHANGED <<window, locked, inv, link, doubt, outdated>>

\* The sweeper removes drafts that are too old, with their links.
SweepDrafts(P, I) ==
    /\ pay' = [p \in Payments |-> IF p \in P THEN Gone ELSE pay[p]]
    /\ inv' = [i \in Invoices |-> IF i \in I THEN Gone ELSE inv[i]]
    /\ link' = [i \in Invoices |-> IF i \in I \/ link[i] \in P THEN None ELSE link[i]]
    /\ UNCHANGED <<window, locked, req, history, asked>>

Drafts == {p \in LivePayments : pay[p].draft}
InvoiceDrafts == {i \in LiveInvoices : inv[i].draft}

-----------------------------------------------------------------------------
(* Invoices.                                                                *)

\* The trips an invoice hangs on, through its link and through payment_id.
TripsOf(i) ==
    UNION {TripOf(p) : p \in {q \in LivePayments : link[i] = q \/ inv[i].ptr = q}}

\* Create, with or without the payment it belongs to.
CreateInvoice(c, i, p, draft) ==
    /\ inv[i] = Unborn
    /\ p = None \/ Confirmed(p)
    /\ inv' = [inv EXCEPT ![i] = [ptr |-> p, bad |-> FALSE, draft |-> draft]]
    /\ link' = [link EXCEPT ![i] = p]
    /\ Step(c, "idle", Idle)
    /\ UNCHANGED <<window, locked, pay, history>>

\* Update reads the trips of the invoice and checks the new payment first.
ReadInvoice(c, i, ptr) ==
    /\ i \in LiveInvoices
    /\ ptr \in {Keep, None} \/ Confirmed(ptr)
    /\ Step(c, "idle", [Idle EXCEPT !.pc = "updinv", !.i = i, !.p = ptr,
                                    !.todo = TripsOf(i) \cup TripOf(ptr)])
    /\ UNCHANGED <<tables, history>>

\* Confirming alone refreshes no flag.
UpdateInvoiceCommit(c, bad, confirm) ==
    LET i == req[c].i
        ptr == req[c].p
    IN
    /\ IF i \in LiveInvoices
         THEN /\ inv' = [inv EXCEPT ![i] =
                   [ptr   |-> IF ptr = Keep THEN @.ptr ELSE ptr,
                    bad   |-> IF bad = Keep THEN @.bad ELSE bad,
                    draft |-> @.draft /\ ~confirm]]
              /\ Step(c, "updinv",
                      Recalc(IF bad = Keep /\ ptr = Keep THEN {} ELSE req[c].todo))
         ELSE Step(c, "updinv", Idle) /\ UNCHANGED inv
    /\ UNCHANGED <<window, locked, pay, link, history>>

DeleteInvoice(c, i) ==
    /\ i \in LiveInvoices
    /\ Step(c, "idle", [Idle EXCEPT !.pc = "delinv", !.i = i, !.todo = TripsOf(i)])
    /\ UNCHANGED <<tables, history>>

DeleteInvoiceCommit(c) ==
    LET i == req[c].i IN
    /\ IF i \in LiveInvoices
         THEN /\ inv' = [inv EXCEPT ![i] = Gone]
              /\ link' = [link EXCEPT ![i] = None]
              /\ Step(c, "delinv", Recalc(req[c].todo))
         ELSE Step(c, "delinv", Idle) /\ UNCHANGED <<inv, link>>
    /\ UNCHANGED <<window, locked, pay, history>>

\* LinkPayment: both rows are checked, and that the invoice has no link yet.
Linkable(i, p) == i \in LiveInvoices /\ p \in LivePayments /\ link[i] = None

LinkPayment(c, i, p) ==
    /\ Linkable(i, p)
    /\ link' = [link EXCEPT ![i] = p]
    /\ inv' = [inv EXCEPT ![i].ptr = p]
    /\ Step(c, "idle", [Idle EXCEPT !.pc = "linked", !.i = i, !.p = p])
    /\ UNCHANGED <<window, locked, pay, history>>

\* UnlinkPayment clears payment_id whether or not that link was there.
UnlinkPayment(c, i, p) ==
    /\ i \in LiveInvoices
    /\ p \in LivePayments
    /\ link' = [link EXCEPT ![i] = IF @ = p THEN None ELSE @]
    /\ inv' = [inv EXCEPT ![i].ptr = None]
    /\ Step(c, "idle", [Idle EXCEPT !.pc = "linked", !.i = i, !.p = p])
    /\ UNCHANGED <<window, locked, pay, history>>

\* Both then refresh the trip of the payment, for a bad invoice.
ReadLinked(c) ==
    LET i == req[c].i IN
    /\ Step(c, "linked",
            Recalc(IF i \in LiveInvoices /\ inv[i].bad THEN TripOf(req[c].p) ELSE {}))
    /\ UNCHANGED <<tables, history>>

-----------------------------------------------------------------------------
TripStep(c) ==
    \E t \in Trips :
        \/ \E w \in Windows : CreateTrip(c, t, w) \/ UpdateTrip(c, t, w)
        \/ DeleteTrip(c, t)
        \/ \E p \in Payments : AssignPending(c, p, t)

PaymentStep(c) ==
    \/ \E p \in Payments :
          \/ \E at \in Times : CreatePayment(c, p, at) \/ UploadDraft(c, p, at)
          \/ BlockPending(c, p) \/ ReadBefore(c, p) \/ DeletePayment(c, p)
          \/ CancelUpload(c, p)
    \/ \E patch \in Patches : UpdateCommit(c, patch)
    \/ AssignPendingCommit(c) \/ ReadAfter(c) \/ AutoAssign(c) \/ DeletePaymentCommit(c)

InvoiceStep(c) ==
    \/ \E i \in Invoices :
          \/ \E p \in Payments \cup {None}, draft \in BOOLEAN : CreateInvoice(c, i, p, draft)
          \/ \E p \in Payments \cup {None, Keep} : ReadInvoice(c, i, p)
          \/ \E p \in Payments : LinkPayment(c, i, p) \/ UnlinkPayment(c, i, p)
          \/ DeleteInvoice(c, i)
    \/ \E bad \in BOOLEAN \cup {Keep}, confirm \in BOOLEAN : UpdateInvoiceCommit(c, bad, confirm)
    \/ DeleteInvoiceCommit(c) \/ ReadLinked(c)

FlagStep(c) == CountBadDebt(c) \/ WriteFlag(c) \/ RequestEnds(c)

Next ==
    \/ \E c \in Clients : TripStep(c) \/ PaymentStep(c) \/ InvoiceStep(c) \/ FlagStep(c)
    \/ \E p \in Payments, at \in Times : OCRSetsTime(p, at)
    \/ \E P \in SUBSET Drafts, I \in SUBSET InvoiceDrafts :
          P \cup I # {} /\ SweepDrafts(P, I)

Spec == Init /\ [][Next]_vars

-----------------------------------------------------------------------------
(* Properties *)

\* A link joins an invoice and a payment that both exist, whatever requests of
\* the two sides and the sweeper remove in the meantime.  The one exception is a
\* draft whose upload was cancelled after it had been linked: its link stays,
\* and only with it.
LinksExist ==
    \A i \in Invoices :
        link[i] # None => i \in LiveInvoices /\ link[i] \in LivePayments \cup canceled

\* Deleting a trip, with its payments or without, removes no confirmed record
\* that is marked as bad debt: the refusal, the cascade over links and the
\* stale flag work out, in every interleaving.
TripDeletion == \E c \in Clients, t \in Trips : DeleteTrip(c, t)
BadDebtSurvivesTrips ==
    [][TripDeletion =>
          /\ \A p \in LivePayments : ~pay[p].draft /\ pay[p].bad => Exists(pay'[p])
          /\ \A i \in LiveInvoices : ~inv[i].draft /\ inv[i].bad => Exists(inv'[i])]_vars

\* What the user decided by hand survives every edit of a trip: only the removal
\* of its own trip takes a manual payment away, and a blocked one stays.
ManualSurvivesTripEdits ==
    [][window' # window =>
          \A p \in LivePayments :
             pay[p].src # "auto" =>
                \/ pay'[p] = pay[p]
                \/ pay[p].trip \in LiveTrips /\ window'[pay[p].trip] = Gone]_vars

\* Creating, moving or removing a trip with its payments leaves no automatic
\* payment behind with the trip, or the state, of the old calendar.
Agrees(w, row) == row.src = "auto" => row = Matched(w, row, row.at)
CalendarEdit ==
    \E c \in Clients, t \in Trips :
        \/ \E w \in Windows : CreateTrip(c, t, w) \/ UpdateTrip(c, t, w)
        \/ DeleteTripCascade(c, t)
EditsReassign ==
    [][CalendarEdit =>
          \A p \in LivePayments :
             Agrees(window, pay[p]) /\ Exists(pay'[p]) => Agrees(window', pay'[p])]_vars

\* However the requests of several tabs overlap, a blocked payment has no trip,
\* and a manual one is "assigned" exactly when it has a trip ("no_match" is how
\* the pending list knows a manual payment that lost its trip) - but for a
\* payment updated by a request that had read it before its trip changed.
SourceStateAgree ==
    \A p \in LivePayments :
        /\ pay[p].src = "blocked" => pay[p].trip = None /\ pay[p].state = "blocked"
        /\ pay[p].src = "manual" /\ p \notin outdated =>
              pay[p].state = IF pay[p].trip = None THEN "no_match" ELSE "assigned"

\* A trip with a confirmed bad-debt payment has its flag, whichever of the
\* user's requests brought the payment there, or one of them will still set it.
\* What breaks it is named: a refresh that was due and got lost, and a count
\* written after it was outdated.  No refresh is forgotten.
BadPaymentLocksTrip ==
    \A t \in LiveTrips :
        (\E p \in ConfirmedUnder(t) : pay[p].bad)
            => t \in locked \cup doubt \cup UNION {Owed(c) : c \in Clients}
=============================================================================
