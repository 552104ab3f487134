-------------------------- MODULE TripLedgerProofs --------------------------
(* Proofs about TripLedger, for any number of trips, payments, invoices and *)
(* concurrent requests, any windows and any times.                          *)
EXTENDS TripLedger, TLAPS

Assumptions == WindowsAssumption /\ TimesAssumption /\ RowsAssumption /\ PatchesAssumption

\* A pending assignment, and a refresh, have their trip in hand.
TripInHand == \A c \in Clients : req[c].pc \in {"pending", "flag"} => req[c].t # None

IInv == TypeOK /\ TripInHand /\ LinksExist

PayType == [Payments -> PaymentRow \cup {Unborn, Gone}]
ReqType == [Clients -> Request]
RequestsOK == req \in ReqType /\ TripInHand /\ asked \in Nat

-----------------------------------------------------------------------------
(* The helpers of the handlers. *)

\* A row is a row: it is neither absent nor deleted.
LEMMA RowsExist ==
    ASSUME NEW row \in PaymentRow \cup InvoiceRow \cup Windows
    PROVE  Exists(row)
BY RowsAssumption DEF Exists

\* Whatever exists has the columns of its table.
LEMMA LiveRows ==
    ASSUME TypeOK
    PROVE  /\ \A p \in LivePayments : pay[p] \in PaymentRow
           /\ \A i \in LiveInvoices : inv[i] \in InvoiceRow
           /\ \A t \in LiveTrips : window[t] \in Windows
BY DEF TypeOK, LivePayments, LiveInvoices, LiveTrips, Exists

\* Automatic assignment rewrites the trip and the state, nothing else.
LEMMA MatchedRow ==
    ASSUME NEW w, NEW row \in PaymentRow, NEW at
    PROVE  /\ Matched(w, row, at) \in PaymentRow
           /\ Matched(w, row, at).at = row.at
           /\ Matched(w, row, at).src = row.src
           /\ Matched(w, row, at).bad = row.bad
           /\ Matched(w, row, at).draft = row.draft
<1> DEFINE ts == Cover(w, at)
<1>1. CASE \E t \in Trips : ts = {t}
  <2>1. PICK t \in Trips : ts = {t} BY <1>1
  <2>2. (CHOOSE u \in ts : TRUE) = t BY <2>1
  <2>3. Matched(w, row, at) = [row EXCEPT !.trip = t, !.state = "assigned"]
    BY <1>1, <2>2 DEF Matched
  <2>. QED BY <2>3 DEF PaymentRow
<1>2. CASE ~\E t \in Trips : ts = {t}
  <2>1. Matched(w, row, at) =
          [row EXCEPT !.trip = None, !.state = IF ts = {} THEN "no_match" ELSE "overlap"]
    BY <1>2 DEF Matched
  <2>. QED BY <2>1 DEF PaymentRow
<1>. QED BY <1>1, <1>2

\* A recomputation keeps every payment, and changes automatic ones only.
LEMMA RecomputedRows ==
    ASSUME NEW w, NEW P \in PayType, NEW lo, NEW hi
    PROVE  /\ Recompute(w, P, lo, hi) \in PayType
           /\ \A p \in Payments :
                /\ Exists(Recompute(w, P, lo, hi)[p]) <=> Exists(P[p])
                /\ Exists(P[p]) /\ P[p].src # "auto" => Recompute(w, P, lo, hi)[p] = P[p]
<1> DEFINE R == Recompute(w, P, lo, hi)
<1>1. ASSUME NEW p \in Payments
      PROVE  /\ R[p] \in PaymentRow \cup {Unborn, Gone}
             /\ Exists(R[p]) <=> Exists(P[p])
             /\ Exists(P[p]) /\ P[p].src # "auto" => R[p] = P[p]
  <2>1. CASE p \in InRange(P, lo, hi)
    <3>1. P[p] \in PaymentRow /\ Exists(P[p]) /\ P[p].src = "auto"
      BY <2>1 DEF InRange, PayType, Exists
    <3>2. R[p] = Matched(w, P[p], P[p].at) BY <2>1 DEF Recompute
    <3>3. R[p] \in PaymentRow BY <3>1, <3>2, MatchedRow
    <3>. QED BY <3>1, <3>3, RowsExist
  <2>2. CASE p \notin InRange(P, lo, hi)
    <3>1. R[p] = P[p] BY <2>2 DEF Recompute
    <3>. QED BY <3>1 DEF PayType
  <2>. QED BY <2>1, <2>2
<1>2. R = [p \in Payments |-> R[p]] BY DEF Recompute
<1>. QED BY <1>1, <1>2 DEF PayType

\* Only trips are asked for a refresh.
LEMMA AffectedAreTrips ==
    ASSUME NEW w, NEW P \in PayType, NEW lo, NEW hi
    PROVE  Affected(w, P, lo, hi) \subseteq Trips
<1> SUFFICES ASSUME NEW t \in Affected(w, P, lo, hi) PROVE t \in Trips
  OBVIOUS
<1>1. PICK p \in InRange(P, lo, hi) : t \in {P[p].trip, Recompute(w, P, lo, hi)[p].trip}
  BY DEF Affected
<1>2. p \in Payments /\ P[p] \in PaymentRow BY <1>1 DEF InRange, PayType, Exists
<1>3. Recompute(w, P, lo, hi)[p] = Matched(w, P[p], P[p].at) BY <1>1, <1>2 DEF Recompute
<1>4. Recompute(w, P, lo, hi)[p] \in PaymentRow BY <1>2, <1>3, MatchedRow
<1>5. t \in Trips \cup {None} BY <1>1, <1>2, <1>4 DEF PaymentRow
<1>6. t # None BY DEF Affected
<1>. QED BY <1>5, <1>6

LEMMA TripOfIsTrips ==
    ASSUME TypeOK, NEW p
    PROVE  TripOf(p) \subseteq Trips
BY LiveRows DEF TripOf, PaymentRow

LEMMA TripsOfIsTrips ==
    ASSUME TypeOK, NEW i
    PROVE  TripsOf(i) \subseteq Trips
BY TripOfIsTrips DEF TripsOf

\* What a request holds after a step.
LEMMA RecalcRequest ==
    ASSUME NEW T \in SUBSET Trips
    PROVE  Recalc(T) \in Request /\ Recalc(T).pc \notin {"pending", "flag"}
BY DEF Recalc, Idle, Request, PCs

LEMMA IdleRequest == Idle \in Request /\ Idle.pc \notin {"pending", "flag"}
BY DEF Idle, Request, PCs

LEMMA StepRequest ==
    ASSUME TypeOK, TripInHand, NEW c \in Clients, NEW from, NEW to \in Request,
           to.pc \in {"pending", "flag"} => to.t # None, Step(c, from, to)
    PROVE  RequestsOK'
BY DEF TypeOK, TripInHand, RequestsOK, Step, ReqType

-----------------------------------------------------------------------------
(* Each action keeps the types and the links. *)

\* Trips whose flag is set are trips.
LEMMA LinksStay ==
    ASSUME LinksExist, UNCHANGED <<link, canceled>>,
           \A p \in LivePayments : p \in LivePayments',
           \A i \in LiveInvoices : i \in LiveInvoices'
    PROVE  LinksExist'
BY DEF LinksExist

LEMMA TripSteps ==
    ASSUME IInv, NEW c \in Clients, TripStep(c)
    PROVE  IInv'
<1> USE DEF IInv, RequestsOK, tables, history
<1>p. pay \in PayType BY DEF TypeOK, PayType
<1> PICK t \in Trips :
        \/ \E w \in Windows : CreateTrip(c, t, w) \/ UpdateTrip(c, t, w)
        \/ DeleteTripCascade(c, t) \/ DeleteTripKeep(c, t)
        \/ \E p \in Payments : AssignPending(c, p, t)
  BY DEF TripStep, DeleteTrip
<1>1. ASSUME NEW w \in Windows, NEW lo, NEW hi,
             window' = [window EXCEPT ![t] = w],
             pay' = Recompute(window', pay, lo, hi),
             Step(c, "idle", Recalc(Affected(window', pay, lo, hi))),
             UNCHANGED <<locked, inv, link, history>>
      PROVE  IInv'
  <2>1. pay' \in PayType /\ \A p \in Payments : Exists(pay'[p]) <=> Exists(pay[p])
    BY <1>1, <1>p, RecomputedRows
  <2>2. RequestsOK'
    <3>1. Affected(window', pay, lo, hi) \in SUBSET Trips BY <1>p, AffectedAreTrips
    <3>. QED BY <1>1, <3>1, RecalcRequest, StepRequest
  <2>3. TypeOK' BY <1>1, <2>1, <2>2 DEF TypeOK, PayType, ReqType
  <2>4. LinksExist' BY <1>1, <2>1, LinksStay DEF LivePayments, LiveInvoices
  <2>. QED BY <2>2, <2>3, <2>4
<1>2. ASSUME NEW w \in Windows, CreateTrip(c, t, w) PROVE IInv'
  BY <1>2, <1>1 DEF CreateTrip
<1>3. ASSUME NEW w \in Windows, UpdateTrip(c, t, w) PROVE IInv'
  <2> DEFINE r == EditRange(window[t], w)
  <2>1. pay' = Recompute(window', pay, r[1], r[2])
        /\ Step(c, "idle", Recalc(Affected(window', pay, r[1], r[2])))
    BY <1>3 DEF UpdateTrip
  <2>. QED BY <1>3, <2>1, <1>1 DEF UpdateTrip
<1>4. CASE DeleteTripCascade(c, t)
  <2> DEFINE dead == ConfirmedUnder(t)
             left == [p \in Payments |-> IF p \in dead THEN Gone ELSE pay[p]]
             cut  == {i \in Invoices : link[i] \in dead}
             lo   == window[t][1]
             hi   == window[t][2]
  <2>1. left \in PayType BY <1>p DEF PayType
  <2>2. pay' = Recompute(window', left, lo, hi)
        /\ Step(c, "idle", Recalc(Affected(window', left, lo, hi)))
    BY <1>4 DEF DeleteTripCascade
  <2>3. pay' \in PayType /\ \A p \in Payments : Exists(pay'[p]) <=> Exists(left[p])
    BY <2>1, <2>2, RecomputedRows
  <2>4. RequestsOK'
    <3>1. Affected(window', left, lo, hi) \in SUBSET Trips BY <2>1, AffectedAreTrips
    <3>. QED BY <2>2, <3>1, RecalcRequest, StepRequest
  <2>5. /\ window' = [window EXCEPT ![t] = Gone]
        /\ locked' = locked \ {t}
        /\ inv' = [i \in Invoices |-> IF i \in cut /\ Exists(inv[i]) THEN Gone ELSE inv[i]]
        /\ link' = [i \in Invoices |-> IF i \in cut THEN None ELSE link[i]]
        /\ UNCHANGED history
    BY <1>4 DEF DeleteTripCascade
  <2> HIDE DEF left, cut
  <2>6. TypeOK' BY <2>3, <2>4, <2>5 DEF TypeOK, PayType, ReqType
  <2>7. LinksExist'
    <3> SUFFICES ASSUME NEW i \in Invoices, link'[i] # None
                 PROVE  /\ Exists(inv'[i])
                        /\ link'[i] \in canceled \/ (link'[i] \in Payments /\ Exists(pay'[link'[i]]))
      BY <2>5 DEF LinksExist, LivePayments, LiveInvoices
    <3>1. i \notin cut /\ link'[i] = link[i] /\ link[i] \notin dead
      BY <2>5 DEF cut
    <3>2. inv'[i] = inv[i] BY <2>5, <3>1
    <3>3. Exists(inv[i]) /\ (link[i] \in canceled \/ (link[i] \in Payments /\ Exists(pay[link[i]])))
      BY <3>1 DEF LinksExist, LivePayments, LiveInvoices
    <3>4. link[i] \in Payments => left[link[i]] = pay[link[i]] BY <3>1 DEF left
    <3>. QED BY <2>3, <3>1, <3>2, <3>3, <3>4
  <2>. QED BY <2>4, <2>6, <2>7
<1>5. CASE DeleteTripKeep(c, t)
  <2>1. ASSUME NEW p \in Payments
        PROVE  /\ pay'[p] \in PaymentRow \cup {Unborn, Gone}
               /\ Exists(pay'[p]) <=> Exists(pay[p])
    <3>1. CASE p \in ConfirmedUnder(t)
      <4>1. pay[p] \in PaymentRow /\ Exists(pay[p])
        BY <3>1, LiveRows DEF ConfirmedUnder, Confirmed, LivePayments
      <4>2. pay'[p] = Released(pay[p]) BY <1>5, <3>1 DEF DeleteTripKeep
      <4>3. pay'[p] \in PaymentRow BY <4>1, <4>2 DEF Released, PaymentRow
      <4>. QED BY <4>1, <4>3, RowsExist
    <3>2. CASE p \notin ConfirmedUnder(t)
      <4>1. pay'[p] = pay[p] BY <1>5, <3>2 DEF DeleteTripKeep
      <4>. QED BY <4>1 DEF TypeOK
    <3>. QED BY <3>1, <3>2
  <2>2. pay' = [p \in Payments |-> pay'[p]] BY <1>5 DEF DeleteTripKeep
  <2>3. RequestsOK'
    BY <1>5, IdleRequest, StepRequest DEF DeleteTripKeep
  <2>4. TypeOK' BY <1>5, <2>1, <2>2, <2>3 DEF DeleteTripKeep, TypeOK, ReqType
  <2>5. LinksExist' BY <1>5, <2>1, LinksStay DEF DeleteTripKeep, LivePayments, LiveInvoices
  <2>. QED BY <2>3, <2>4, <2>5
<1>6. ASSUME NEW p \in Payments, AssignPending(c, p, t) PROVE IInv'
  <2> DEFINE to == [Idle EXCEPT !.pc = "pending", !.p = p, !.t = t]
  <2>1. to \in Request /\ to.t # None
    BY RowsAssumption DEF Idle, Request, PCs
  <2>2. RequestsOK'
    BY <1>6, <2>1, StepRequest DEF AssignPending
  <2>3. TypeOK' BY <1>6, <2>2 DEF AssignPending, TypeOK, ReqType
  <2>4. LinksExist' BY <1>6 DEF AssignPending, LinksExist, LivePayments, LiveInvoices
  <2>. QED BY <2>2, <2>3, <2>4
<1>. QED BY <1>2, <1>3, <1>4, <1>5, <1>6

\* Statements that touch no row but, at most, one payment.
LEMMA PaymentWritten ==
    ASSUME IInv, NEW p \in LivePayments, NEW row \in PaymentRow,
           pay' = [pay EXCEPT ![p] = row], UNCHANGED <<window, locked, inv, link, doubt, canceled>>,
           outdated' \subseteq Payments, RequestsOK'
    PROVE  IInv'
<1> USE DEF IInv, RequestsOK, tables, history
<1>1. TypeOK' BY DEF TypeOK, ReqType, LivePayments
<1>2. Exists(row) BY RowsExist
<1>3. LinksExist' BY <1>2, LinksStay DEF LivePayments, LiveInvoices, TypeOK
<1>. QED BY <1>1, <1>3

LEMMA NothingWritten ==
    ASSUME IInv, UNCHANGED <<window, pay, inv, link, canceled, outdated>>,
           locked' \subseteq Trips, doubt' \subseteq Trips, RequestsOK'
    PROVE  IInv'
BY DEF IInv, RequestsOK, TypeOK, ReqType, LinksExist, LivePayments, LiveInvoices

\* The columns an update writes are columns.
LEMMA PatchedRow ==
    ASSUME NEW row \in PaymentRow, NEW patch \in Patches, NEW before
    PROVE  Patched(row, patch, before) \in PaymentRow
<1>1. patch \in PatchType BY PatchesAssumption
<1>2. PatchSource(patch) \in {"keep", "auto", "manual", "blocked"}
  BY <1>1 DEF PatchType, PatchSource
<1> DEFINE new == Patched(row, patch, before)
<1>3. /\ (IF patch.at = Keep THEN row.at ELSE patch.at) \in Times
      /\ (IF PatchSource(patch) = "blocked" THEN None
            ELSE IF patch.trip = Keep THEN row.trip ELSE patch.trip) \in Trips \cup {None}
      /\ (IF PatchSource(patch) = "keep" THEN row.src ELSE PatchSource(patch))
            \in {"auto", "manual", "blocked"}
  BY <1>1, <1>2 DEF PatchType, PaymentRow
<1>4. (IF patch.bad = Keep THEN row.bad ELSE patch.bad) \in BOOLEAN
  BY <1>1, Zenon DEF PatchType, PaymentRow
<1>5. (row.draft /\ ~patch.confirm) \in BOOLEAN
  OBVIOUS
<1>6. ASSUME NEW trip
      PROVE (CASE PatchSource(patch) = "blocked" -> "blocked"
               [] PatchSource(patch) = "manual"  -> IF trip = None THEN "no_match" ELSE "assigned"
               [] OTHER -> row.state) \in {"assigned", "no_match", "overlap", "blocked"}
  BY DEF PaymentRow
<1>. QED BY <1>3, <1>4, <1>5, <1>6 DEF Patched, PaymentRow

LEMMA PaymentSteps ==
    ASSUME IInv, NEW c \in Clients, PaymentStep(c)
    PROVE  IInv'
<1> USE DEF IInv, RequestsOK, tables, history
<1>1. ASSUME NEW p \in Payments, NEW at \in Times,
             CreatePayment(c, p, at) \/ UploadDraft(c, p, at)
      PROVE  IInv'
  <2> DEFINE row == IF CreatePayment(c, p, at) THEN Matched(window, NewPayment(at, FALSE), at)
                                               ELSE NewPayment(at, TRUE)
  <2>1. NewPayment(at, FALSE) \in PaymentRow /\ NewPayment(at, TRUE) \in PaymentRow
    BY DEF NewPayment, PaymentRow
  <2>2. row \in PaymentRow BY <2>1, MatchedRow
  <2>3. /\ pay' = [pay EXCEPT ![p] = row] /\ UNCHANGED <<window, locked, inv, link, history>>
        /\ Step(c, "idle", Idle)
    BY <1>1 DEF CreatePayment, UploadDraft
  <2> HIDE DEF row
  <2>4. RequestsOK' BY <2>3, IdleRequest, StepRequest
  <2>5. TypeOK' BY <2>2, <2>3, <2>4 DEF TypeOK, ReqType
  <2>6. LinksExist'
    BY <2>2, <2>3, RowsExist DEF LinksExist, LivePayments, LiveInvoices, TypeOK
  <2>. QED BY <2>4, <2>5, <2>6
<1>2. ASSUME NEW p \in Payments, BlockPending(c, p) PROVE IInv'
  <2> DEFINE row == [pay[p] EXCEPT !.trip = None, !.src = "blocked", !.state = "blocked"]
  <2>1. p \in LivePayments /\ pay[p] \in PaymentRow BY <1>2, LiveRows DEF BlockPending
  <2>2. row \in PaymentRow BY <2>1 DEF PaymentRow
  <2>3. pay' = [pay EXCEPT ![p] = row] BY <1>2 DEF BlockPending
  <2>4. RequestsOK' BY <1>2, IdleRequest, StepRequest DEF BlockPending
  <2>. QED BY <1>2, <2>1, <2>2, <2>3, <2>4, PaymentWritten DEF BlockPending, TypeOK
<1>3. ASSUME NEW p \in Payments, ReadBefore(c, p) PROVE IInv'
  <2>1. pay[p] \in PaymentRow BY <1>3, LiveRows DEF ReadBefore
  <2> DEFINE todo == IF pay[p].bad THEN TripOf(p) ELSE {}
             to == [Idle EXCEPT !.pc = "update", !.p = p, !.t = pay[p].trip, !.todo = todo]
  <2>2. todo \subseteq Trips BY TripOfIsTrips
  <2>3. Step(c, "idle", to) BY <1>3 DEF ReadBefore
  <2>4. to \in Request /\ to.pc \notin {"pending", "flag"}
    <3> HIDE DEF todo
    <3>. QED BY <2>1, <2>2 DEF Idle, Request, PCs, PaymentRow
  <2>5. RequestsOK' BY <2>3, <2>4, StepRequest
  <2>. QED BY <1>3, <2>5, NothingWritten DEF ReadBefore, TypeOK
<1>4. ASSUME NEW p \in Payments, DeletePayment(c, p) PROVE IInv'
  <2> DEFINE to == [Idle EXCEPT !.pc = "delpay", !.p = p, !.todo = TripOf(p)]
  <2>1. to \in Request /\ to.pc \notin {"pending", "flag"}
    BY TripOfIsTrips DEF Idle, Request, PCs
  <2>2. RequestsOK'
    BY <1>4, <2>1, StepRequest DEF DeletePayment
  <2>. QED BY <1>4, <2>2, NothingWritten DEF DeletePayment, TypeOK
<1>5. ASSUME NEW patch \in Patches, UpdateCommit(c, patch) PROVE IInv'
  <2> DEFINE p == req[c].p
  <2>1. CASE p \in LivePayments
    <3> DEFINE row == Patched(pay[p], patch, req[c].t)
               to == [req[c] EXCEPT !.pc = "reread", !.t = None,
                                    !.auto = patch.at # Keep \/ patch.confirm]
    <3>1. row \in PaymentRow BY <2>1, LiveRows, PatchedRow
    <3>2. (patch.at # Keep \/ patch.confirm) \in BOOLEAN OBVIOUS
    <3>3. to \in Request /\ to.pc \notin {"pending", "flag"}
      BY <3>2 DEF TypeOK, Request, PCs
    <3>4. pay' = [pay EXCEPT ![p] = row] /\ Step(c, "update", to)
      BY <1>5, <2>1 DEF UpdateCommit
    <3>5. RequestsOK' BY <3>3, <3>4, StepRequest
    <3>6. UNCHANGED <<window, locked, inv, link, doubt, canceled>> BY <1>5 DEF UpdateCommit
    <3>7. outdated' \subseteq Payments BY <1>5, <2>1 DEF UpdateCommit, LivePayments, TypeOK
    <3> HIDE DEF row, to
    <3>. QED BY <2>1, <3>1, <3>4, <3>5, <3>6, <3>7, PaymentWritten
  <2>2. CASE p \notin LivePayments
    <3>1. Step(c, "update", Idle) /\ UNCHANGED <<pay, outdated>> BY <1>5, <2>2 DEF UpdateCommit
    <3>2. RequestsOK' BY <3>1, IdleRequest, StepRequest
    <3>3. UNCHANGED <<window, locked, inv, link, doubt, canceled>> BY <1>5 DEF UpdateCommit
    <3>. QED BY <3>1, <3>2, <3>3, NothingWritten DEF TypeOK
  <2>. QED BY <2>1, <2>2
<1>6. CASE AssignPendingCommit(c)
  <2> DEFINE p == req[c].p
             row == [pay[p] EXCEPT !.trip = req[c].t, !.src = "manual", !.state = "assigned"]
  <2>1. req[c].t \in Trips
    BY <1>6 DEF AssignPendingCommit, Step, TripInHand, TypeOK, Request
  <2>2. RequestsOK'
    BY <1>6, <2>1, RecalcRequest, StepRequest DEF AssignPendingCommit
  <2>3. CASE p \in LivePayments
    <3>1. pay[p] \in PaymentRow BY <2>3, LiveRows
    <3>2. row \in PaymentRow BY <2>1, <3>1 DEF PaymentRow
    <3>3. pay' = [pay EXCEPT ![p] = row] BY <1>6, <2>3 DEF AssignPendingCommit
    <3>. QED BY <1>6, <2>2, <2>3, <3>2, <3>3, PaymentWritten DEF AssignPendingCommit, TypeOK
  <2>4. CASE p \notin LivePayments
    BY <1>6, <2>2, <2>4, NothingWritten DEF AssignPendingCommit, TypeOK
  <2>. QED BY <2>3, <2>4
<1>7. CASE ReadAfter(c)
  <2> DEFINE p == req[c].p
             todo == req[c].todo \cup (IF pay[p].bad THEN TripOf(p) ELSE {})
             to == IF p \notin LivePayments THEN Idle
                   ELSE IF req[c].auto /\ pay[p].src = "auto"
                     THEN [req[c] EXCEPT !.pc = "assign", !.at = pay[p].at]
                     ELSE Recalc(todo)
  <2>1. Step(c, "reread", to) BY <1>7 DEF ReadAfter
  <2>2. to \in Request /\ (to.pc \in {"pending", "flag"} => to.t # None)
    <3>1. todo \in SUBSET Trips BY TripOfIsTrips DEF TypeOK, Request
    <3>2. CASE p \notin LivePayments BY <3>2, IdleRequest
    <3>3. CASE p \in LivePayments /\ req[c].auto /\ pay[p].src = "auto"
      <4>1. pay[p] \in PaymentRow BY <3>3, LiveRows
      <4>2. pay[p].at \in Times BY <4>1 DEF PaymentRow
      <4>3. req[c] \in Request BY DEF TypeOK
      <4>4. to = [req[c] EXCEPT !.pc = "assign", !.at = pay[p].at] BY <3>3
      <4>5. to \in Request /\ to.pc = "assign"
        BY <4>2, <4>3, <4>4 DEF Request, PCs
      <4>. QED BY <4>5
    <3>4. CASE p \in LivePayments /\ ~(req[c].auto /\ pay[p].src = "auto")
      BY <3>1, <3>4, RecalcRequest
    <3>. QED BY <3>2, <3>3, <3>4
  <2> HIDE DEF to
  <2>3. RequestsOK' BY <2>1, <2>2, StepRequest
  <2>. QED BY <1>7, <2>3, NothingWritten DEF ReadAfter, TypeOK
<1>8. CASE AutoAssign(c)
  <2> DEFINE p == req[c].p
             row == [Matched(window, pay[p], req[c].at) EXCEPT !.src = "auto"]
             to == [req[c] EXCEPT !.pc = "reread", !.at = None, !.auto = FALSE]
  <2>1. to \in Request /\ to.pc \notin {"pending", "flag"} BY DEF TypeOK, Request, PCs
  <2>2. RequestsOK'
    BY <1>8, <2>1, StepRequest DEF AutoAssign
  <2>3. CASE p \in LivePayments
    <3>1. Matched(window, pay[p], req[c].at) \in PaymentRow BY <2>3, LiveRows, MatchedRow
    <3>2. row \in PaymentRow BY <3>1 DEF PaymentRow
    <3>3. pay' = [pay EXCEPT ![p] = row] BY <1>8, <2>3 DEF AutoAssign
    <3>. QED BY <1>8, <2>2, <2>3, <3>2, <3>3, PaymentWritten DEF AutoAssign, TypeOK
  <2>4. CASE p \notin LivePayments
    BY <1>8, <2>2, <2>4, NothingWritten DEF AutoAssign, TypeOK
  <2>. QED BY <2>3, <2>4
<1>9. CASE DeletePaymentCommit(c)
  <2> DEFINE p == req[c].p
  <2>1. CASE p \in LivePayments
    <3>1. /\ pay' = [pay EXCEPT ![p] = Gone] /\ link' = CutLinks(p)
          /\ Step(c, "delpay", Recalc(req[c].todo)) /\ UNCHANGED <<window, locked, inv, history>>
      BY <1>9, <2>1 DEF DeletePaymentCommit
    <3>2. RequestsOK'
      BY <3>1, RecalcRequest, StepRequest DEF TypeOK, Request
    <3>3. TypeOK' BY <3>1, <3>2 DEF TypeOK, ReqType, CutLinks
    <3>4. LinksExist'
      BY <2>1, <3>1 DEF LinksExist, CutLinks, LivePayments, LiveInvoices, TypeOK
    <3>. QED BY <3>2, <3>3, <3>4
  <2>2. CASE p \notin LivePayments
    <3>2. RequestsOK'
      BY <1>9, <2>2, IdleRequest, StepRequest DEF DeletePaymentCommit
    <3>. QED BY <1>9, <2>2, <3>2, NothingWritten DEF DeletePaymentCommit, TypeOK
  <2>. QED BY <2>1, <2>2
<1>10. ASSUME NEW p \in Payments, CancelUpload(c, p) PROVE IInv'
  <2>1. /\ pay' = [pay EXCEPT ![p] = Gone] /\ canceled' = canceled \cup {p}
        /\ Step(c, "idle", Idle) /\ UNCHANGED <<window, locked, inv, link, doubt, outdated>>
    BY <1>10 DEF CancelUpload
  <2>2. RequestsOK' BY <2>1, IdleRequest, StepRequest
  <2>3. TypeOK' BY <2>1, <2>2 DEF TypeOK, ReqType
  <2>4. LivePayments \subseteq LivePayments' \cup {p} BY <2>1 DEF LivePayments, TypeOK
  <2>5. LinksExist' BY <2>1, <2>4 DEF LinksExist, LiveInvoices
  <2>. QED BY <2>2, <2>3, <2>5
<1>. QED
  BY <1>1, <1>2, <1>3, <1>4, <1>5, <1>6, <1>7, <1>8, <1>9, <1>10 DEF PaymentStep

LEMMA InvoiceSteps ==
    ASSUME IInv, NEW c \in Clients, InvoiceStep(c)
    PROVE  IInv'
<1> USE DEF IInv, RequestsOK, tables, history
<1>1. ASSUME NEW i \in Invoices, NEW p \in Payments \cup {None}, NEW draft \in BOOLEAN,
             CreateInvoice(c, i, p, draft)
      PROVE  IInv'
  <2> DEFINE row == [ptr |-> p, bad |-> FALSE, draft |-> draft]
  <2>1. /\ inv' = [inv EXCEPT ![i] = row] /\ link' = [link EXCEPT ![i] = p]
        /\ UNCHANGED <<window, locked, pay, history>> /\ (p = None \/ p \in LivePayments)
    BY <1>1 DEF CreateInvoice, Confirmed
  <2>2. row \in InvoiceRow BY DEF InvoiceRow
  <2>3. Exists(row) BY <2>2, RowsExist
  <2> HIDE DEF row
  <2>4. RequestsOK'
    BY <1>1, IdleRequest, StepRequest DEF CreateInvoice
  <2>5. TypeOK' BY <2>1, <2>2, <2>4 DEF TypeOK, ReqType
  <2>6. LinksExist' BY <2>1, <2>3 DEF LinksExist, LivePayments, LiveInvoices, TypeOK
  <2>. QED BY <2>4, <2>5, <2>6
<1>2. ASSUME NEW i \in Invoices, NEW ptr \in Payments \cup {None, Keep}, ReadInvoice(c, i, ptr)
      PROVE  IInv'
  <2> DEFINE todo == TripsOf(i) \cup TripOf(ptr)
             to == [Idle EXCEPT !.pc = "updinv", !.i = i, !.p = ptr, !.todo = todo]
  <2>1. todo \subseteq Trips BY TripsOfIsTrips, TripOfIsTrips
  <2>2. Step(c, "idle", to) BY <1>2 DEF ReadInvoice
  <2> HIDE DEF todo
  <2>3. to \in Request /\ to.pc \notin {"pending", "flag"} BY <2>1 DEF Idle, Request, PCs
  <2>4. RequestsOK' BY <2>2, <2>3, StepRequest
  <2>. QED BY <1>2, <2>4, NothingWritten DEF ReadInvoice, TypeOK
<1>3. ASSUME NEW i \in Invoices, NEW p \in Payments,
             LinkPayment(c, i, p) \/ UnlinkPayment(c, i, p)
      PROVE  IInv'
  <2> DEFINE to == [Idle EXCEPT !.pc = "linked", !.i = i, !.p = p]
             row == [inv[i] EXCEPT !.ptr = IF LinkPayment(c, i, p) THEN p ELSE None]
  <2>1. to \in Request /\ to.pc \notin {"pending", "flag"} BY DEF Idle, Request, PCs
  <2>2. RequestsOK'
    BY <1>3, <2>1, StepRequest DEF LinkPayment, UnlinkPayment
  <2>3. i \in LiveInvoices /\ p \in LivePayments
    BY <1>3 DEF LinkPayment, Linkable, UnlinkPayment
  <2>4. row \in InvoiceRow BY <2>3, LiveRows DEF InvoiceRow
  <2>5. inv' = [inv EXCEPT ![i] = row] BY <1>3 DEF LinkPayment, UnlinkPayment
  <2>6. /\ link' = [link EXCEPT ![i] = p] \/ link' = [link EXCEPT ![i] = IF @ = p THEN None ELSE @]
        /\ UNCHANGED <<window, locked, pay, history>>
    BY <1>3 DEF LinkPayment, UnlinkPayment
  <2> HIDE DEF row
  <2>7. TypeOK' BY <2>2, <2>4, <2>5, <2>6 DEF TypeOK, ReqType
  <2>8. LinksExist'
    BY <2>3, <2>4, <2>5, <2>6, RowsExist DEF LinksExist, LivePayments, LiveInvoices, TypeOK
  <2>. QED BY <2>2, <2>7, <2>8
<1>4. ASSUME NEW i \in Invoices, DeleteInvoice(c, i) PROVE IInv'
  <2> DEFINE to == [Idle EXCEPT !.pc = "delinv", !.i = i, !.todo = TripsOf(i)]
  <2>1. to \in Request /\ to.pc \notin {"pending", "flag"}
    BY TripsOfIsTrips DEF Idle, Request, PCs
  <2>2. RequestsOK'
    BY <1>4, <2>1, StepRequest DEF DeleteInvoice
  <2>. QED BY <1>4, <2>2, NothingWritten DEF DeleteInvoice, TypeOK
<1>5. ASSUME NEW bad \in BOOLEAN \cup {Keep}, NEW confirm \in BOOLEAN,
             UpdateInvoiceCommit(c, bad, confirm)
      PROVE  IInv'
  <2> DEFINE i == req[c].i
             ptr == req[c].p
             row == [ptr   |-> IF ptr = Keep THEN inv[i].ptr ELSE ptr,
                     bad   |-> IF bad = Keep THEN inv[i].bad ELSE bad,
                     draft |-> inv[i].draft /\ ~confirm]
             todo == IF bad = Keep /\ ptr = Keep THEN {} ELSE req[c].todo
  <2>1. CASE i \in LiveInvoices
    <3>1. inv[i] \in InvoiceRow BY <2>1, LiveRows
    <3>2. (IF ptr = Keep THEN inv[i].ptr ELSE ptr) \in Payments \cup {None}
      BY <3>1 DEF InvoiceRow, TypeOK, Request
    <3>3. (IF bad = Keep THEN inv[i].bad ELSE bad) \in BOOLEAN
      BY <3>1, Zenon DEF InvoiceRow
    <3>4. (inv[i].draft /\ ~confirm) \in BOOLEAN OBVIOUS
    <3>5. row \in InvoiceRow BY <3>2, <3>3, <3>4 DEF InvoiceRow
    <3>6. inv' = [inv EXCEPT ![i] = row] /\ Step(c, "updinv", Recalc(todo))
          /\ UNCHANGED <<window, locked, pay, link, history>>
      BY <1>5, <2>1 DEF UpdateInvoiceCommit
    <3>7. todo \in SUBSET Trips BY DEF TypeOK, Request
    <3>8. RequestsOK' BY <3>6, <3>7, RecalcRequest, StepRequest
    <3> HIDE DEF row
    <3>9. TypeOK' BY <3>5, <3>6, <3>8 DEF TypeOK, ReqType
    <3>10. LinksExist'
      BY <3>5, <3>6, RowsExist, LinksStay DEF LivePayments, LiveInvoices, TypeOK
    <3>. QED BY <3>8, <3>9, <3>10
  <2>2. CASE i \notin LiveInvoices
    <3>1. RequestsOK'
      BY <1>5, <2>2, IdleRequest, StepRequest DEF UpdateInvoiceCommit
    <3>. QED BY <1>5, <2>2, <3>1, NothingWritten DEF UpdateInvoiceCommit, TypeOK
  <2>. QED BY <2>1, <2>2
<1>6. CASE DeleteInvoiceCommit(c)
  <2> DEFINE i == req[c].i
  <2>1. CASE i \in LiveInvoices
    <3>1. /\ inv' = [inv EXCEPT ![i] = Gone] /\ link' = [link EXCEPT ![i] = None]
          /\ Step(c, "delinv", Recalc(req[c].todo)) /\ UNCHANGED <<window, locked, pay, history>>
      BY <1>6, <2>1 DEF DeleteInvoiceCommit
    <3>2. RequestsOK'
      BY <3>1, RecalcRequest, StepRequest DEF TypeOK, Request
    <3>3. TypeOK' BY <3>1, <3>2 DEF TypeOK, ReqType
    <3>4. LinksExist' BY <3>1 DEF LinksExist, LivePayments, LiveInvoices, TypeOK
    <3>. QED BY <3>2, <3>3, <3>4
  <2>2. CASE i \notin LiveInvoices
    <3>1. RequestsOK'
      BY <1>6, <2>2, IdleRequest, StepRequest DEF DeleteInvoiceCommit
    <3>. QED BY <1>6, <2>2, <3>1, NothingWritten DEF DeleteInvoiceCommit, TypeOK
  <2>. QED BY <2>1, <2>2
<1>7. CASE ReadLinked(c)
  <2> DEFINE todo == IF req[c].i \in LiveInvoices /\ inv[req[c].i].bad
                       THEN TripOf(req[c].p) ELSE {}
  <2>1. todo \in SUBSET Trips BY TripOfIsTrips
  <2>2. Step(c, "linked", Recalc(todo)) BY <1>7 DEF ReadLinked
  <2> HIDE DEF todo
  <2>3. RequestsOK' BY <2>1, <2>2, RecalcRequest, StepRequest
  <2>. QED BY <1>7, <2>3, NothingWritten DEF ReadLinked, TypeOK
<1>. QED BY <1>1, <1>2, <1>3, <1>4, <1>5, <1>6, <1>7 DEF InvoiceStep

LEMMA FlagSteps ==
    ASSUME IInv, NEW c \in Clients, FlagStep(c)
    PROVE  IInv'
<1> USE DEF IInv, RequestsOK, tables, history
<1>1. CASE CountBadDebt(c)
  <2>1. PICK t \in req[c].todo :
          Step(c, "recalc",
               [req[c] EXCEPT !.pc = "flag", !.t = t, !.todo = @ \ {t}, !.flag = BadUnder(t)])
    BY <1>1 DEF CountBadDebt
  <2> DEFINE to == [req[c] EXCEPT !.pc = "flag", !.t = t, !.todo = @ \ {t}, !.flag = BadUnder(t)]
  <2>2. BadUnder(t) \in BOOLEAN BY DEF BadUnder
  <2>3. t \in Trips BY DEF TypeOK, Request
  <2>4. to \in Request /\ to.t # None
    <3>1. to \in Request /\ to.t = t BY <2>2, <2>3 DEF TypeOK, Request, PCs
    <3>. QED BY <2>3, <3>1, RowsAssumption
  <2>5. RequestsOK' BY <2>1, <2>4, StepRequest
  <2>. QED BY <1>1, <2>5, NothingWritten DEF CountBadDebt, TypeOK
<1>2. CASE WriteFlag(c)
  <2>1. RequestsOK'
    BY <1>2, RecalcRequest, StepRequest DEF WriteFlag, TypeOK, Request
  <2>2. req[c].t \in Trips BY <1>2 DEF WriteFlag, Step, TripInHand, TypeOK, Request
  <2>3. locked' \subseteq Trips BY <1>2, <2>2 DEF WriteFlag, SetFlag, TypeOK
  <2>4. doubt' \subseteq Trips
    <3>1. doubt' = doubt \cup {req[c].t} \/ doubt' = doubt \ {req[c].t}
      BY <1>2, Zenon DEF WriteFlag
    <3>. QED BY <2>2, <3>1 DEF TypeOK
  <2>. QED BY <1>2, <2>1, <2>3, <2>4, NothingWritten DEF WriteFlag, TypeOK
<1>3. CASE RequestEnds(c)
  <2>1. RequestsOK' BY <1>3, IdleRequest, StepRequest DEF RequestEnds
  <2>2. Owed(c) \subseteq Trips
    <3>1. req[c].todo \subseteq Trips /\ (req[c].pc = "flag" => req[c].t \in Trips)
      BY DEF TypeOK, Request, TripInHand
    <3>2. TripOf(req[c].p) \subseteq Trips BY TripOfIsTrips
    <3>. QED BY <3>1, <3>2 DEF Owed
  <2>. QED BY <1>3, <2>1, <2>2, NothingWritten DEF RequestEnds, TypeOK
<1>. QED BY <1>1, <1>2, <1>3 DEF FlagStep

LEMMA OCRSteps ==
    ASSUME IInv, NEW p \in Payments, NEW at \in Times, OCRSetsTime(p, at)
    PROVE  IInv'
<1> USE DEF IInv, RequestsOK, tables, history
<1> DEFINE row == [pay[p] EXCEPT !.at = at]
<1>1. p \in LivePayments /\ pay[p] \in PaymentRow BY LiveRows DEF OCRSetsTime
<1>2. row \in PaymentRow BY <1>1 DEF PaymentRow
<1>3. pay' = [pay EXCEPT ![p] = row] BY DEF OCRSetsTime
<1>4. RequestsOK' BY DEF OCRSetsTime, TypeOK, ReqType, TripInHand
<1>. QED BY <1>1, <1>2, <1>3, <1>4, PaymentWritten DEF OCRSetsTime, TypeOK

\* The sweeper takes the links with the rows.
LEMMA SweepSteps ==
    ASSUME IInv, NEW P, NEW I, SweepDrafts(P, I)
    PROVE  IInv'
<1> USE DEF IInv, RequestsOK, tables, history
<1>1. TypeOK' /\ TripInHand' BY DEF SweepDrafts, TypeOK, TripInHand
<1>2. LinksExist'
  <2> SUFFICES ASSUME NEW i \in Invoices, link'[i] # None
               PROVE  i \in LiveInvoices' /\ link'[i] \in LivePayments' \cup canceled'
    BY DEF LinksExist
  <2>1. i \notin I /\ link[i] \notin P /\ link'[i] = link[i] BY DEF SweepDrafts
  <2>2. i \in LiveInvoices' BY <2>1 DEF SweepDrafts, LinksExist, LiveInvoices
  <2>3. link[i] \in LivePayments => link[i] \in LivePayments'
    BY <2>1 DEF SweepDrafts, LivePayments
  <2>. QED BY <2>1, <2>2, <2>3 DEF LinksExist, SweepDrafts
<1>. QED BY <1>1, <1>2

-----------------------------------------------------------------------------
(* The invariant and what follows from it. *)

LEMMA InitEstablishesIInv == Init => IInv
BY RowsAssumption, IdleRequest
DEF Init, IInv, TypeOK, TripInHand, LinksExist

LEMMA NextKeepsIInv == IInv /\ [Next]_vars => IInv'
<1> SUFFICES ASSUME IInv, [Next]_vars PROVE IInv'
  OBVIOUS
<1>1. CASE UNCHANGED vars
  BY <1>1 DEF vars, tables, history, IInv, TypeOK, TripInHand, LinksExist,
              LivePayments, LiveInvoices
<1>2. CASE Next BY <1>2, TripSteps, PaymentSteps, InvoiceSteps, FlagSteps, OCRSteps, SweepSteps
  DEF Next
<1>. QED BY <1>1, <1>2

LEMMA IInvHolds == Spec => []IInv
BY InitEstablishesIInv, NextKeepsIInv, PTL DEF Spec

\* Every column and every request in flight keeps its type.
THEOREM LedgerTypeCorrect == Spec => []TypeOK
<1>1. IInv => TypeOK BY DEF IInv
<1>. QED BY <1>1, IInvHolds, PTL

\* No interleaving of requests, failures and sweeps leaves a link to an invoice
\* or a payment that is not there, but for the drafts of cancelled uploads.
THEOREM NoDanglingLink == Spec => []LinksExist
<1>1. IInv => LinksExist BY DEF IInv
<1>. QED BY <1>1, IInvHolds, PTL

-----------------------------------------------------------------------------
(* What a step may do. *)

\* The calendar changes in the four trip handlers only.
LEMMA CalendarSteps ==
    ASSUME [Next]_vars, window' # window
    PROVE  \E c \in Clients, t \in Trips :
              \/ \E w \in Windows : CreateTrip(c, t, w) \/ UpdateTrip(c, t, w)
              \/ DeleteTripCascade(c, t) \/ DeleteTripKeep(c, t)
<1>1. ASSUME NEW c \in Clients, PaymentStep(c) PROVE UNCHANGED window
  BY <1>1 DEF PaymentStep, CreatePayment, UploadDraft, BlockPending, ReadBefore,
              DeletePayment, UpdateCommit, AssignPendingCommit, ReadAfter, AutoAssign,
              DeletePaymentCommit, CancelUpload, tables
<1>2. ASSUME NEW c \in Clients, InvoiceStep(c) PROVE UNCHANGED window
  BY <1>2 DEF InvoiceStep, CreateInvoice, ReadInvoice, LinkPayment, UnlinkPayment,
              DeleteInvoice, UpdateInvoiceCommit, DeleteInvoiceCommit, ReadLinked, tables
<1>3. ASSUME NEW c \in Clients, FlagStep(c) PROVE UNCHANGED window
  BY <1>3 DEF FlagStep, CountBadDebt, WriteFlag, RequestEnds, tables
<1>4. ASSUME NEW p \in Payments, NEW at \in Times, OCRSetsTime(p, at) PROVE UNCHANGED window
  BY <1>4 DEF OCRSetsTime
<1>5. ASSUME NEW P, NEW I, SweepDrafts(P, I) PROVE UNCHANGED window
  BY <1>5 DEF SweepDrafts
<1>6. PICK c \in Clients : TripStep(c)
  BY <1>1, <1>2, <1>3, <1>4, <1>5 DEF Next, vars, tables
<1>7. ASSUME NEW t \in Trips, NEW p \in Payments, AssignPending(c, p, t) PROVE UNCHANGED window
  BY <1>7 DEF AssignPending, tables
<1>. QED BY <1>6, <1>7 DEF TripStep, DeleteTrip

\* The payments a deletion of t leaves in the table, before the recomputation.
Left(t) == [p \in Payments |-> IF p \in ConfirmedUnder(t) THEN Gone ELSE pay[p]]

LEMMA LeftRows ==
    ASSUME TypeOK, NEW t
    PROVE  Left(t) \in PayType
BY DEF Left, TypeOK, PayType

LEMMA CascadePayments ==
    ASSUME NEW c, NEW t, DeleteTripCascade(c, t)
    PROVE  pay' = Recompute(window', Left(t), window[t][1], window[t][2])
BY DEF DeleteTripCascade, Left

\* Manual and blocked payments survive every edit of the calendar, except that
\* the payments of a trip that is removed are released or go with it.
THEOREM ManualIsKept == Spec => ManualSurvivesTripEdits
<1> DEFINE Kept == window' # window =>
                     \A p \in LivePayments :
                        pay[p].src # "auto" =>
                           \/ pay'[p] = pay[p]
                           \/ pay[p].trip \in LiveTrips /\ window'[pay[p].trip] = Gone
<1>1. ASSUME IInv, [Next]_vars PROVE Kept
  <2> SUFFICES ASSUME window' # window, NEW p \in LivePayments, pay[p].src # "auto"
               PROVE  \/ pay'[p] = pay[p]
                      \/ pay[p].trip \in LiveTrips /\ window'[pay[p].trip] = Gone
    OBVIOUS
  <2>p. p \in Payments /\ Exists(pay[p]) /\ pay \in PayType /\ TypeOK
    BY <1>1 DEF LivePayments, IInv, TypeOK, PayType
  <2> PICK c \in Clients, t \in Trips :
        \/ \E w \in Windows : CreateTrip(c, t, w) \/ UpdateTrip(c, t, w)
        \/ DeleteTripCascade(c, t) \/ DeleteTripKeep(c, t)
    BY <1>1, CalendarSteps
  <2>1. ASSUME NEW w \in Windows, CreateTrip(c, t, w) PROVE pay'[p] = pay[p]
    BY <2>1, <2>p, RecomputedRows DEF CreateTrip
  <2>2. ASSUME NEW w \in Windows, UpdateTrip(c, t, w) PROVE pay'[p] = pay[p]
    <3> DEFINE r == EditRange(window[t], w)
    <3>1. pay' = Recompute(window', pay, r[1], r[2]) BY <2>2 DEF UpdateTrip
    <3>. QED BY <3>1, <2>p, RecomputedRows
  <2>3. ASSUME DeleteTripCascade(c, t) \/ DeleteTripKeep(c, t), p \in ConfirmedUnder(t)
        PROVE  pay[p].trip \in LiveTrips /\ window'[pay[p].trip] = Gone
    BY <2>3, <2>p DEF DeleteTripCascade, DeleteTripKeep, ConfirmedUnder, TypeOK
  <2>4. ASSUME DeleteTripCascade(c, t), p \notin ConfirmedUnder(t) PROVE pay'[p] = pay[p]
    <3>1. Left(t)[p] = pay[p] BY <2>4, <2>p DEF Left
    <3>. QED BY <2>4, <2>p, <3>1, CascadePayments, LeftRows, RecomputedRows
  <2>5. ASSUME DeleteTripKeep(c, t), p \notin ConfirmedUnder(t) PROVE pay'[p] = pay[p]
    BY <2>5, <2>p DEF DeleteTripKeep
  <2>. QED BY <2>1, <2>2, <2>3, <2>4, <2>5
<1>. QED BY <1>1, IInvHolds, PTL DEF Spec, ManualSurvivesTripEdits

\* No deletion of a trip takes a confirmed bad debt with it.
THEOREM BadDebtIsKept == Spec => BadDebtSurvivesTrips
<1> DEFINE Kept == TripDeletion =>
               /\ \A p \in LivePayments : ~pay[p].draft /\ pay[p].bad => Exists(pay'[p])
               /\ \A i \in LiveInvoices : ~inv[i].draft /\ inv[i].bad => Exists(inv'[i])
<1>1. ASSUME IInv PROVE Kept
  <2> SUFFICES ASSUME NEW c \in Clients, NEW t \in Trips,
                      DeleteTripCascade(c, t) \/ DeleteTripKeep(c, t)
               PROVE  /\ \A p \in LivePayments : ~pay[p].draft /\ pay[p].bad => Exists(pay'[p])
                      /\ \A i \in LiveInvoices : ~inv[i].draft /\ inv[i].bad => Exists(inv'[i])
    BY DEF TripDeletion, DeleteTrip
  <2>0. ~BadUnder(t) /\ TypeOK /\ pay \in PayType
    BY <1>1 DEF DeleteTripCascade, DeleteTripKeep, IInv, TypeOK, PayType
  <2>1. ASSUME NEW p \in LivePayments, ~pay[p].draft, pay[p].bad PROVE Exists(pay'[p])
    <3>1. p \in Payments /\ Exists(pay[p]) BY DEF LivePayments
    <3>2. p \notin ConfirmedUnder(t) BY <2>0, <2>1 DEF BadUnder
    <3>3. CASE DeleteTripKeep(c, t) BY <3>1, <3>2, <3>3 DEF DeleteTripKeep
    <3>4. CASE DeleteTripCascade(c, t)
      <4>1. Left(t)[p] = pay[p] BY <3>1, <3>2 DEF Left
      <4>. QED BY <2>0, <3>1, <3>4, <4>1, CascadePayments, LeftRows, RecomputedRows
    <3>. QED BY <3>3, <3>4
  <2>2. ASSUME NEW i \in LiveInvoices, ~inv[i].draft, inv[i].bad PROVE Exists(inv'[i])
    <3>1. i \in Invoices /\ Exists(inv[i]) BY DEF LiveInvoices
    <3>2. link[i] \notin ConfirmedUnder(t) BY <2>0, <2>2 DEF BadUnder
    <3>. QED BY <3>1, <3>2 DEF DeleteTripKeep, DeleteTripCascade
  <2>. QED BY <2>1, <2>2
<1>. QED BY <1>1, IInvHolds, PTL DEF Spec, BadDebtSurvivesTrips

\* A second look at a matched row changes nothing.
LEMMA MatchedTwice ==
    ASSUME NEW w, NEW row \in PaymentRow, NEW at
    PROVE  Matched(w, Matched(w, row, at), at) = Matched(w, row, at)
<1> DEFINE ts == Cover(w, at)
           fit == \E t \in Trips : ts = {t}
           trip == IF fit THEN CHOOSE t \in ts : TRUE ELSE None
           state == IF fit THEN "assigned" ELSE IF ts = {} THEN "no_match" ELSE "overlap"
<1>1. ASSUME NEW r \in PaymentRow
      PROVE  Matched(w, r, at) = [r EXCEPT !.trip = trip, !.state = state]
  BY DEF Matched
<1>2. Matched(w, row, at) \in PaymentRow BY MatchedRow
<1> HIDE DEF trip, state
<1>. QED BY <1>1, <1>2 DEF PaymentRow

\* Two calendars that show the same trips at a time match a row the same way.
LEMMA SameCoverSameMatch ==
    ASSUME NEW w, NEW v, NEW at, Cover(w, at) = Cover(v, at), NEW row
    PROVE  Matched(w, row, at) = Matched(v, row, at)
BY DEF Matched

\* A recomputation of lo..hi puts every automatic payment in agreement with the
\* new calendar, provided that outside that range both calendars show the same.
LEMMA RecomputedAgree ==
    ASSUME NEW w, NEW v, NEW P \in PayType, NEW lo, NEW hi, NEW p \in Payments, Exists(P[p]),
           Agrees(w, P[p]),
           ~(lo <= P[p].at /\ P[p].at < hi) => Cover(w, P[p].at) = Cover(v, P[p].at)
    PROVE  Agrees(v, Recompute(v, P, lo, hi)[p])
<1>0. P[p] \in PaymentRow BY DEF PayType, Exists
<1>1. CASE p \in InRange(P, lo, hi)
  <2>1. Recompute(v, P, lo, hi)[p] = Matched(v, P[p], P[p].at) BY <1>1 DEF Recompute
  <2>. QED BY <1>0, <2>1, MatchedRow, MatchedTwice DEF Agrees
<1>2. CASE p \notin InRange(P, lo, hi)
  <2>1. Recompute(v, P, lo, hi)[p] = P[p] BY <1>2 DEF Recompute
  <2>2. P[p].src = "auto" => Cover(w, P[p].at) = Cover(v, P[p].at) BY <1>2 DEF InRange
  <2>. QED BY <2>1, <2>2, SameCoverSameMatch DEF Agrees
<1>. QED BY <1>1, <1>2

\* A trip covers no time outside a range that holds its window.
LEMMA OutsideWindow ==
    ASSUME NEW t \in Trips, NEW at \in Times, NEW v \in Windows \cup {Unborn, Gone},
           TypeOK, NEW lo \in Nat, NEW hi \in Nat, ~(lo <= at /\ at < hi),
           t \in LiveTrips => lo <= window[t][1] /\ window[t][2] <= hi,
           v \in Windows => lo <= v[1] /\ v[2] <= hi
    PROVE  Cover([window EXCEPT ![t] = v], at) = Cover(window, at)
<1> DEFINE new == [window EXCEPT ![t] = v]
<1>0. at \in Nat BY TimesAssumption
<1>1. ASSUME NEW x \in Windows, lo <= x[1], x[2] <= hi PROVE ~(x[1] <= at /\ at < x[2])
  BY <1>0, <1>1, WindowsAssumption
<1>2. new[t] = v /\ \A u \in Trips : u # t => new[u] = window[u] BY DEF TypeOK
<1>3. t \notin Cover(window, at)
  <2>1. t \in LiveTrips => window[t] \in Windows BY LiveRows
  <2>. QED BY <1>1, <2>1 DEF Cover, LiveTrips
<1>4. t \notin Cover(new, at)
  <2>1. Exists(v) => v \in Windows BY DEF Exists
  <2>. QED BY <1>1, <1>2, <2>1 DEF Cover
<1> HIDE DEF new
<1>. QED BY <1>2, <1>3, <1>4 DEF Cover, new

\* After a trip is created, moved or removed with its payments, no automatic
\* payment that agreed with the old calendar disagrees with the new one.
THEOREM EditsAreFollowed == Spec => EditsReassign
<1> DEFINE Followed == CalendarEdit =>
              \A p \in LivePayments :
                 Agrees(window, pay[p]) /\ Exists(pay'[p]) => Agrees(window', pay'[p])
<1>1. ASSUME IInv PROVE Followed
  <2> SUFFICES ASSUME NEW c \in Clients, NEW t \in Trips,
                      \/ \E w \in Windows : CreateTrip(c, t, w) \/ UpdateTrip(c, t, w)
                      \/ DeleteTripCascade(c, t),
                      NEW p \in LivePayments, Agrees(window, pay[p]), Exists(pay'[p])
               PROVE  Agrees(window', pay'[p])
    BY DEF CalendarEdit
  <2>0. /\ p \in Payments /\ Exists(pay[p]) /\ pay \in PayType /\ TypeOK
        /\ pay[p].at \in Times /\ (t \in LiveTrips => window[t] \in Windows)
    <3>1. TypeOK BY <1>1 DEF IInv
    <3>2. pay \in PayType BY <3>1 DEF TypeOK, PayType
    <3>3. p \in Payments /\ Exists(pay[p]) BY DEF LivePayments
    <3>4. pay[p] \in PaymentRow BY <3>1, LiveRows
    <3>5. pay[p].at \in Times BY <3>4 DEF PaymentRow
    <3>6. t \in LiveTrips => window[t] \in Windows BY <3>1, LiveRows
    <3>. QED BY <3>1, <3>2, <3>3, <3>5, <3>6
  <2>1. ASSUME NEW w \in Windows, CreateTrip(c, t, w) PROVE Agrees(window', pay'[p])
    <3>1. /\ window' = [window EXCEPT ![t] = w] /\ t \notin LiveTrips
          /\ pay' = Recompute(window', pay, w[1], w[2])
      BY <2>1 DEF CreateTrip, LiveTrips, Exists
    <3>2. w[1] \in Nat /\ w[2] \in Nat BY WindowsAssumption
    <3>3. ~(w[1] <= pay[p].at /\ pay[p].at < w[2])
            => Cover(window, pay[p].at) = Cover(window', pay[p].at)
      <4>1. w[1] <= w[1] /\ w[2] <= w[2] BY <3>2
      <4>2. w \in Windows \cup {Unborn, Gone} OBVIOUS
      <4>3. ASSUME ~(w[1] <= pay[p].at /\ pay[p].at < w[2])
            PROVE  Cover([window EXCEPT ![t] = w], pay[p].at) = Cover(window, pay[p].at)
        BY <2>0, <3>1, <3>2, <4>1, <4>2, <4>3, OutsideWindow
      <4>. QED BY <3>1, <4>3
    <3>. QED BY <2>0, <3>1, <3>3, RecomputedAgree
  <2>2. ASSUME NEW w \in Windows, UpdateTrip(c, t, w) PROVE Agrees(window', pay'[p])
    <3> DEFINE r == EditRange(window[t], w)
    <3>1. /\ window' = [window EXCEPT ![t] = w] /\ t \in LiveTrips
          /\ pay' = Recompute(window', pay, r[1], r[2])
      BY <2>2 DEF UpdateTrip
    <3>2. /\ r[1] \in Nat /\ r[2] \in Nat /\ r[1] <= w[1] /\ w[2] <= r[2]
          /\ r[1] <= window[t][1] /\ window[t][2] <= r[2]
      BY <2>0, <3>1, WindowsAssumption DEF EditRange, Least, Largest
    <3> HIDE DEF r
    <3>3. ~(r[1] <= pay[p].at /\ pay[p].at < r[2])
            => Cover(window, pay[p].at) = Cover(window', pay[p].at)
      <4>1. w \in Windows \cup {Unborn, Gone} OBVIOUS
      <4>. QED BY <2>0, <3>1, <3>2, <4>1, OutsideWindow
    <3>. QED BY <2>0, <3>1, <3>3, RecomputedAgree
  <2>3. ASSUME DeleteTripCascade(c, t) PROVE Agrees(window', pay'[p])
    <3> DEFINE lo == window[t][1]
               hi == window[t][2]
    <3>1. /\ window' = [window EXCEPT ![t] = Gone] /\ t \in LiveTrips
          /\ pay' = Recompute(window', Left(t), lo, hi)
      BY <2>3, CascadePayments DEF DeleteTripCascade
    <3>2. lo \in Nat /\ hi \in Nat BY <2>0, <3>1, WindowsAssumption
    <3>3. Exists(Left(t)[p])
      <4>1. Left(t) \in PayType BY <2>0, LeftRows
      <4>2. Exists(Recompute(window', Left(t), lo, hi)[p]) <=> Exists(Left(t)[p])
        BY <2>0, <4>1, RecomputedRows
      <4>. QED BY <3>1, <4>2
    <3>4. Left(t)[p] = pay[p] BY <2>0, <3>3 DEF Left, Exists
    <3>5. ~(lo <= pay[p].at /\ pay[p].at < hi)
            => Cover(window, pay[p].at) = Cover(window', pay[p].at)
      <4>1. Gone \notin Windows BY RowsAssumption
      <4>2. lo <= window[t][1] /\ window[t][2] <= hi BY <3>2
      <4>3. Gone \in Windows \cup {Unborn, Gone} OBVIOUS
      <4> HIDE DEF lo, hi
      <4>4. ASSUME ~(lo <= pay[p].at /\ pay[p].at < hi)
            PROVE  Cover([window EXCEPT ![t] = Gone], pay[p].at) = Cover(window, pay[p].at)
        BY <2>0, <3>1, <3>2, <4>1, <4>2, <4>3, <4>4, OutsideWindow
      <4>. QED BY <3>1, <4>4
    <3>. QED BY <2>0, <3>1, <3>3, <3>4, <3>5, LeftRows, RecomputedAgree
  <2>. QED BY <2>1, <2>2, <2>3
<1>. QED BY <1>1, IInvHolds, PTL DEF Spec, EditsReassign


-----------------------------------------------------------------------------
(* Source, state and trip of a payment.                                     *)

LEMMA RecomputedRow ==
    ASSUME NEW w, NEW P \in PayType, NEW lo, NEW hi, NEW p \in Payments, Exists(P[p]),
           NEW row, row = Recompute(w, P, lo, hi)[p]
    PROVE  /\ P[p] \in PaymentRow /\ row \in PaymentRow
           /\ row.src = P[p].src /\ row.bad = P[p].bad /\ row.draft = P[p].draft
           /\ row = P[p] \/ (p \in InRange(P, lo, hi) /\ row = Matched(w, P[p], P[p].at))
           /\ row.src # "auto" => row = P[p]
<1>1. P[p] \in PaymentRow BY DEF PayType, Exists
<1>2. CASE p \in InRange(P, lo, hi)
  <2>1. row = Matched(w, P[p], P[p].at) BY <1>2 DEF Recompute
  <2>2. P[p].src = "auto" BY <1>2 DEF InRange
  <2>. QED BY <1>1, <1>2, <2>1, <2>2, MatchedRow
<1>3. CASE p \notin InRange(P, lo, hi)
  <2>1. row = P[p] BY <1>3 DEF Recompute
  <2>. QED BY <1>1, <2>1
<1>. QED BY <1>2, <1>3

\* The columns of one row.
BlockedAgrees(row) == row.src = "blocked" => row.trip = None /\ row.state = "blocked"
ManualAgrees(row) ==
    row.src = "manual" => row.state = IF row.trip = None THEN "no_match" ELSE "assigned"

\* The rows of P agree, those in O excused from the manual part.
AllAgree(P, O) ==
    \A p \in Payments :
        Exists(P[p]) => BlockedAgrees(P[p]) /\ (p \notin O => ManualAgrees(P[p]))

LEMMA AgreeIsAllAgree ==
    /\ SourceStateAgree <=> AllAgree(pay, outdated)
    /\ SourceStateAgree' <=> AllAgree(pay', outdated')
BY DEF SourceStateAgree, AllAgree, BlockedAgrees, ManualAgrees, LivePayments

LEMMA AgreeRecomputed ==
    ASSUME NEW w, NEW P \in PayType, NEW O, NEW lo, NEW hi, AllAgree(P, O)
    PROVE  AllAgree(Recompute(w, P, lo, hi), O)
<1>. DEFINE R == Recompute(w, P, lo, hi)
<1>1. ASSUME NEW p \in Payments, Exists(R[p])
      PROVE  BlockedAgrees(R[p]) /\ (p \notin O => ManualAgrees(R[p]))
  <2>1. Exists(P[p]) BY <1>1, RecomputedRows
  <2>2. R[p] = P[p] \/ R[p].src = "auto" BY <2>1, RecomputedRow
  <2>. QED BY <2>1, <2>2 DEF AllAgree, BlockedAgrees, ManualAgrees
<1>. HIDE DEF R
<1>. QED BY <1>1 DEF AllAgree, R

\* What Update writes agrees, if it has read the trip that the row still has; a
\* blocked row agrees whatever it has read.
LEMMA AgreePatched ==
    ASSUME NEW row \in PaymentRow, NEW patch \in Patches, NEW before, BlockedAgrees(row)
    PROVE  /\ BlockedAgrees(Patched(row, patch, before))
           /\ before = row.trip /\ ManualAgrees(row)
                 => ManualAgrees(Patched(row, patch, before))
<1>. DEFINE new == Patched(row, patch, before)
            src == PatchSource(patch)
            trip == IF patch.trip = Keep THEN before ELSE patch.trip
<1>1. patch \in PatchType BY PatchesAssumption
<1>2. src \in {"keep", "auto", "manual", "blocked"} BY <1>1 DEF PatchType, PatchSource
<1>3. /\ new.src = IF src = "keep" THEN row.src ELSE src
      /\ new.trip = IF src = "blocked" THEN None ELSE IF patch.trip = Keep THEN row.trip ELSE patch.trip
      /\ new.state = CASE src = "blocked" -> "blocked"
                       [] src = "manual" -> IF trip = None THEN "no_match" ELSE "assigned"
                       [] OTHER -> row.state
  BY DEF Patched
<1>. HIDE DEF new
<1>4. CASE src = "keep"
  <2>1. patch.trip = Keep BY <1>1, <1>4 DEF PatchSource, PatchType
  <2>2. new.src = row.src /\ new.trip = row.trip /\ new.state = row.state BY <1>3, <1>4, <2>1
  <2>. QED BY <2>2 DEF BlockedAgrees, ManualAgrees, new
<1>5. CASE src = "auto" BY <1>3, <1>5 DEF BlockedAgrees, ManualAgrees, new
<1>6. CASE src = "manual" BY <1>3, <1>6 DEF BlockedAgrees, ManualAgrees, new
<1>7. CASE src = "blocked" BY <1>3, <1>7 DEF BlockedAgrees, ManualAgrees, new
<1>. QED BY <1>2, <1>4, <1>5, <1>6, <1>7

\* A payment is written, the others stay; nothing is excused again.
LEMMA AgreeWritten ==
    ASSUME TypeOK, SourceStateAgree, NEW p \in Payments, NEW row,
           \/ ~Exists(row)
           \/ BlockedAgrees(row) /\ (p \notin outdated' => ManualAgrees(row)),
           pay' = [pay EXCEPT ![p] = row], outdated \subseteq outdated'
    PROVE  SourceStateAgree'
<1>1. \A q \in Payments : pay'[q] = IF q = p THEN row ELSE pay[q] BY DEF TypeOK
<1>2. AllAgree(pay, outdated) BY AgreeIsAllAgree
<1>3. AllAgree(pay', outdated') BY <1>1, <1>2 DEF AllAgree
<1>. QED BY <1>3, AgreeIsAllAgree

LEMMA AgreeTrips ==
    ASSUME IInv, SourceStateAgree, NEW c \in Clients, TripStep(c)
    PROVE  SourceStateAgree'
<1>. USE DEF IInv, tables, history
<1>p. pay \in PayType /\ TypeOK /\ AllAgree(pay, outdated)
  BY AgreeIsAllAgree DEF TypeOK, PayType
<1>. SUFFICES AllAgree(pay', outdated')
  BY AgreeIsAllAgree
<1>. PICK t \in Trips :
        \/ \E w \in Windows : CreateTrip(c, t, w) \/ UpdateTrip(c, t, w)
        \/ DeleteTripCascade(c, t) \/ DeleteTripKeep(c, t)
        \/ \E p \in Payments : AssignPending(c, p, t)
  BY DEF TripStep, DeleteTrip
<1>1. ASSUME NEW w \in Windows, CreateTrip(c, t, w) \/ UpdateTrip(c, t, w)
      PROVE  AllAgree(pay', outdated')
  <2>1. PICK lo, hi : pay' = Recompute(window', pay, lo, hi) /\ outdated' = outdated
    BY <1>1 DEF CreateTrip, UpdateTrip
  <2>. QED BY <1>p, <2>1, AgreeRecomputed
<1>2. CASE DeleteTripCascade(c, t)
  <2>1. Left(t) \in PayType BY <1>p, LeftRows
  <2>2. AllAgree(Left(t), outdated) BY <1>p DEF Left, Exists, AllAgree
  <2>3. pay' = Recompute(window', Left(t), window[t][1], window[t][2]) BY <1>2, CascadePayments
  <2>4. outdated' = outdated BY <1>2 DEF DeleteTripCascade
  <2>. QED BY <2>1, <2>2, <2>3, <2>4, AgreeRecomputed
<1>3. CASE DeleteTripKeep(c, t)
  <2>1. /\ outdated' = outdated
        /\ \A p \in Payments :
              pay'[p] = IF p \in ConfirmedUnder(t) THEN Released(pay[p]) ELSE pay[p]
    BY <1>3 DEF DeleteTripKeep
  <2>2. \A p \in ConfirmedUnder(t) :
           BlockedAgrees(Released(pay[p])) /\ ManualAgrees(Released(pay[p]))
    BY <1>p, LiveRows
       DEF Released, BlockedAgrees, ManualAgrees, ConfirmedUnder, Confirmed, PaymentRow
  <2>. QED BY <1>p, <2>1, <2>2 DEF AllAgree
<1>4. ASSUME NEW p \in Payments, AssignPending(c, p, t) PROVE AllAgree(pay', outdated')
  BY <1>p, <1>4 DEF AssignPending
<1>. QED BY <1>1, <1>2, <1>3, <1>4

LEMMA AgreePayments ==
    ASSUME IInv, SourceStateAgree, NEW c \in Clients, PaymentStep(c)
    PROVE  SourceStateAgree'
<1>. USE DEF IInv, tables, history
<1>p. /\ TypeOK /\ req[c] \in Request /\ TripInHand
      /\ \A p \in LivePayments : p \in Payments /\ Exists(pay[p]) /\ pay[p] \in PaymentRow
      /\ \A p \in LivePayments :
            BlockedAgrees(pay[p]) /\ (p \notin outdated => ManualAgrees(pay[p]))
  BY LiveRows DEF TypeOK, LivePayments, SourceStateAgree, BlockedAgrees, ManualAgrees
<1>a. ASSUME UNCHANGED <<pay, outdated>> PROVE SourceStateAgree'
  BY <1>a DEF SourceStateAgree, LivePayments
<1>1. ASSUME NEW p \in Payments, NEW at \in Times, CreatePayment(c, p, at) \/ UploadDraft(c, p, at)
      PROVE  SourceStateAgree'
  <2>1. NewPayment(at, FALSE) \in PaymentRow /\ NewPayment(at, TRUE) \in PaymentRow
        /\ NewPayment(at, FALSE).src = "auto" /\ NewPayment(at, TRUE).src = "auto"
    BY DEF NewPayment, PaymentRow
  <2>2. Matched(window, NewPayment(at, FALSE), at).src = "auto"
    <3>. DEFINE row == NewPayment(at, FALSE)
    <3>1. row \in PaymentRow /\ row.src = "auto" BY <2>1
    <3>. HIDE DEF row
    <3>2. Matched(window, row, at).src = "auto" BY <3>1, MatchedRow
    <3>. QED BY <3>2 DEF row
  <2>3. PICK row : row.src = "auto" /\ pay' = [pay EXCEPT ![p] = row] /\ outdated' = outdated
    BY <1>1, <2>1, <2>2 DEF CreatePayment, UploadDraft
  <2>4. BlockedAgrees(row) /\ ManualAgrees(row) BY <2>3 DEF BlockedAgrees, ManualAgrees
  <2>. QED BY <1>p, <2>3, <2>4, AgreeWritten
<1>2. ASSUME NEW p \in Payments, BlockPending(c, p) PROVE SourceStateAgree'
  <2>. DEFINE row == [pay[p] EXCEPT !.trip = None, !.src = "blocked", !.state = "blocked"]
  <2>1. BlockedAgrees(row) /\ ManualAgrees(row)
    BY <1>2, <1>p DEF BlockPending, BlockedAgrees, ManualAgrees, PaymentRow
  <2>2. pay' = [pay EXCEPT ![p] = row] /\ outdated' = outdated BY <1>2 DEF BlockPending
  <2>. HIDE DEF row
  <2>. QED BY <1>p, <2>1, <2>2, AgreeWritten
<1>3. ASSUME NEW p \in Payments, ReadBefore(c, p) \/ DeletePayment(c, p) PROVE SourceStateAgree'
  BY <1>a, <1>3 DEF ReadBefore, DeletePayment
<1>4. ASSUME NEW patch \in Patches, UpdateCommit(c, patch) PROVE SourceStateAgree'
  <2>. DEFINE p == req[c].p
              row == Patched(pay[p], patch, req[c].t)
  <2>1. CASE p \in LivePayments
    <3>1. /\ pay' = [pay EXCEPT ![p] = row]
          /\ outdated' = IF pay[p].trip # req[c].t THEN outdated \cup {p} ELSE outdated
      BY <1>4, <2>1 DEF UpdateCommit
    <3>2. BlockedAgrees(row) /\ (req[c].t = pay[p].trip /\ ManualAgrees(pay[p]) => ManualAgrees(row))
      BY <1>p, <2>1, AgreePatched
    <3>3. p \notin outdated' => req[c].t = pay[p].trip /\ ManualAgrees(pay[p])
      BY <1>p, <2>1, <3>1
    <3>4. outdated \subseteq outdated' BY <3>1
    <3>. HIDE DEF row
    <3>. QED BY <1>p, <2>1, <3>1, <3>2, <3>3, <3>4, AgreeWritten
  <2>2. CASE p \notin LivePayments BY <1>a, <1>4, <2>2 DEF UpdateCommit
  <2>. QED BY <2>1, <2>2
<1>5. CASE AssignPendingCommit(c)
  <2>. DEFINE p == req[c].p
              row == [pay[p] EXCEPT !.trip = req[c].t, !.src = "manual", !.state = "assigned"]
  <2>1. req[c].t # None BY <1>p, <1>5 DEF AssignPendingCommit, Step, TripInHand
  <2>2. CASE p \in LivePayments
    <3>1. BlockedAgrees(row) /\ ManualAgrees(row)
      BY <1>p, <2>1, <2>2 DEF BlockedAgrees, ManualAgrees, PaymentRow
    <3>2. pay' = [pay EXCEPT ![p] = row] /\ outdated' = outdated
      BY <1>5, <2>2 DEF AssignPendingCommit
    <3>. HIDE DEF row
    <3>. QED BY <1>p, <2>2, <3>1, <3>2, AgreeWritten
  <2>3. CASE p \notin LivePayments BY <1>a, <1>5, <2>3 DEF AssignPendingCommit
  <2>. QED BY <2>2, <2>3
<1>6. CASE ReadAfter(c) BY <1>a, <1>6 DEF ReadAfter
<1>7. CASE AutoAssign(c)
  <2>. DEFINE p == req[c].p
              row == [Matched(window, pay[p], req[c].at) EXCEPT !.src = "auto"]
  <2>1. CASE p \in LivePayments
    <3>1. Matched(window, pay[p], req[c].at) \in PaymentRow BY <1>p, <2>1, MatchedRow
    <3>2. row.src = "auto" BY <3>1 DEF PaymentRow
    <3>3. pay' = [pay EXCEPT ![p] = row] /\ outdated' = outdated BY <1>7, <2>1 DEF AutoAssign
    <3>. HIDE DEF row
    <3>4. BlockedAgrees(row) /\ ManualAgrees(row) BY <3>2 DEF BlockedAgrees, ManualAgrees
    <3>. QED BY <1>p, <2>1, <3>3, <3>4, AgreeWritten
  <2>2. CASE p \notin LivePayments BY <1>a, <1>7, <2>2 DEF AutoAssign
  <2>. QED BY <2>1, <2>2
<1>8. ASSUME NEW p \in Payments, pay' = [pay EXCEPT ![p] = Gone], UNCHANGED outdated
      PROVE  SourceStateAgree'
  <2>1. ~Exists(Gone) BY DEF Exists
  <2>. QED BY <1>p, <1>8, <2>1, AgreeWritten
<1>9. CASE DeletePaymentCommit(c) BY <1>a, <1>p, <1>8, <1>9 DEF DeletePaymentCommit
<1>10. ASSUME NEW p \in Payments, CancelUpload(c, p) PROVE SourceStateAgree'
  BY <1>8, <1>10 DEF CancelUpload
<1>. QED
  BY <1>1, <1>2, <1>3, <1>4, <1>5, <1>6, <1>7, <1>9, <1>10 DEF PaymentStep

LEMMA AgreeSteps ==
    ASSUME IInv, SourceStateAgree, [Next]_vars
    PROVE  SourceStateAgree'
<1>. USE DEF tables, history
<1>a. ASSUME UNCHANGED <<pay, outdated>> PROVE SourceStateAgree'
  BY <1>a DEF SourceStateAgree, LivePayments
<1>1. ASSUME NEW c \in Clients, InvoiceStep(c) PROVE SourceStateAgree'
  BY <1>a, <1>1 DEF InvoiceStep, CreateInvoice, ReadInvoice, LinkPayment, UnlinkPayment,
                   DeleteInvoice, UpdateInvoiceCommit, DeleteInvoiceCommit, ReadLinked
<1>2. ASSUME NEW c \in Clients, FlagStep(c) PROVE SourceStateAgree'
  BY <1>a, <1>2 DEF FlagStep, CountBadDebt, WriteFlag, RequestEnds
<1>3. ASSUME NEW p \in Payments, NEW at \in Times, OCRSetsTime(p, at) PROVE SourceStateAgree'
  <2>. DEFINE row == [pay[p] EXCEPT !.at = at]
  <2>1. p \in LivePayments /\ pay' = [pay EXCEPT ![p] = row] /\ outdated' = outdated
    BY <1>3 DEF OCRSetsTime
  <2>2. pay[p] \in PaymentRow /\ TypeOK BY <2>1, LiveRows DEF IInv
  <2>3. BlockedAgrees(row) /\ (p \notin outdated => ManualAgrees(row))
    BY <2>1, <2>2 DEF SourceStateAgree, BlockedAgrees, ManualAgrees, PaymentRow
  <2>. HIDE DEF row
  <2>. QED BY <2>1, <2>2, <2>3, AgreeWritten
<1>4. ASSUME NEW P, NEW I, SweepDrafts(P, I) PROVE SourceStateAgree'
  <2>1. /\ outdated' = outdated
        /\ \A p \in Payments : pay'[p] = IF p \in P THEN Gone ELSE pay[p]
    BY <1>4 DEF SweepDrafts
  <2>2. AllAgree(pay', outdated') BY <2>1, AgreeIsAllAgree DEF AllAgree, Exists
  <2>. QED BY <2>2, AgreeIsAllAgree
<1>5. CASE UNCHANGED vars BY <1>a, <1>5 DEF vars
<1>. QED BY <1>1, <1>2, <1>3, <1>4, <1>5, AgreeTrips, AgreePayments DEF Next

\* Source, state and trip of every payment tell the same, however the requests
\* of any number of tabs overlap; a payment is excused from the moment a request
\* writes it on the ground of a trip that is no longer the payment's.
THEOREM SourcesAgree == Spec => []SourceStateAgree
<1>1. ASSUME Init PROVE IInv /\ SourceStateAgree
  BY <1>1, InitEstablishesIInv DEF Init, SourceStateAgree, LivePayments, Exists
<1>2. ASSUME IInv, SourceStateAgree, [Next]_vars PROVE IInv' /\ SourceStateAgree'
  BY <1>2, NextKeepsIInv, AgreeSteps
<1>. QED BY <1>1, <1>2, PTL DEF Spec

-----------------------------------------------------------------------------
(* The flag of a trip and the requests that owe it.                         *)

\* No payment hangs on, or is about to be given, a trip that was never made.
TripsWereMade ==
    /\ \A p \in LivePayments : pay[p].trip \in Trips => window[pay[p].trip] # Unborn
    /\ \A c \in Clients : req[c].pc = "pending" => window[req[c].t] # Unborn

\* The bad debts of the trips there are.  Each has its flag, or the loss of a
\* refresh is on record, or a request in flight is going to set the flag: it has
\* the trip on its list, has just counted it as bad, or is busy with that payment.
BadDebts == {p \in LivePayments : ~pay[p].draft /\ pay[p].bad /\ pay[p].trip \in LiveTrips}
Refreshes(c, t) ==
    \/ req[c].pc \in {"recalc", "flag"} /\ t \in req[c].todo
    \/ req[c].pc = "flag" /\ req[c].flag /\ t = req[c].t
Cares(c, p) ==
    \/ Refreshes(c, pay[p].trip)
    \/ req[c].pc \in {"reread", "assign"} /\ req[c].p = p
Followed ==
    \A p \in BadDebts :
        pay[p].trip \in locked \cup doubt \/ \E c \in Clients : Cares(c, p)

LockInv == IInv /\ TripsWereMade /\ Followed

\* Assignment finds trips that are there.
LEMMA MatchedTrip ==
    ASSUME NEW w, NEW row \in PaymentRow, NEW at, Matched(w, row, at).trip # None
    PROVE  Matched(w, row, at).trip \in Trips /\ Exists(w[Matched(w, row, at).trip])
<1>. DEFINE ts == Cover(w, at)
<1>1. CASE \E t \in Trips : ts = {t}
  <2>1. PICK t \in Trips : ts = {t} BY <1>1
  <2>2. (CHOOSE u \in ts : TRUE) = t BY <2>1
  <2>3. Matched(w, row, at) = [row EXCEPT !.trip = t, !.state = "assigned"]
    BY <1>1, <2>2 DEF Matched
  <2>4. Exists(w[t]) BY <2>1 DEF Cover
  <2>. QED BY <2>3, <2>4 DEF PaymentRow
<1>2. CASE ~\E t \in Trips : ts = {t}
  <2>1. Matched(w, row, at) =
          [row EXCEPT !.trip = None, !.state = IF ts = {} THEN "no_match" ELSE "overlap"]
    BY <1>2 DEF Matched
  <2>2. Matched(w, row, at).trip = None BY <2>1 DEF PaymentRow
  <2>. QED BY <2>2
<1>. QED BY <1>1, <1>2

\* What other requests take care of, they still do after a step of c.
LEMMA OthersCare ==
    ASSUME TypeOK, NEW c \in Clients, NEW from, NEW to, Step(c, from, to),
           NEW p, pay'[p].trip = pay[p].trip, NEW d \in Clients, d # c, Cares(d, p)
    PROVE  Cares(d, p)'
<1>1. req'[d] = req[d] BY DEF Step, TypeOK
<1>. QED BY <1>1 DEF Cares, Refreshes

\* Steps of a request that takes care of nothing yet: they bring no bad debt, or
\* take care of it.
LEMMA StillFollowed ==
    ASSUME TypeOK, Followed, NEW c \in Clients, NEW from, NEW to, Step(c, from, to),
           from \notin {"recalc", "flag", "reread", "assign"},
           \A p \in BadDebts' :
              \/ /\ p \in BadDebts /\ pay'[p].trip = pay[p].trip
                 /\ pay[p].trip \in locked \cup doubt => pay[p].trip \in locked' \cup doubt'
              \/ to.pc = "recalc" /\ pay'[p].trip \in to.todo
              \/ to.pc = "reread" /\ p = to.p
    PROVE  Followed'
<1>1. req[c].pc = from /\ req'[c] = to BY DEF Step, TypeOK
<1>. SUFFICES ASSUME NEW p \in BadDebts'
              PROVE  pay'[p].trip \in locked' \cup doubt' \/ \E d \in Clients : Cares(d, p)'
  BY DEF Followed
<1>2. CASE to.pc = "recalc" /\ pay'[p].trip \in to.todo BY <1>1, <1>2 DEF Cares, Refreshes
<1>3. CASE to.pc = "reread" /\ p = to.p BY <1>1, <1>3 DEF Cares
<1>4. CASE /\ p \in BadDebts /\ pay'[p].trip = pay[p].trip
           /\ pay[p].trip \in locked \cup doubt => pay[p].trip \in locked' \cup doubt'
  <2>1. CASE pay[p].trip \in locked \cup doubt BY <1>4, <2>1
  <2>2. CASE \E d \in Clients : Cares(d, p)
    <3>1. PICK d \in Clients : Cares(d, p) BY <2>2
    <3>2. d # c BY <1>1, <3>1 DEF Cares, Refreshes
    <3>3. Cares(d, p)' BY <1>4, <3>1, <3>2, OthersCare
    <3>. QED BY <3>3
  <2>. QED BY <1>4, <2>1, <2>2 DEF Followed
<1>. QED BY <1>2, <1>3, <1>4

LEMMA RecalcIs ==
    ASSUME NEW S
    PROVE  /\ Recalc(S).pc \in {"idle", "recalc"}
           /\ S # {} => Recalc(S).pc = "recalc" /\ Recalc(S).todo = S
BY DEF Recalc, Idle

\* An edit of the calendar, whose rows P were left to be recomputed.
LEMMA EditFollowed ==
    ASSUME NEW c \in Clients, LockInv, NEW P \in PayType, NEW lo, NEW hi,
           \A p \in Payments : Exists(P[p]) => P[p] = pay[p],
           \A t \in Trips : Exists(window'[t]) /\ window[t] # Unborn => Exists(window[t]),
           \A t \in Trips : t \in locked /\ Exists(window'[t]) => t \in locked',
           pay' = Recompute(window', P, lo, hi), UNCHANGED doubt,
           Step(c, "idle", Recalc(Affected(window', P, lo, hi)))
    PROVE  Followed'
<1>. USE DEF LockInv, IInv
<1>. DEFINE S == Affected(window', P, lo, hi)
<1>2. S # {} => Recalc(S).pc = "recalc" /\ Recalc(S).todo = S BY RecalcIs
<1>3. ASSUME NEW p \in BadDebts'
      PROVE  \/ p \in BadDebts /\ pay'[p].trip = pay[p].trip
                /\ (pay[p].trip \in locked \cup doubt => pay[p].trip \in locked' \cup doubt')
             \/ Recalc(S).pc = "recalc" /\ pay'[p].trip \in Recalc(S).todo
  <2>1. /\ p \in Payments /\ Exists(pay'[p]) /\ ~pay'[p].draft /\ pay'[p].bad
        /\ pay'[p].trip \in Trips /\ Exists(window'[pay'[p].trip])
    BY <1>3 DEF BadDebts, LivePayments, LiveTrips
  <2>2. Exists(P[p]) BY <2>1, RecomputedRows
  <2>3. pay[p] = P[p] /\ p \in LivePayments BY <2>1, <2>2 DEF LivePayments
  <2>4. /\ pay'[p].bad = pay[p].bad /\ pay'[p].draft = pay[p].draft
        /\ \/ pay'[p] = pay[p]
           \/ p \in InRange(P, lo, hi) /\ pay'[p] = Matched(window', P[p], P[p].at)
    <3>. DEFINE w == window'
                row == pay'[p]
    <3>1. row = Recompute(w, P, lo, hi)[p] OBVIOUS
    <3>2. p \in Payments /\ Exists(P[p]) /\ P[p] = pay[p] BY <2>1, <2>2, <2>3
    <3>. HIDE DEF w, row
    <3>3. /\ row.bad = P[p].bad /\ row.draft = P[p].draft
          /\ row = P[p] \/ (p \in InRange(P, lo, hi) /\ row = Matched(w, P[p], P[p].at))
      BY <3>1, <3>2, RecomputedRow
    <3>. QED BY <3>2, <3>3 DEF w, row
  <2>5. CASE pay'[p] = pay[p]
    <3>1. window[pay[p].trip] # Unborn BY <2>1, <2>3, <2>5 DEF TripsWereMade
    <3>2. Exists(window[pay[p].trip]) BY <2>1, <2>5, <3>1
    <3>3. p \in BadDebts BY <2>1, <2>3, <2>5, <3>2 DEF BadDebts, LiveTrips
    <3>. QED BY <2>1, <2>5, <3>3
  <2>6. CASE p \in InRange(P, lo, hi) /\ pay'[p] = Matched(window', P[p], P[p].at)
    <3>1. pay'[p].trip # None BY <2>1, RowsAssumption
    <3>2. p \in {q \in InRange(P, lo, hi) : P[q].bad} BY <2>1, <2>3, <2>4, <2>6
    <3>3. pay'[p].trip = Recompute(window', P, lo, hi)[p].trip OBVIOUS
    <3>4. pay'[p].trip \in S BY <3>1, <3>2, <3>3 DEF Affected
    <3>. QED BY <1>2, <3>4
  <2>. QED BY <2>4, <2>5, <2>6
<1>4. Step(c, "idle", Recalc(S)) /\ TypeOK /\ Followed OBVIOUS
<1>. HIDE DEF S
<1>. QED BY <1>3, <1>4, StillFollowed

\* A statement that touches no trip and at most the payment p.
LEMMA WriteFollowed ==
    ASSUME LockInv, NEW c \in Clients, NEW p \in Payments, NEW row, NEW from, NEW to,
           Step(c, from, to), from \notin {"recalc", "flag", "reread", "assign"},
           pay' = [pay EXCEPT ![p] = row], UNCHANGED <<window, locked, doubt>>,
           p \in BadDebts' =>
              \/ to.pc = "recalc" /\ pay'[p].trip \in to.todo
              \/ to.pc = "reread" /\ p = to.p
    PROVE  Followed'
<1>1. \A q \in Payments \ {p} : pay'[q] = pay[q] BY DEF LockInv, IInv, TypeOK
<1>2. \A q \in BadDebts' : q = p \/ (q \in BadDebts /\ pay'[q].trip = pay[q].trip)
  BY <1>1 DEF BadDebts, LivePayments, LiveTrips
<1>. QED BY <1>2, StillFollowed DEF LockInv, IInv

\* A statement that touches neither trips nor payments.
LEMMA AsideFollowed ==
    ASSUME LockInv, NEW c \in Clients, UNCHANGED <<window, locked, doubt, pay>>,
           NEW from, NEW to, Step(c, from, to),
           from \notin {"recalc", "flag", "reread", "assign"}
    PROVE  Followed'
<1>1. BadDebts' = BadDebts /\ \A p : pay'[p].trip = pay[p].trip BY DEF BadDebts, LivePayments, LiveTrips
<1>. QED BY <1>1, StillFollowed DEF LockInv, IInv

LEMMA TripFollowed ==
    ASSUME NEW c \in Clients, LockInv, TripStep(c)
    PROVE  Followed'
<1>. USE DEF tables, history
<1>p. TypeOK /\ pay \in PayType /\ TripsWereMade /\ Followed
  BY DEF LockInv, IInv, TypeOK, PayType
<1>w. \A w \in Windows : Exists(w) BY RowsExist
<1>. PICK t \in Trips :
        \/ \E w \in Windows : CreateTrip(c, t, w) \/ UpdateTrip(c, t, w)
        \/ DeleteTripCascade(c, t) \/ DeleteTripKeep(c, t)
        \/ \E p \in Payments : AssignPending(c, p, t)
  BY DEF TripStep, DeleteTrip
<1>1. ASSUME NEW w \in Windows, CreateTrip(c, t, w) \/ UpdateTrip(c, t, w)
      PROVE  Followed'
  <2>1. PICK lo, hi : /\ pay' = Recompute(window', pay, lo, hi)
                      /\ Step(c, "idle", Recalc(Affected(window', pay, lo, hi)))
    BY <1>1 DEF CreateTrip, UpdateTrip
  <2>2. /\ window' = [window EXCEPT ![t] = w] /\ UNCHANGED <<locked, doubt>>
        /\ window[t] = Unborn \/ Exists(window[t])
    BY <1>1 DEF CreateTrip, UpdateTrip, LiveTrips
  <2>3. \A u \in Trips : Exists(window'[u]) /\ window[u] # Unborn => Exists(window[u])
    BY <2>2, <1>p DEF TypeOK
  <2>. QED BY <1>p, <2>1, <2>2, <2>3, EditFollowed
<1>2. CASE DeleteTripCascade(c, t)
  <2>1. Left(t) \in PayType BY <1>p, LeftRows
  <2>2. \A p \in Payments : Exists(Left(t)[p]) => Left(t)[p] = pay[p] BY DEF Left, Exists
  <2>3. /\ pay' = Recompute(window', Left(t), window[t][1], window[t][2])
        /\ Step(c, "idle", Recalc(Affected(window', Left(t), window[t][1], window[t][2])))
    BY <1>2 DEF DeleteTripCascade, Left
  <2>4. window' = [window EXCEPT ![t] = Gone] /\ locked' = locked \ {t} /\ doubt' = doubt
    BY <1>2 DEF DeleteTripCascade
  <2>5. \A u \in Trips : Exists(window'[u]) => u # t /\ window'[u] = window[u]
    BY <1>p, <2>4 DEF Exists, TypeOK
  <2>. QED BY <2>1, <2>2, <2>3, <2>4, <2>5, EditFollowed
<1>3. CASE DeleteTripKeep(c, t)
  <2>1. Step(c, "idle", Idle) BY <1>3 DEF DeleteTripKeep
  <2>2. window' = [window EXCEPT ![t] = Gone] /\ locked' = locked \ {t} /\ doubt' = doubt
    BY <1>3 DEF DeleteTripKeep
  <2>3. ASSUME NEW p \in BadDebts' PROVE p \in BadDebts /\ pay'[p].trip = pay[p].trip /\ pay[p].trip # t
    <3>1. /\ p \in Payments /\ Exists(pay'[p]) /\ ~pay'[p].draft /\ pay'[p].bad
          /\ pay'[p].trip \in Trips /\ Exists(window'[pay'[p].trip])
      BY <2>3 DEF BadDebts, LivePayments, LiveTrips
    <3>2. pay'[p] = IF p \in ConfirmedUnder(t) THEN Released(pay[p]) ELSE pay[p]
      BY <1>3, <3>1 DEF DeleteTripKeep
    <3>3. p \notin ConfirmedUnder(t)
      <4>1. p \in ConfirmedUnder(t) => Released(pay[p]).trip = None
        BY <1>p, LiveRows DEF ConfirmedUnder, Confirmed, Released, PaymentRow
      <4>. QED BY <3>1, <3>2, <4>1, RowsAssumption
    <3>4. pay'[p].trip # t /\ window'[pay'[p].trip] = window[pay'[p].trip]
      BY <1>p, <2>2, <3>1 DEF Exists, TypeOK
    <3>. QED BY <3>1, <3>2, <3>3, <3>4 DEF BadDebts, LivePayments, LiveTrips
  <2>. QED BY <1>p, <2>1, <2>2, <2>3, StillFollowed
<1>4. ASSUME NEW p \in Payments, AssignPending(c, p, t) PROVE Followed'
  <2>. DEFINE to == [Idle EXCEPT !.pc = "pending", !.p = p, !.t = t]
  <2>1. Step(c, "idle", to) /\ UNCHANGED <<window, locked, doubt, pay>> BY <1>4 DEF AssignPending
  <2>. HIDE DEF to
  <2>. QED BY <2>1, AsideFollowed
<1>. QED BY <1>1, <1>2, <1>3, <1>4

LEMMA PaymentFollowed ==
    ASSUME NEW c \in Clients, LockInv, PaymentStep(c)
    PROVE  Followed'
<1>. USE DEF tables, history
<1>p. /\ TypeOK /\ pay \in PayType /\ req[c] \in Request /\ Followed
      /\ \A p \in LivePayments : p \in Payments /\ pay[p] \in PaymentRow
      /\ Idle.pc = "idle"
  BY LiveRows DEF LockInv, IInv, TypeOK, PayType, LivePayments, Idle
<1>r. ASSUME NEW from, NEW to, Step(c, from, to) PROVE req[c].pc = from /\ req'[c] = to
  BY <1>p, <1>r DEF Step, TypeOK
<1>1. ASSUME NEW p \in Payments, NEW at \in Times, CreatePayment(c, p, at) \/ UploadDraft(c, p, at)
      PROVE  Followed'
  <2>1. ASSUME NEW d \in BOOLEAN PROVE NewPayment(at, d) \in PaymentRow /\ ~NewPayment(at, d).bad
    BY DEF NewPayment, PaymentRow
  <2>2. ~Matched(window, NewPayment(at, FALSE), at).bad
    <3>. DEFINE row == NewPayment(at, FALSE)
    <3>1. row \in PaymentRow /\ ~row.bad BY <2>1
    <3>. HIDE DEF row
    <3>2. ~Matched(window, row, at).bad BY <3>1, MatchedRow
    <3>. QED BY <3>2 DEF row
  <2>3. PICK row : ~row.bad /\ pay' = [pay EXCEPT ![p] = row] /\ UNCHANGED <<window, locked, doubt>>
                   /\ Step(c, "idle", Idle)
    BY <1>1, <2>1, <2>2 DEF CreatePayment, UploadDraft
  <2>4. p \notin BadDebts' BY <1>p, <2>3 DEF BadDebts, TypeOK
  <2>. QED BY <1>p, <1>r, <2>3, <2>4, WriteFollowed
<1>2. ASSUME NEW p \in Payments, BlockPending(c, p) PROVE Followed'
  <2>. DEFINE row == [pay[p] EXCEPT !.trip = None, !.src = "blocked", !.state = "blocked"]
  <2>1. row.trip = None BY <1>p, <1>2 DEF BlockPending, PaymentRow
  <2>2. pay' = [pay EXCEPT ![p] = row] /\ UNCHANGED <<window, locked, doubt>> /\ Step(c, "idle", Idle)
    BY <1>2 DEF BlockPending
  <2>. HIDE DEF row
  <2>3. p \notin BadDebts' BY <1>p, <2>1, <2>2, RowsAssumption DEF BadDebts, TypeOK, LiveTrips
  <2>. QED BY <1>p, <1>r, <2>2, <2>3, WriteFollowed
<1>3. ASSUME NEW p \in Payments, ReadBefore(c, p) \/ DeletePayment(c, p)
      PROVE  Followed'
  <2>. DEFINE upd == [Idle EXCEPT !.pc = "update", !.p = p, !.t = pay[p].trip,
                                  !.todo = IF pay[p].bad THEN TripOf(p) ELSE {}]
              del == [Idle EXCEPT !.pc = "delpay", !.p = p, !.todo = TripOf(p)]
  <2>1. /\ Step(c, "idle", upd) \/ Step(c, "idle", del)
        /\ UNCHANGED <<window, locked, doubt, pay>>
    BY <1>3 DEF ReadBefore, DeletePayment
  <2>. HIDE DEF upd, del
  <2>. QED BY <2>1, AsideFollowed
<1>4. ASSUME NEW patch \in Patches, UpdateCommit(c, patch) PROVE Followed'
  <2>. DEFINE p == req[c].p
  <2>1. CASE p \in LivePayments
    <3>. DEFINE to == [req[c] EXCEPT !.pc = "reread", !.t = None, !.auto = patch.at # Keep \/ patch.confirm]
    <3>1. Step(c, "update", to) /\ UNCHANGED <<window, locked, doubt>>
          /\ pay' = [pay EXCEPT ![p] = Patched(pay[p], patch, req[c].t)]
      BY <1>4, <2>1 DEF UpdateCommit
    <3>2. to.pc = "reread" /\ to.p = p BY <1>p DEF Request
    <3>. HIDE DEF to
    <3>. QED BY <1>p, <2>1, <3>1, <3>2, WriteFollowed
  <2>2. CASE p \notin LivePayments
    <3>1. UNCHANGED <<window, locked, doubt, pay>> /\ Step(c, "update", Idle) BY <1>4, <2>2 DEF UpdateCommit
    <3>. QED BY <1>p, <3>1, AsideFollowed
  <2>. QED BY <2>1, <2>2
<1>5. CASE AssignPendingCommit(c)
  <2>. DEFINE p == req[c].p
              row == [pay[p] EXCEPT !.trip = req[c].t, !.src = "manual", !.state = "assigned"]
              to == Recalc({req[c].t})
  <2>1. Step(c, "pending", to) /\ UNCHANGED <<window, locked, doubt>>
    BY <1>5 DEF AssignPendingCommit
  <2>2. to.pc = "recalc" /\ to.todo = {req[c].t} BY RecalcIs
  <2>. HIDE DEF to
  <2>3. CASE p \in LivePayments
    <3>1. pay' = [pay EXCEPT ![p] = row] BY <1>5, <2>3 DEF AssignPendingCommit
    <3>2. row.trip = req[c].t BY <1>p, <2>3 DEF PaymentRow
    <3>. HIDE DEF row
    <3>3. pay'[p].trip \in to.todo BY <1>p, <2>2, <2>3, <3>1, <3>2 DEF TypeOK
    <3>. QED BY <1>p, <2>1, <2>2, <2>3, <3>1, <3>3, WriteFollowed
  <2>4. CASE p \notin LivePayments
    <3>1. UNCHANGED pay BY <1>5, <2>4 DEF AssignPendingCommit
    <3>. QED BY <2>1, <3>1, AsideFollowed
  <2>. QED BY <2>3, <2>4
<1>6. CASE DeletePaymentCommit(c)
  <2>. DEFINE p == req[c].p
  <2>1. CASE p \in LivePayments
    <3>1. PICK to : /\ pay' = [pay EXCEPT ![p] = Gone] /\ UNCHANGED <<window, locked, doubt>>
                    /\ Step(c, "delpay", to)
      BY <1>6, <2>1 DEF DeletePaymentCommit
    <3>2. p \notin BadDebts' BY <1>p, <2>1, <3>1 DEF BadDebts, LivePayments, Exists, TypeOK
    <3>. QED BY <1>p, <2>1, <3>1, <3>2, WriteFollowed
  <2>2. CASE p \notin LivePayments
    <3>1. UNCHANGED <<window, locked, doubt, pay>> /\ Step(c, "delpay", Idle)
      BY <1>6, <2>2 DEF DeletePaymentCommit
    <3>. QED BY <1>p, <3>1, AsideFollowed
  <2>. QED BY <2>1, <2>2
<1>c. ASSUME NEW q \in BadDebts, pay'[q].trip = pay[q].trip, NEW from, NEW to, Step(c, from, to)
      PROVE  \/ pay[q].trip \in locked \cup doubt
             \/ Cares(c, q)
             \/ \E d \in Clients : Cares(d, q)'
  BY <1>p, <1>c, OthersCare DEF Followed
<1>7. CASE ReadAfter(c)
  <2>. DEFINE p == req[c].p
              to == [req[c] EXCEPT !.pc = "assign", !.at = pay[p].at]
              S == req[c].todo \cup (IF pay[p].bad THEN TripOf(p) ELSE {})
              next == IF p \notin LivePayments THEN Idle
                      ELSE IF req[c].auto /\ pay[p].src = "auto" THEN to ELSE Recalc(S)
  <2>1. UNCHANGED <<window, locked, doubt, pay>> /\ Step(c, "reread", next)
    BY <1>7 DEF ReadAfter
  <2>2. req[c].pc = "reread" /\ req'[c] = next BY <1>r, <2>1
  <2>3. to.pc = "assign" /\ to.p = p BY <1>p DEF Request
  <2>4. S # {} => Recalc(S).pc = "recalc" /\ Recalc(S).todo = S BY RecalcIs
  <2>. HIDE DEF to, S
  <2>5. ASSUME NEW q \in BadDebts, q = p PROVE Cares(c, q)'
    <3>1. q \in LivePayments /\ pay'[q].trip = pay[q].trip BY <2>1 DEF BadDebts
    <3>2. CASE req[c].auto /\ pay[p].src = "auto" BY <2>2, <2>3, <2>5, <3>1, <3>2 DEF Cares
    <3>3. CASE ~(req[c].auto /\ pay[p].src = "auto")
      <4>1. pay[q].trip \in S
        BY <2>5, RowsAssumption DEF BadDebts, TripOf, LiveTrips, S
      <4>2. req'[c] = Recalc(S) BY <2>2, <2>5, <3>1, <3>3
      <4>. QED BY <2>4, <3>1, <4>1, <4>2 DEF Cares, Refreshes
    <3>. QED BY <3>2, <3>3
  <2>6. ASSUME NEW q \in BadDebts, q # p, Cares(c, q) PROVE FALSE
    BY <2>2, <2>6 DEF Cares, Refreshes
  <2>. HIDE DEF next
  <2>7. BadDebts' = BadDebts /\ \A q : pay'[q].trip = pay[q].trip
    BY <2>1 DEF BadDebts, LivePayments, LiveTrips
  <2>. QED BY <1>c, <2>1, <2>5, <2>6, <2>7 DEF Followed
<1>8. CASE AutoAssign(c)
  <2>. DEFINE p == req[c].p
              to == [req[c] EXCEPT !.pc = "reread", !.at = None, !.auto = FALSE]
  <2>1. Step(c, "assign", to) /\ UNCHANGED <<window, locked, doubt>>
        /\ \E row : pay' = IF p \in LivePayments THEN [pay EXCEPT ![p] = row] ELSE pay
    BY <1>8 DEF AutoAssign
  <2>2. to.pc = "reread" /\ to.p = p BY <1>p DEF Request
  <2>. HIDE DEF to
  <2>3. req[c].pc = "assign" /\ req'[c].pc = "reread" /\ req'[c].p = p BY <1>r, <2>1, <2>2
  <2>4. \A q \in Payments \ {p} : pay'[q] = pay[q] BY <1>p, <2>1 DEF TypeOK
  <2>5. \A q \in BadDebts' : q = p \/ (q \in BadDebts /\ pay'[q].trip = pay[q].trip)
    BY <2>1, <2>4 DEF BadDebts, LivePayments, LiveTrips
  <2>6. ASSUME NEW q \in BadDebts', q = p PROVE Cares(c, q)' BY <2>3, <2>6 DEF Cares
  <2>7. ASSUME NEW q \in BadDebts, q # p, Cares(c, q) PROVE FALSE
    BY <2>3, <2>7 DEF Cares, Refreshes
  <2>8. \A q \in BadDebts' : q # p =>
           pay[q].trip \in locked \cup doubt \/ \E d \in Clients : Cares(d, q)'
    BY <1>c, <2>1, <2>5, <2>7
  <2>. QED BY <2>1, <2>5, <2>6, <2>8 DEF Followed
<1>9. ASSUME NEW p \in Payments, CancelUpload(c, p) PROVE Followed'
  <2>1. pay' = [pay EXCEPT ![p] = Gone] /\ UNCHANGED <<window, locked, doubt>>
        /\ Step(c, "idle", Idle)
    BY <1>9 DEF CancelUpload
  <2>2. p \notin BadDebts' BY <1>p, <2>1 DEF BadDebts, LivePayments, Exists, TypeOK
  <2>. QED BY <2>1, <2>2, WriteFollowed
<1>. QED BY <1>1, <1>2, <1>3, <1>4, <1>5, <1>6, <1>7, <1>8, <1>9 DEF PaymentStep

LEMMA InvoiceFollowed ==
    ASSUME LockInv, NEW c \in Clients, InvoiceStep(c)
    PROVE  Followed'
<1>1. /\ UNCHANGED <<window, locked, doubt, pay>>
      /\ \E from \in {"idle", "updinv", "delinv", "linked"} : \E to : Step(c, from, to)
  <2>1. UNCHANGED <<window, locked, doubt, pay>>
    BY DEF InvoiceStep, CreateInvoice, ReadInvoice, LinkPayment, UnlinkPayment, DeleteInvoice,
           UpdateInvoiceCommit, DeleteInvoiceCommit, ReadLinked, tables, history
  <2>2. ASSUME NEW bad, NEW confirm, UpdateInvoiceCommit(c, bad, confirm)
        PROVE  \E to : Step(c, "updinv", to)
    BY <2>2 DEF UpdateInvoiceCommit
  <2>3. ASSUME DeleteInvoiceCommit(c) PROVE \E to : Step(c, "delinv", to)
    BY <2>3 DEF DeleteInvoiceCommit
  <2>4. ASSUME ReadLinked(c) PROVE \E to : Step(c, "linked", to)
    BY <2>4 DEF ReadLinked
  <2>5. ASSUME NEW i, NEW p, NEW draft,
               \/ CreateInvoice(c, i, p, draft) \/ ReadInvoice(c, i, p)
               \/ LinkPayment(c, i, p) \/ UnlinkPayment(c, i, p) \/ DeleteInvoice(c, i)
        PROVE  \E to : Step(c, "idle", to)
    BY <2>5 DEF CreateInvoice, ReadInvoice, LinkPayment, UnlinkPayment, DeleteInvoice
  <2>. QED BY <2>1, <2>2, <2>3, <2>4, <2>5 DEF InvoiceStep
<1>. QED BY <1>1, AsideFollowed

LEMMA FlagFollowed ==
    ASSUME LockInv, NEW c \in Clients, FlagStep(c)
    PROVE  Followed'
<1>. USE DEF tables, history
<1>p. TypeOK /\ req[c] \in Request /\ Followed BY DEF LockInv, IInv, TypeOK
<1>b. UNCHANGED <<window, pay>> /\ BadDebts' = BadDebts /\ \A p : pay'[p].trip = pay[p].trip
  <2>1. UNCHANGED <<window, pay>> BY DEF FlagStep, CountBadDebt, WriteFlag, RequestEnds
  <2>. QED BY <2>1 DEF BadDebts, LivePayments, LiveTrips
<1>n. ASSUME NEW t, ~BadUnder(t) PROVE \A p \in BadDebts : pay[p].trip # t
  BY <1>n DEF BadUnder, BadDebts, ConfirmedUnder, Confirmed, LivePayments
<1>c. ASSUME NEW p \in BadDebts, NEW from, NEW to, Step(c, from, to)
      PROVE  \/ pay[p].trip \in locked \cup doubt
             \/ Cares(c, p)
             \/ \E d \in Clients : Cares(d, p)'
  BY <1>p, <1>b, <1>c, OthersCare DEF Followed
<1>1. CASE CountBadDebt(c)
  <2>. PICK t \in req[c].todo :
         Step(c, "recalc", [req[c] EXCEPT !.pc = "flag", !.t = t, !.todo = @ \ {t}, !.flag = BadUnder(t)])
    BY <1>1 DEF CountBadDebt
  <2>1. /\ req[c].pc = "recalc" /\ req'[c].pc = "flag" /\ req'[c].t = t
        /\ req'[c].todo = req[c].todo \ {t} /\ req'[c].flag = BadUnder(t)
    BY <1>p DEF Step, TypeOK, Request
  <2>2. UNCHANGED <<locked, doubt>> BY <1>1 DEF CountBadDebt
  <2>3. ASSUME NEW p \in BadDebts, Cares(c, p) PROVE Cares(c, p)'
    <3>1. pay[p].trip \in req[c].todo BY <2>1, <2>3 DEF Cares, Refreshes
    <3>2. CASE pay[p].trip # t BY <1>b, <2>1, <3>1, <3>2 DEF Cares, Refreshes
    <3>3. CASE pay[p].trip = t
      <4>1. BadUnder(t) BY <1>n, <3>3
      <4>. QED BY <1>b, <2>1, <3>3, <4>1 DEF Cares, Refreshes
    <3>. QED BY <3>2, <3>3
  <2>. QED BY <1>b, <1>c, <2>2, <2>3 DEF Followed
<1>2. CASE WriteFlag(c)
  <2>. DEFINE t == req[c].t
  <2>1. req[c].pc = "flag" /\ req'[c] = Recalc(req[c].todo)
        /\ Step(c, "flag", Recalc(req[c].todo))
    BY <1>p, <1>2 DEF WriteFlag, Step, TypeOK
  <2>2. req[c].todo # {} => Recalc(req[c].todo).pc = "recalc" /\ Recalc(req[c].todo).todo = req[c].todo
    BY RecalcIs
  <2>3. ASSUME NEW p \in BadDebts, pay[p].trip = t PROVE t \in locked' \cup doubt'
    <3>1. BadUnder(t) /\ t \in LiveTrips BY <1>n, <2>3 DEF BadDebts
    <3>2. CASE req[c].flag BY <1>2, <3>1, <3>2 DEF WriteFlag, SetFlag
    <3>3. CASE ~req[c].flag BY <1>2, <3>1, <3>3 DEF WriteFlag
    <3>. QED BY <3>2, <3>3
  <2>4. ASSUME NEW p \in BadDebts, pay[p].trip # t, pay[p].trip \in locked \cup doubt
        PROVE  pay[p].trip \in locked' \cup doubt'
    <3>1. locked \subseteq locked' \cup {t}
      <4>1. locked' = locked \cup {t} \/ locked' = locked \ {t} BY <1>2 DEF WriteFlag, SetFlag
      <4>. QED BY <4>1
    <3>2. doubt \subseteq doubt' \cup {t}
      <4>1. doubt' = doubt \cup {t} \/ doubt' = doubt \ {t} BY <1>2, Zenon DEF WriteFlag
      <4>. QED BY <4>1
    <3>. QED BY <2>4, <3>1, <3>2
  <2>5. ASSUME NEW p \in BadDebts, pay[p].trip # t, Cares(c, p) PROVE Cares(c, p)'
    <3>1. pay[p].trip \in req[c].todo BY <2>1, <2>5 DEF Cares, Refreshes
    <3>. QED BY <1>b, <2>1, <2>2, <3>1 DEF Cares, Refreshes
  <2>. HIDE DEF t
  <2>. QED BY <1>b, <1>c, <2>1, <2>3, <2>4, <2>5 DEF Followed
<1>3. CASE RequestEnds(c)
  <2>1. locked' = locked /\ doubt' = doubt \cup Owed(c) BY <1>3 DEF RequestEnds
  <2>2. PICK from, to : Step(c, from, to) BY <1>3 DEF RequestEnds
  <2>3. ASSUME NEW p \in BadDebts, Cares(c, p) PROVE pay[p].trip \in Owed(c)
    <3>1. pay[p].trip \in TripOf(p) BY RowsAssumption DEF BadDebts, TripOf, LiveTrips
    <3>. QED BY <2>3, <3>1 DEF Cares, Refreshes, Owed
  <2>. QED BY <1>b, <1>c, <2>1, <2>2, <2>3 DEF Followed
<1>. QED BY <1>1, <1>2, <1>3 DEF FlagStep

\* The recognition changes a time, the sweeper removes drafts: neither touches
\* a bad debt that counts.
LEMMA AsidesFollowed ==
    ASSUME LockInv,
           \/ \E p \in Payments, at \in Times : OCRSetsTime(p, at)
           \/ \E P \in SUBSET Drafts, I \in SUBSET InvoiceDrafts : SweepDrafts(P, I)
           \/ UNCHANGED vars
    PROVE  Followed'
<1>p. TypeOK /\ Followed BY DEF LockInv, IInv
<1>1. UNCHANGED <<window, locked, doubt, req>>
  BY DEF OCRSetsTime, SweepDrafts, vars, tables, history
<1>2. ASSUME NEW q \in LivePayments'
      PROVE  /\ q \in LivePayments /\ pay'[q].trip = pay[q].trip
             /\ pay'[q].bad = pay[q].bad /\ pay'[q].draft = pay[q].draft
  <2>1. CASE \E p \in Payments, at \in Times : OCRSetsTime(p, at)
    <3>1. PICK p \in LivePayments, at \in Times : pay' = [pay EXCEPT ![p].at = at]
      BY <2>1 DEF OCRSetsTime
    <3>2. pay[p] \in PaymentRow BY <1>p, LiveRows
    <3>. QED BY <1>p, <3>1, <3>2 DEF TypeOK, LivePayments, PaymentRow
  <2>2. CASE \E P \in SUBSET Drafts, I \in SUBSET InvoiceDrafts : SweepDrafts(P, I)
    <3>1. PICK P : \A p \in Payments : pay'[p] = IF p \in P THEN Gone ELSE pay[p]
      BY <2>2 DEF SweepDrafts
    <3>. QED BY <3>1 DEF LivePayments, Exists
  <2>3. CASE UNCHANGED vars BY <2>3 DEF vars, tables, LivePayments
  <2>. QED BY <2>1, <2>2, <2>3
<1>3. \A q \in BadDebts' : q \in BadDebts /\ pay'[q].trip = pay[q].trip
  BY <1>1, <1>2 DEF BadDebts, LiveTrips
<1>. QED BY <1>p, <1>1, <1>3 DEF Followed, Cares, Refreshes

\* What was made stays made, and payments are given trips that are there.
LEMMA MadeKept ==
    ASSUME TripsWereMade,
           \A t \in Trips : window[t] # Unborn => window'[t] # Unborn,
           \A p \in LivePayments' :
              \/ p \in LivePayments /\ pay'[p].trip = pay[p].trip
              \/ pay'[p].trip \in Trips => window'[pay'[p].trip] # Unborn,
           \A c \in Clients : req'[c].pc = "pending" =>
              req'[c].t \in Trips /\ (req'[c] = req[c] \/ window[req'[c].t] # Unborn)
    PROVE  TripsWereMade'
BY DEF TripsWereMade

LEMMA MadeSteps ==
    ASSUME IInv, TripsWereMade, [Next]_vars
    PROVE  TripsWereMade'
<1>. USE DEF tables, history
<1>p. /\ TypeOK /\ pay \in PayType /\ req \in [Clients -> Request] /\ TripInHand
      /\ \A p \in LivePayments : p \in Payments /\ pay[p] \in PaymentRow
      /\ \A c \in Clients : req[c].pc = "pending" => req[c].t \in Trips
  BY LiveRows DEF IInv, TripInHand, TypeOK, PayType, LivePayments, Request
<1>i. Idle.pc # "pending" /\ \A S : Recalc(S).pc # "pending" BY RecalcIs DEF Idle
<1>r. ASSUME NEW c \in Clients, NEW from, NEW to, Step(c, from, to), to.pc # "pending"
      PROVE  \A d \in Clients : req'[d].pc = "pending" =>
                req'[d].t \in Trips /\ (req'[d] = req[d] \/ window[req'[d].t] # Unborn)
  BY <1>p, <1>r DEF Step
<1>w. \A w \in Windows : w # Unborn BY RowsAssumption
<1>1. ASSUME NEW c \in Clients, NEW t \in Trips, NEW P \in PayType, NEW lo, NEW hi,
             \A p \in Payments : Exists(P[p]) => P[p] = pay[p],
             pay' = Recompute(window', P, lo, hi), NEW w, window' = [window EXCEPT ![t] = w], w # Unborn,
             NEW S, Step(c, "idle", Recalc(S))
      PROVE  TripsWereMade'
  <2>1. \A u \in Trips : window[u] # Unborn => window'[u] # Unborn BY <1>p, <1>1 DEF TypeOK
  <2>2. ASSUME NEW p \in LivePayments'
        PROVE  \/ p \in LivePayments /\ pay'[p].trip = pay[p].trip
               \/ pay'[p].trip \in Trips => window'[pay'[p].trip] # Unborn
    <3>1. p \in Payments /\ Exists(pay'[p]) BY DEF LivePayments
    <3>2. Exists(P[p]) BY <1>1, <3>1, RecomputedRows
    <3>3. P[p] \in PaymentRow /\ (pay'[p] = P[p] \/ pay'[p] = Matched(window', P[p], P[p].at))
      BY <1>1, <3>1, <3>2, RecomputedRow
    <3>4. CASE pay'[p] = P[p] BY <1>1, <3>1, <3>2, <3>4 DEF LivePayments
    <3>5. CASE pay'[p] = Matched(window', P[p], P[p].at)
      <4>1. pay'[p].trip \in Trips => Exists(window'[pay'[p].trip])
        BY <3>3, <3>5, MatchedTrip, RowsAssumption
      <4>. QED BY <4>1 DEF Exists
    <3>. QED BY <3>3, <3>4, <3>5
  <2>3. Recalc(S).pc # "pending" BY <1>i
  <2>. QED BY <1>1, <1>r, <2>1, <2>2, <2>3, MadeKept
<1>2. ASSUME NEW c \in Clients, UNCHANGED window, NEW p \in Payments, NEW row,
             pay' = [pay EXCEPT ![p] = row] \/ UNCHANGED pay,
             ~Exists(row) \/ (row.trip \in Trips => window[row.trip] # Unborn),
             NEW from, NEW to, Step(c, from, to), to.pc # "pending"
      PROVE  TripsWereMade'
  <2>1. ASSUME NEW q \in LivePayments'
        PROVE  \/ q \in LivePayments /\ pay'[q].trip = pay[q].trip
               \/ pay'[q].trip \in Trips => window'[pay'[q].trip] # Unborn
    BY <1>p, <1>2 DEF LivePayments, TypeOK
  <2>. QED BY <1>2, <1>r, <2>1, MadeKept
<1>3. ASSUME NEW c \in Clients, UNCHANGED <<window, pay>>,
             NEW from, NEW to, Step(c, from, to), to.pc # "pending"
      PROVE  TripsWereMade'
  <2>1. \A q \in LivePayments' : q \in LivePayments /\ pay'[q].trip = pay[q].trip
    BY <1>3 DEF LivePayments
  <2>. QED BY <1>3, <1>r, <2>1, MadeKept
<1>4. ASSUME NEW c \in Clients, TripStep(c) PROVE TripsWereMade'
  <2>. PICK t \in Trips :
         \/ \E w \in Windows : CreateTrip(c, t, w) \/ UpdateTrip(c, t, w)
         \/ DeleteTripCascade(c, t) \/ DeleteTripKeep(c, t)
         \/ \E p \in Payments : AssignPending(c, p, t)
    BY <1>4 DEF TripStep, DeleteTrip
  <2>1. ASSUME NEW w \in Windows, CreateTrip(c, t, w) \/ UpdateTrip(c, t, w) PROVE TripsWereMade'
    <3>1. PICK lo, hi : /\ pay' = Recompute(window', pay, lo, hi)
                        /\ Step(c, "idle", Recalc(Affected(window', pay, lo, hi)))
      BY <2>1 DEF CreateTrip, UpdateTrip
    <3>2. window' = [window EXCEPT ![t] = w] /\ w # Unborn BY <1>w, <2>1 DEF CreateTrip, UpdateTrip
    <3>. QED BY <1>p, <1>1, <3>1, <3>2
  <2>2. CASE DeleteTripCascade(c, t)
    <3>1. Left(t) \in PayType BY <1>p, LeftRows
    <3>2. \A p \in Payments : Exists(Left(t)[p]) => Left(t)[p] = pay[p] BY DEF Left, Exists
    <3>3. PICK S : /\ pay' = Recompute(window', Left(t), window[t][1], window[t][2])
                   /\ Step(c, "idle", Recalc(S))
      BY <2>2 DEF DeleteTripCascade, Left
    <3>4. window' = [window EXCEPT ![t] = Gone] /\ Gone # Unborn
      BY <2>2, RowsAssumption DEF DeleteTripCascade
    <3>. QED BY <1>1, <3>1, <3>2, <3>3, <3>4
  <2>3. CASE DeleteTripKeep(c, t)
    <3>1. window' = [window EXCEPT ![t] = Gone] /\ Gone # Unborn /\ Step(c, "idle", Idle)
      BY <2>3, RowsAssumption DEF DeleteTripKeep
    <3>2. \A u \in Trips : window[u] # Unborn => window'[u] # Unborn BY <1>p, <3>1 DEF TypeOK
    <3>3. ASSUME NEW p \in LivePayments'
          PROVE  \/ p \in LivePayments /\ pay'[p].trip = pay[p].trip
                 \/ pay'[p].trip \in Trips => window'[pay'[p].trip] # Unborn
      <4>1. p \in Payments /\ Exists(pay'[p]) BY DEF LivePayments
      <4>2. pay'[p] = IF p \in ConfirmedUnder(t) THEN Released(pay[p]) ELSE pay[p]
        BY <2>3, <4>1 DEF DeleteTripKeep
      <4>3. p \in ConfirmedUnder(t) => Released(pay[p]).trip = None
        BY <1>p DEF ConfirmedUnder, Confirmed, Released, PaymentRow
      <4>. QED BY <4>1, <4>2, <4>3, RowsAssumption DEF LivePayments
    <3>. QED BY <1>i, <1>r, <3>1, <3>2, <3>3, MadeKept
  <2>4. ASSUME NEW p \in Payments, AssignPending(c, p, t) PROVE TripsWereMade'
    <3>. DEFINE to == [Idle EXCEPT !.pc = "pending", !.p = p, !.t = t]
    <3>1. Step(c, "idle", to) /\ UNCHANGED <<window, pay>> /\ Exists(window[t])
      BY <2>4 DEF AssignPending, LiveTrips
    <3>2. to.t = t BY DEF Idle
    <3>. HIDE DEF to
    <3>3. \A d \in Clients : req'[d].pc = "pending" =>
             req'[d].t \in Trips /\ (req'[d] = req[d] \/ window[req'[d].t] # Unborn)
      BY <1>p, <3>1, <3>2 DEF Step, Exists
    <3>. QED BY <3>1, <3>3, MadeKept DEF LivePayments
  <2>. QED BY <2>1, <2>2, <2>3, <2>4
<1>5. ASSUME NEW c \in Clients, PaymentStep(c) PROVE TripsWereMade'
  <2>1. ASSUME NEW p \in Payments, NEW at \in Times, CreatePayment(c, p, at) \/ UploadDraft(c, p, at)
        PROVE  TripsWereMade'
    <3>1. ASSUME NEW d \in BOOLEAN PROVE NewPayment(at, d) \in PaymentRow /\ NewPayment(at, d).trip = None
      BY DEF NewPayment, PaymentRow
    <3>. DEFINE fresh == NewPayment(at, FALSE)
    <3>2. fresh \in PaymentRow BY <3>1
    <3>. HIDE DEF fresh
    <3>. DEFINE row == Matched(window, fresh, at)
    <3>3. row.trip \in Trips => window[row.trip] # Unborn
      BY <3>2, MatchedTrip, RowsAssumption DEF Exists
    <3>4. CASE CreatePayment(c, p, at)
      <4>1. pay' = [pay EXCEPT ![p] = row] /\ UNCHANGED window /\ Step(c, "idle", Idle)
        BY <3>4 DEF CreatePayment, fresh
      <4>. HIDE DEF row
      <4>. QED BY <1>2, <1>i, <3>3, <4>1
    <3>5. CASE UploadDraft(c, p, at)
      <4>1. pay' = [pay EXCEPT ![p] = NewPayment(at, TRUE)] /\ UNCHANGED window /\ Step(c, "idle", Idle)
        BY <3>5 DEF UploadDraft
      <4>2. NewPayment(at, TRUE).trip \notin Trips BY <3>1, RowsAssumption
      <4>. QED BY <1>2, <1>i, <4>1, <4>2
    <3>. QED BY <2>1, <3>4, <3>5
  <2>2. ASSUME NEW p \in Payments, BlockPending(c, p) PROVE TripsWereMade'
    <3>. DEFINE row == [pay[p] EXCEPT !.trip = None, !.src = "blocked", !.state = "blocked"]
    <3>1. row.trip \notin Trips BY <1>p, <2>2, RowsAssumption DEF BlockPending, PaymentRow
    <3>2. pay' = [pay EXCEPT ![p] = row] /\ UNCHANGED window /\ Step(c, "idle", Idle)
      BY <2>2 DEF BlockPending
    <3>. HIDE DEF row
    <3>. QED BY <1>2, <1>i, <3>1, <3>2
  <2>3. ASSUME NEW p \in Payments, ReadBefore(c, p) \/ DeletePayment(c, p) PROVE TripsWereMade'
    <3>. DEFINE upd == [Idle EXCEPT !.pc = "update", !.p = p, !.t = pay[p].trip,
                                    !.todo = IF pay[p].bad THEN TripOf(p) ELSE {}]
                del == [Idle EXCEPT !.pc = "delpay", !.p = p, !.todo = TripOf(p)]
    <3>1. /\ Step(c, "idle", upd) \/ Step(c, "idle", del)
          /\ UNCHANGED <<window, pay>>
      BY <2>3 DEF ReadBefore, DeletePayment
    <3>2. upd.pc # "pending" /\ del.pc # "pending" BY DEF Idle
    <3>. HIDE DEF upd, del
    <3>. QED BY <1>3, <3>1, <3>2
  <2>4. ASSUME NEW patch \in Patches, UpdateCommit(c, patch) PROVE TripsWereMade'
    <3>. DEFINE p == req[c].p
                row == Patched(pay[p], patch, req[c].t)
                to == [req[c] EXCEPT !.pc = "reread", !.t = None, !.auto = patch.at # Keep \/ patch.confirm]
    <3>1. CASE p \in LivePayments
      <4>1. pay' = [pay EXCEPT ![p] = row] /\ UNCHANGED window /\ Step(c, "update", to)
        BY <2>4, <3>1 DEF UpdateCommit
      <4>2. row.trip \in {None, pay[p].trip, patch.trip} BY DEF Patched
      <4>3. patch.trip \in Trips => window[patch.trip] # Unborn BY <2>4 DEF UpdateCommit
      <4>4. pay[p].trip \in Trips => window[pay[p].trip] # Unborn BY <3>1 DEF TripsWereMade
      <4>5. row.trip \in Trips => window[row.trip] # Unborn BY <4>2, <4>3, <4>4, RowsAssumption
      <4>6. to.pc # "pending" BY <1>p DEF Request
      <4>. HIDE DEF to, row
      <4>. QED BY <1>p, <1>2, <3>1, <4>1, <4>5, <4>6
    <3>2. CASE p \notin LivePayments
      <4>1. UNCHANGED <<window, pay>> /\ Step(c, "update", Idle) BY <2>4, <3>2 DEF UpdateCommit
      <4>. QED BY <1>3, <1>i, <4>1
    <3>. QED BY <3>1, <3>2
  <2>5. CASE AssignPendingCommit(c)
    <3>. DEFINE p == req[c].p
                row == [pay[p] EXCEPT !.trip = req[c].t, !.src = "manual", !.state = "assigned"]
    <3>1. UNCHANGED window /\ Step(c, "pending", Recalc({req[c].t})) BY <2>5 DEF AssignPendingCommit
    <3>2. window[req[c].t] # Unborn BY <3>1 DEF Step, TripsWereMade
    <3>3. CASE p \in LivePayments
      <4>1. pay' = [pay EXCEPT ![p] = row] BY <2>5, <3>3 DEF AssignPendingCommit
      <4>2. row.trip = req[c].t BY <1>p, <3>3 DEF PaymentRow
      <4>. HIDE DEF row
      <4>. QED BY <1>p, <1>2, <1>i, <3>1, <3>2, <3>3, <4>1, <4>2
    <3>4. CASE p \notin LivePayments
      <4>1. UNCHANGED pay BY <2>5, <3>4 DEF AssignPendingCommit
      <4>. QED BY <1>3, <1>i, <3>1, <4>1
    <3>. QED BY <3>3, <3>4
  <2>6. CASE ReadAfter(c)
    <3>1. UNCHANGED <<window, pay>> BY <2>6 DEF ReadAfter
    <3>2. [req[c] EXCEPT !.pc = "assign", !.at = pay[req[c].p].at].pc # "pending" BY <1>p DEF Request
    <3>3. \E to : Step(c, "reread", to) /\ to.pc # "pending" BY <2>6, <1>i, <3>2 DEF ReadAfter
    <3>. QED BY <1>3, <3>1, <3>3
  <2>7. CASE AutoAssign(c)
    <3>. DEFINE p == req[c].p
                found == Matched(window, pay[p], req[c].at)
                row == [found EXCEPT !.src = "auto"]
                to == [req[c] EXCEPT !.pc = "reread", !.at = None, !.auto = FALSE]
    <3>1. UNCHANGED window /\ Step(c, "assign", to) BY <2>7 DEF AutoAssign
    <3>2. to.pc # "pending" BY <1>p DEF Request
    <3>. HIDE DEF to
    <3>3. CASE p \in LivePayments
      <4>1. pay' = [pay EXCEPT ![p] = row] BY <2>7, <3>3 DEF AutoAssign
      <4>2. found \in PaymentRow BY <1>p, <3>3, MatchedRow
      <4>3. found.trip \in Trips => window[found.trip] # Unborn
        BY <1>p, <3>3, MatchedTrip, RowsAssumption DEF Exists
      <4>. HIDE DEF found
      <4>4. row.trip = found.trip BY <4>2 DEF PaymentRow
      <4>. HIDE DEF row
      <4>. QED BY <1>p, <1>2, <3>1, <3>2, <3>3, <4>1, <4>3, <4>4
    <3>4. CASE p \notin LivePayments
      <4>1. UNCHANGED pay BY <2>7, <3>4 DEF AutoAssign
      <4>. QED BY <1>3, <3>1, <3>2, <4>1
    <3>. QED BY <3>3, <3>4
  <2>8. CASE DeletePaymentCommit(c)
    <3>. DEFINE p == req[c].p
    <3>1. CASE p \in LivePayments
      <4>1. /\ pay' = [pay EXCEPT ![p] = Gone] /\ UNCHANGED window
            /\ Step(c, "delpay", Recalc(req[c].todo))
        BY <2>8, <3>1 DEF DeletePaymentCommit
      <4>2. ~Exists(Gone) BY DEF Exists
      <4>. QED BY <1>p, <1>2, <1>i, <3>1, <4>1, <4>2
    <3>2. CASE p \notin LivePayments
      <4>1. UNCHANGED <<window, pay>> /\ Step(c, "delpay", Idle) BY <2>8, <3>2 DEF DeletePaymentCommit
      <4>. QED BY <1>3, <1>i, <4>1
    <3>. QED BY <3>1, <3>2
  <2>9. ASSUME NEW p \in Payments, CancelUpload(c, p) PROVE TripsWereMade'
    <3>1. pay' = [pay EXCEPT ![p] = Gone] /\ UNCHANGED window /\ Step(c, "idle", Idle)
      BY <2>9 DEF CancelUpload
    <3>2. ~Exists(Gone) BY DEF Exists
    <3>. QED BY <1>2, <1>i, <3>1, <3>2
  <2>. QED
    BY <1>5, <2>1, <2>2, <2>3, <2>4, <2>5, <2>6, <2>7, <2>8, <2>9 DEF PaymentStep
<1>6. ASSUME NEW c \in Clients, InvoiceStep(c) PROVE TripsWereMade'
  <2>1. ASSUME NEW i \in Invoices, NEW p \in Payments \cup {None}, NEW draft \in BOOLEAN,
               CreateInvoice(c, i, p, draft)
        PROVE  TripsWereMade'
    BY <1>3, <1>i, <2>1 DEF CreateInvoice
  <2>2. ASSUME NEW i \in Invoices, NEW p \in Payments \cup {None, Keep}, ReadInvoice(c, i, p)
        PROVE  TripsWereMade'
    BY <1>3, <2>2 DEF ReadInvoice, Idle
  <2>3. ASSUME NEW i \in Invoices, NEW p \in Payments, LinkPayment(c, i, p) \/ UnlinkPayment(c, i, p)
        PROVE  TripsWereMade'
    BY <1>3, <2>3 DEF LinkPayment, UnlinkPayment, Idle
  <2>4. ASSUME NEW i \in Invoices, DeleteInvoice(c, i) PROVE TripsWereMade'
    BY <1>3, <2>4 DEF DeleteInvoice, Idle
  <2>5. ASSUME NEW bad \in BOOLEAN \cup {Keep}, NEW confirm \in BOOLEAN,
               UpdateInvoiceCommit(c, bad, confirm)
        PROVE  TripsWereMade'
    <3>1. \E to : Step(c, "updinv", to) /\ to.pc # "pending" BY <1>i, <2>5 DEF UpdateInvoiceCommit
    <3>. QED BY <1>3, <2>5, <3>1 DEF UpdateInvoiceCommit
  <2>6. CASE DeleteInvoiceCommit(c)
    <3>1. \E to : Step(c, "delinv", to) /\ to.pc # "pending" BY <1>i, <2>6 DEF DeleteInvoiceCommit
    <3>. QED BY <1>3, <2>6, <3>1 DEF DeleteInvoiceCommit
  <2>7. CASE ReadLinked(c) BY <1>3, <1>i, <2>7 DEF ReadLinked
  <2>. QED BY <1>6, <2>1, <2>2, <2>3, <2>4, <2>5, <2>6, <2>7 DEF InvoiceStep
<1>7. ASSUME NEW c \in Clients, FlagStep(c) PROVE TripsWereMade'
  <2>1. CASE CountBadDebt(c)
    <3>1. PICK t \in req[c].todo :
             Step(c, "recalc", [req[c] EXCEPT !.pc = "flag", !.t = t, !.todo = @ \ {t}, !.flag = BadUnder(t)])
      BY <2>1 DEF CountBadDebt
    <3>2. [req[c] EXCEPT !.pc = "flag", !.t = t, !.todo = @ \ {t}, !.flag = BadUnder(t)].pc # "pending"
      BY <1>p DEF Request
    <3>. QED BY <1>3, <2>1, <3>1, <3>2 DEF CountBadDebt
  <2>2. CASE WriteFlag(c) BY <1>3, <1>i, <2>2 DEF WriteFlag
  <2>3. CASE RequestEnds(c)
    <3>1. Step(c, req[c].pc, Idle) /\ UNCHANGED <<window, pay>> BY <2>3 DEF RequestEnds
    <3>. QED BY <1>3, <1>i, <3>1
  <2>. QED BY <1>7, <2>1, <2>2, <2>3 DEF FlagStep
<1>8. ASSUME NEW p \in Payments, NEW at \in Times, OCRSetsTime(p, at) PROVE TripsWereMade'
  <2>1. p \in LivePayments /\ pay' = [pay EXCEPT ![p].at = at] /\ UNCHANGED <<window, req>>
    BY <1>8 DEF OCRSetsTime
  <2>2. \A q \in LivePayments' : q \in LivePayments /\ pay'[q].trip = pay[q].trip
    BY <1>p, <2>1 DEF TypeOK, LivePayments, PaymentRow
  <2>. QED BY <1>p, <2>1, <2>2, MadeKept
<1>9. ASSUME NEW P, NEW I, SweepDrafts(P, I) PROVE TripsWereMade'
  <2>1. /\ UNCHANGED <<window, req>>
        /\ \A p \in Payments : pay'[p] = IF p \in P THEN Gone ELSE pay[p]
    BY <1>9 DEF SweepDrafts
  <2>2. \A q \in LivePayments' : q \in LivePayments /\ pay'[q].trip = pay[q].trip
    BY <2>1 DEF LivePayments, Exists
  <2>. QED BY <1>p, <2>1, <2>2, MadeKept
<1>10. CASE UNCHANGED vars BY <1>10 DEF vars, TripsWereMade, LivePayments
<1>. QED BY <1>4, <1>5, <1>6, <1>7, <1>8, <1>9, <1>10 DEF Next

\* Whatever the requests of any number of tabs do to trips and payments, the flag
\* of a trip with a confirmed bad-debt payment is set, or a request in flight
\* will set it; only a refresh that failed, was killed or counted too early
\* leaves it behind.
THEOREM NoRefreshForgotten == Spec => []BadPaymentLocksTrip
<1>1. ASSUME Init PROVE LockInv
  BY <1>1, InitEstablishesIInv
     DEF Init, LockInv, TripsWereMade, Followed, BadDebts, LivePayments, Exists, Idle
<1>2. ASSUME LockInv, [Next]_vars PROVE LockInv'
  <2>1. IInv' /\ TripsWereMade' BY <1>2, NextKeepsIInv, MadeSteps DEF LockInv
  <2>2. Followed'
    BY <1>2, TripFollowed, PaymentFollowed, InvoiceFollowed, FlagFollowed, AsidesFollowed
    DEF Next
  <2>. QED BY <2>1, <2>2 DEF LockInv
<1>3. LockInv => BadPaymentLocksTrip
  <2>. SUFFICES ASSUME LockInv, NEW t \in LiveTrips, NEW p \in ConfirmedUnder(t), pay[p].bad
                PROVE  t \in locked \cup doubt \cup UNION {Owed(c) : c \in Clients}
    BY DEF BadPaymentLocksTrip
  <2>1. p \in BadDebts /\ pay[p].trip = t
    BY DEF BadDebts, ConfirmedUnder, Confirmed, LivePayments
  <2>2. ASSUME NEW c \in Clients, Cares(c, p) PROVE t \in Owed(c)
    <3>1. t \in TripOf(p) BY <2>1, RowsAssumption DEF BadDebts, TripOf, LiveTrips
    <3>. QED BY <2>1, <2>2, <3>1 DEF Cares, Refreshes, Owed
  <2>. QED BY <2>1, <2>2 DEF LockInv, Followed
<1>. QED BY <1>1, <1>2, <1>3, PTL DEF Spec
=============================================================================
