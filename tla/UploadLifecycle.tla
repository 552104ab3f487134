-------------------------- MODULE UploadLifecycle --------------------------
(****************************************************************************)
(* What the tables of payments and of invoices promise of the rows that     *)
(* uploads make (services/payment.go, services/invoice.go,                  *)
(* dedup_queries.go, draft_cleanup.go).                                     *)
(*                                                                          *)
(*   absent -> draft -> saved        (uploaded, confirmed)                  *)
(*   absent -> saved                 (typed in by hand, or brought by mail) *)
(*   draft | saved -> gone                                                  *)
(*                                                                          *)
(* A confirmation is one step here: it looks whether the content is saved   *)
(* already and saves the row.  In the code the look-up, a second look-up,   *)
(* and the UPDATE are statements of their own, between which other requests *)
(* upload, confirm and delete.                                              *)
(****************************************************************************)

CONSTANTS
    Rows,       \* ids
    Contents,   \* of uploaded files
    None        \* the content of a row without an upload

VARIABLE documents

Absent  == [life |-> "absent", content |-> None]
Deleted == [life |-> "gone", content |-> None]
Draft(h) == [life |-> "draft", content |-> h]
Saved(h) == [life |-> "saved", content |-> h]

Init == documents = [r \in Rows |-> Absent]

Write(r, x) == documents' = [documents EXCEPT ![r] = x]

Uploaded(r, h) ==
    /\ documents[r] = Absent
    /\ Write(r, Draft(h))

\* No content, nothing to look up.
Entered(r) ==
    /\ documents[r] = Absent
    /\ Write(r, Saved(None))

\* The content of a draft is saved once.
Confirmed(r, h) ==
    /\ documents[r] = Draft(h)
    /\ \A q \in Rows : documents[q] # Saved(h)
    /\ Write(r, Saved(h))

\* One DELETE, of what is there.
Removed(dead) ==
    /\ \A r \in dead : documents[r].life \in {"draft", "saved"}
    /\ documents' = [r \in Rows |-> IF r \in dead THEN Deleted ELSE documents[r]]

Next ==
    \/ \E r \in Rows, h \in Contents : Uploaded(r, h) \/ Confirmed(r, h)
    \/ \E r \in Rows : Entered(r)
    \/ \E dead \in SUBSET Rows : Removed(dead)

Spec == Init /\ [][Next]_documents

=============================================================================
