--------------------------- MODULE TaskLifecycle ---------------------------
(****************************************************************************)
(* What the task service promises about one OCR job, whoever asks for it    *)
(* and however the worker, the reaper, the cancel endpoint and restarts     *)
(* interleave (backend-go/internal/services/tasks.go).                      *)
(*                                                                          *)
(*   absent -> queued -> processing -> succeeded | failed                   *)
(*             queued | processing -> canceled                              *)
(*             any row -> gone             (the owner's account is deleted) *)
(*                                                                          *)
(* The job's effect (the OCR result written to the payment or invoice) is   *)
(* begun at most once, only after a claim, and comes before "succeeded".    *)
(****************************************************************************)

CONSTANT Tasks          \* ids of the rows of table tasks

VARIABLES
    status,             \* life-cycle state of every id
    started,            \* ids whose OCR run began
    applied             \* ids whose OCR result was committed to the target

vars == <<status, started, applied>>

Active   == {"queued", "processing"}
Terminal == {"succeeded", "failed", "canceled"}
Statuses == {"absent", "gone"} \cup Active \cup Terminal

TypeOK ==
    /\ status \in [Tasks -> Statuses]
    /\ started \subseteq Tasks
    /\ applied \subseteq Tasks

Init ==
    /\ status = [t \in Tasks |-> "absent"]
    /\ started = {}
    /\ applied = {}

\* The rows of S move together: one UPDATE or DELETE statement.
Move(S, s) == status' = [t \in Tasks |-> IF t \in S THEN s ELSE status[t]]

Enqueue(t) ==
    /\ status[t] = "absent"
    /\ Move({t}, "queued")
    /\ UNCHANGED <<started, applied>>

Claim(t) ==
    /\ status[t] = "queued"
    /\ Move({t}, "processing")
    /\ UNCHANGED <<started, applied>>

\* The OCR run begins: never twice, never for a row that was not claimed.
Start(t) ==
    /\ status[t] \notin {"absent", "queued"}
    /\ t \notin started
    /\ started' = started \cup {t}
    /\ UNCHANGED <<status, applied>>

\* The result reaches the target, possibly after a cancel or a time-out.
Apply(t) ==
    /\ t \in started
    /\ applied' = applied \cup {t}
    /\ UNCHANGED <<status, started>>

Succeed(t) ==
    /\ status[t] = "processing"
    /\ t \in applied
    /\ Move({t}, "succeeded")
    /\ UNCHANGED <<started, applied>>

Fail(S) ==
    /\ \A t \in S : status[t] = "processing"
    /\ Move(S, "failed")
    /\ UNCHANGED <<started, applied>>

Cancel(t) ==
    /\ status[t] \in Active
    /\ Move({t}, "canceled")
    /\ UNCHANGED <<started, applied>>

Forget(S) ==
    /\ \A t \in S : status[t] # "absent"
    /\ Move(S, "gone")
    /\ UNCHANGED <<started, applied>>

Next ==
    \/ \E t \in Tasks : \/ Enqueue(t) \/ Claim(t) \/ Start(t)
                        \/ Apply(t) \/ Succeed(t) \/ Cancel(t)
    \/ \E S \in SUBSET Tasks : Fail(S) \/ Forget(S)

Spec == Init /\ [][Next]_vars

=============================================================================
