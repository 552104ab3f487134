----------------------------- MODULE TaskQueue -----------------------------
(****************************************************************************)
(* The OCR task queue of backend-go/internal/services/tasks.go: upload      *)
(* handlers that enqueue, users that cancel or delete accounts, the single  *)
(* worker goroutine with its idle sleep and wake channel, the reaper, the   *)
(* shutdown of the root context, crashes and restarts.                      *)
(*                                                                          *)
(* One SQL statement is one atomic step; everything between two statements  *)
(* interleaves.  A target is one (type, owner, record, file hash): the      *)
(* uploads derive the last three from the same draft row.                   *)
(****************************************************************************)
EXTENDS Naturals, FiniteSets

CONSTANTS
    Tasks,          \* row ids, each used at most once
    Targets,        \* draft payments and invoices that are sent to OCR
    Owners,         \* users
    OwnerOf,        \* the user a target belongs to
    Clients,        \* concurrent upload requests
    NoTask,         \* the worker holds no row
    NoTarget,       \* the row does not exist yet
    MaxTroubles     \* bound on failing SQL statements, shutdowns and kills

ASSUME ClientsAssumption  == IsFiniteSet(Clients)
ASSUME OwnerAssumption    == OwnerOf \in [Targets -> Owners]
ASSUME NoValueAssumption  == NoTask \notin Tasks /\ NoTarget \notin Targets
ASSUME BoundsAssumption   == MaxTroubles \in Nat

VARIABLES
    \* table tasks
    status,         \* column status; "absent" before INSERT, "gone" after DELETE
    target,         \* columns type, owner_user_id, target_id, file_sha256
    born,           \* column created_at
    stale,          \* rows whose updated_at is older than the processing TTL
    \* targets
    applied,        \* rows whose OCR result was committed to their target
    \* the process
    ctx,            \* the root context: "live" or "canceled"
    wake,           \* a token sits in wakeCh (capacity 1)
    wpc, wtask, why, ran,   \* worker: control ("down": no process), row, why it
                            \* sleeps, result of the run
    cpc, ctarget, cstamp,   \* upload requests: control, target and the
                            \* created_at of the row about to be inserted
    \* history and bounds
    late,           \* rows inserted between the worker's selection and its claim
    clock, started, troubles

rowVars    == <<status, target, born, stale, clock>>
workerVars == <<wpc, wtask, why, ran, late>>
clientVars == <<cpc, ctarget, cstamp>>
vars == <<rowVars, applied, ctx, wake, workerVars, clientVars, started, troubles>>

Active   == {"queued", "processing"}
Terminal == {"succeeded", "failed", "canceled"}
Statuses == {"absent", "gone"} \cup Active \cup Terminal

WorkerPCs == {"idle", "claim", "check", "run", "finish", "doze", "sleep",
              "stopped", "down"}

TypeOK ==
    /\ status \in [Tasks -> Statuses]
    /\ target \in [Tasks -> Targets \cup {NoTarget}]
    /\ \A t \in Tasks : status[t] = "absent" <=> target[t] = NoTarget
    /\ born \in [Tasks -> Nat]
    /\ stale \subseteq Tasks
    /\ applied \subseteq Tasks
    /\ ctx \in {"live", "canceled"}
    /\ wake \in BOOLEAN
    /\ wpc \in WorkerPCs
    /\ wtask \in Tasks \cup {NoTask}
    /\ wtask = NoTask <=> wpc \notin {"claim", "check", "run", "finish"}
    /\ why \in {"none", "empty", "lost", "error"}
    /\ ran \in {"none", "ok", "error"}
    /\ cpc \in [Clients -> {"idle", "stamp", "insert", "wake"}]
    /\ ctarget \in [Clients -> Targets \cup {NoTarget}]
    /\ cstamp \in [Clients -> Nat]
    /\ late \subseteq Tasks
    /\ clock \in Nat
    /\ started \subseteq Tasks
    /\ troubles \in Nat

Init ==
    /\ status = [t \in Tasks |-> "absent"]
    /\ target = [t \in Tasks |-> NoTarget]
    /\ born = [t \in Tasks |-> 0]
    /\ stale = {}
    /\ applied = {}
    /\ ctx = "live"
    /\ wake = FALSE
    /\ wpc = "idle"
    /\ wtask = NoTask
    /\ why = "none"
    /\ ran = "none"
    /\ cpc = [c \in Clients |-> "idle"]
    /\ ctarget = [c \in Clients |-> NoTarget]
    /\ cstamp = [c \in Clients |-> 0]
    /\ late = {}
    /\ clock = 0
    /\ started = {}
    /\ troubles = 0

Up            == wpc # "down"
With(s)       == {t \in Tasks : status[t] = s}
ActiveFor(g)  == {t \in Tasks : status[t] \in Active /\ target[t] = g}

\* UPDATE tasks SET status = s for the rows of S; it refreshes updated_at.
SetStatus(S, s) ==
    /\ status' = [t \in Tasks |-> IF t \in S THEN s ELSE status[t]]
    /\ stale' = stale \ S
    /\ UNCHANGED <<target, born, clock>>

\* Something goes wrong: at most MaxTroubles times.
Trouble == troubles < MaxTroubles /\ troubles' = troubles + 1

\* A statement fails (disk full, SQLITE_BUSY).
Fault == Trouble

-----------------------------------------------------------------------------
(* Upload requests: createTaskInternal looks for an active row of the same  *)
(* target and inserts one only when it found none - two statements, with    *)
(* gorm's stamp between them: CreatedAt is set in Go before the INSERT gets *)
(* a connection and the write lock, so rows need not appear in its order.   *)

ClientMoves(c, from, to, g) ==
    /\ Up
    /\ cpc[c] = from
    /\ cpc' = [cpc EXCEPT ![c] = to]
    /\ ctarget' = [ctarget EXCEPT ![c] = IF to \in {"stamp", "insert"} THEN g ELSE NoTarget]

LookupActive(g) == ActiveFor(g)

\* SELECT ... status IN (queued, processing): nothing there.
CreateMiss(c, g) ==
    /\ ClientMoves(c, "idle", "stamp", g)
    /\ LookupActive(g) = {}
    /\ UNCHANGED <<cstamp, rowVars, applied, ctx, wake, workerVars, started, troubles>>

\* The SELECT finds a row and returns it; a queued one wakes the worker.
CreateHit(c, g) ==
    /\ \E t \in LookupActive(g) :
          ClientMoves(c, "idle", IF status[t] = "queued" THEN "wake" ELSE "idle", g)
    /\ UNCHANGED <<cstamp, rowVars, applied, ctx, wake, workerVars, started, troubles>>

\* gorm's create callback reads the clock for created_at.
CreateStamp(c) ==
    /\ ClientMoves(c, "stamp", "insert", ctarget[c])
    /\ cstamp' = [cstamp EXCEPT ![c] = clock]
    /\ clock' = clock + 1
    /\ UNCHANGED <<status, target, born, stale, applied, ctx, wake, workerVars,
                   started, troubles>>

\* INSERT of a queued row with the stamp taken before.
InsertRow(t, g, at) ==
    /\ status' = [status EXCEPT ![t] = "queued"]
    /\ target' = [target EXCEPT ![t] = g]
    /\ born' = [born EXCEPT ![t] = at]
    /\ UNCHANGED <<stale, clock>>

CreateInsert(c) ==
    /\ ClientMoves(c, "insert", "wake", ctarget[c])
    /\ cstamp' = [cstamp EXCEPT ![c] = 0]
    /\ \E t \in With("absent") :
          /\ InsertRow(t, ctarget[c], cstamp[c])
          /\ late' = IF wpc = "claim" THEN late \cup {t} ELSE late
    /\ UNCHANGED <<applied, ctx, wake, wpc, wtask, why, ran, started, troubles>>

CreateInsertFails(c) ==
    /\ ClientMoves(c, "insert", "idle", ctarget[c])
    /\ cstamp' = [cstamp EXCEPT ![c] = 0]
    /\ Fault
    /\ UNCHANGED <<rowVars, applied, ctx, wake, workerVars, started>>

\* wake(): a non-blocking send on a channel of capacity one.
SendWakeUnbuffered == wake' = (wake \/ wpc = "sleep")
SendWake == wake' = TRUE

Wake(c) ==
    /\ ClientMoves(c, "wake", "idle", ctarget[c])
    /\ SendWake
    /\ UNCHANGED <<cstamp, rowVars, applied, ctx, workerVars, started, troubles>>

\* CancelTask: one guarded UPDATE; on any other row it changes nothing.
CancelTask(t) ==
    /\ Up
    /\ status[t] \in Active
    /\ SetStatus({t}, "canceled")
    /\ UNCHANGED <<applied, ctx, wake, workerVars, clientVars, started, troubles>>

\* DeleteUserCtx removes the user's rows, whatever their status, and the
\* payments and invoices they point to, in one transaction.
DeleteUser(o) ==
    /\ Up
    /\ \E t \in Tasks : target[t] # NoTarget /\ OwnerOf[target[t]] = o
    /\ SetStatus({t \in Tasks : target[t] # NoTarget /\ OwnerOf[target[t]] = o}, "gone")
    /\ UNCHANGED <<applied, ctx, wake, workerVars, clientVars, started, troubles>>

-----------------------------------------------------------------------------
(* The worker goroutine: processOne and the loop of StartWorker around it.  *)

WorkerAt(pc) == wpc = pc

\* The worker's statements carry the root context.
StatementsRun == ctx = "live"

\* processOne returned an error: the loop is on its way to the idle select.
Doze(reason) ==
    /\ wpc' = "doze"
    /\ why' = reason
    /\ wtask' = NoTask
    /\ late' = {}
    /\ UNCHANGED ran

OldestUnordered(t) == status[t] = "queued"
Oldest(t) == status[t] = "queued" /\ \A u \in With("queued") : born[t] <= born[u]

SelectTask ==
    /\ WorkerAt("idle")
    /\ StatementsRun
    /\ \E t \in Tasks :
          /\ Oldest(t)
          /\ wtask' = t
    /\ wpc' = "claim"
    /\ UNCHANGED <<rowVars, applied, ctx, wake, why, ran, late, clientVars, started, troubles>>

SelectNone ==
    /\ WorkerAt("idle")
    /\ StatementsRun
    /\ With("queued") = {}
    /\ Doze("empty")
    /\ UNCHANGED <<rowVars, applied, ctx, wake, clientVars, started, troubles>>

\* UPDATE ... SET status = processing WHERE id = ? AND status = queued
ClaimableUnguarded(t) == status[t] # "gone"
Claimable(t) == status[t] = "queued"

ClaimTask ==
    /\ WorkerAt("claim")
    /\ StatementsRun
    /\ Claimable(wtask)
    /\ SetStatus({wtask}, "processing")
    /\ wpc' = "check"
    /\ late' = {}
    /\ UNCHANGED <<applied, ctx, wake, wtask, why, ran, clientVars, started, troubles>>

ClaimLost ==
    /\ WorkerAt("claim")
    /\ StatementsRun
    /\ ~Claimable(wtask)
    /\ Doze("lost")
    /\ UNCHANGED <<rowVars, applied, ctx, wake, clientVars, started, troubles>>

\* The SELECT or the claiming UPDATE returns an error.
WorkerStatementFails ==
    /\ WorkerAt("idle") \/ WorkerAt("claim")
    /\ StatementsRun
    /\ Fault
    /\ Doze("error")
    /\ UNCHANGED <<rowVars, applied, ctx, wake, clientVars, started>>

\* The re-read shows a row that was canceled right after the claim.
SkipCanceled ==
    /\ WorkerAt("check")
    /\ StatementsRun
    /\ status[wtask] = "canceled"
    /\ wpc' = "idle"
    /\ wtask' = NoTask
    /\ UNCHANGED <<rowVars, applied, ctx, wake, why, ran, late, clientVars, started, troubles>>

\* Any other status starts the run, and so does a re-read that fails, which a
\* canceled context makes certain.
ReadFails ==
    \/ ctx = "canceled" /\ UNCHANGED troubles
    \/ ctx = "live" /\ Fault

StartRun ==
    /\ WorkerAt("check")
    /\ \/ ctx = "live" /\ status[wtask] # "canceled" /\ UNCHANGED troubles
       \/ ReadFails
    /\ wpc' = "run"
    /\ started' = started \cup {wtask}
    /\ UNCHANGED <<rowVars, applied, ctx, wake, wtask, why, ran, late, clientVars>>

\* ProcessPaymentOCRTask / ProcessInvoiceOCRTask run without the context: the
\* transaction that writes the result needs only the target's row.  The reads
\* and the dedup update that follow it may still turn the run into an error.
RunCommits ==
    /\ WorkerAt("run")
    /\ status[wtask] # "gone"
    /\ applied' = applied \cup {wtask}
    /\ ran' \in {"ok", "error"}
    /\ wpc' = "finish"
    /\ UNCHANGED <<rowVars, ctx, wake, wtask, why, late, clientVars, started, troubles>>

RunFails ==
    /\ WorkerAt("run")
    /\ ran' = "error"
    /\ wpc' = "finish"
    /\ UNCHANGED <<rowVars, applied, ctx, wake, wtask, why, late, clientVars, started, troubles>>

\* The last UPDATE is guarded by status = processing; its error is dropped.
Outcome == IF ran = "ok" THEN "succeeded" ELSE "failed"

FinishRowOnlyOnSuccess ==
    IF status[wtask] = "processing" /\ ran = "ok"
      THEN SetStatus({wtask}, Outcome)
      ELSE UNCHANGED rowVars
FinishRow ==
    IF status[wtask] = "processing"
      THEN SetStatus({wtask}, Outcome)
      ELSE UNCHANGED rowVars

FinishTask ==
    /\ WorkerAt("finish")
    /\ StatementsRun
    /\ FinishRow
    /\ wpc' = "idle"
    /\ wtask' = NoTask
    /\ ran' = "none"
    /\ UNCHANGED <<applied, ctx, wake, why, late, clientVars, started, troubles>>

FinishFails ==
    /\ WorkerAt("finish")
    /\ StatementsRun
    /\ Fault
    /\ wpc' = "idle"
    /\ wtask' = NoTask
    /\ ran' = "none"
    /\ UNCHANGED <<rowVars, applied, ctx, wake, why, late, clientVars, started>>

\* Under a canceled context every statement fails and the loop returns.
StopsOnlyInside == {"claim", "finish"}
StopsAt == {"idle", "claim", "finish", "doze", "sleep"}

WorkerStops ==
    /\ Up
    /\ ctx = "canceled"
    /\ wpc \in StopsAt
    /\ wpc' = "stopped"
    /\ wtask' = NoTask
    /\ why' = "none"
    /\ ran' = "none"
    /\ late' = {}
    /\ UNCHANGED <<rowVars, applied, ctx, wake, clientVars, started, troubles>>

FallAsleep ==
    /\ WorkerAt("doze")
    /\ ctx = "live"
    /\ wpc' = "sleep"
    /\ UNCHANGED <<rowVars, applied, ctx, wake, wtask, why, ran, late, clientVars, started, troubles>>

\* The idle select: the wake channel, or the timer (200 ms to 5 s).
Woken ==
    /\ WorkerAt("sleep")
    /\ wake
    /\ wake' = FALSE
    /\ wpc' = "idle"
    /\ why' = "none"
    /\ UNCHANGED <<rowVars, applied, ctx, wtask, ran, late, clientVars, started, troubles>>

TimerFires ==
    /\ WorkerAt("sleep")
    /\ wpc' = "idle"
    /\ why' = "none"
    /\ UNCHANGED <<rowVars, applied, ctx, wake, wtask, ran, late, clientVars, started, troubles>>

-----------------------------------------------------------------------------
(* Time, the reaper, shutdown, crash and restart.                           *)

\* The processing TTL elapses without an update of the row.
TTLElapses(t) ==
    /\ status[t] = "processing"
    /\ stale' = stale \cup {t}
    /\ t \notin stale
    /\ UNCHANGED <<status, target, born, clock, applied, ctx, wake, workerVars,
                   clientVars, started, troubles>>

\* UPDATE ... failed WHERE status = processing AND updated_at < cutoff
ReapableFresh == {t \in Tasks \ stale : status[t] = "processing"}
Reapable == {t \in stale : status[t] = "processing"}

Reap ==
    /\ Up
    /\ ctx = "live"
    /\ Reapable # {}
    /\ SetStatus(Reapable, "failed")
    /\ UNCHANGED <<applied, ctx, wake, workerVars, clientVars, started, troubles>>

\* SIGTERM cancels the root context.
Shutdown ==
    /\ Up
    /\ ctx = "live"
    /\ Trouble
    /\ ctx' = "canceled"
    /\ UNCHANGED <<rowVars, applied, wake, workerVars, clientVars, started>>

\* The process ends: killed, or main returned after Wait or its 15 s time-out.
\* Requests in flight and the wake channel go with it; the rows stay.
Exit ==
    /\ Up
    /\ IF ctx = "canceled" THEN UNCHANGED troubles ELSE Trouble
    /\ wpc' = "down"
    /\ wtask' = NoTask
    /\ why' = "none"
    /\ ran' = "none"
    /\ late' = {}
    /\ cpc' = [c \in Clients |-> "idle"]
    /\ ctarget' = [c \in Clients |-> NoTarget]
    /\ cstamp' = [c \in Clients |-> 0]
    /\ wake' = FALSE
    /\ UNCHANGED <<rowVars, applied, ctx, started>>

\* StartWorker on the same database: nothing re-queues processing rows.
Restart ==
    /\ ~Up
    /\ ctx' = "live"
    /\ wpc' = "idle"
    /\ UNCHANGED <<rowVars, applied, wake, wtask, why, ran, late, clientVars, started, troubles>>

-----------------------------------------------------------------------------
RequestStep ==
    \/ \E c \in Clients :
          \/ \E g \in Targets : CreateMiss(c, g) \/ CreateHit(c, g)
          \/ CreateStamp(c) \/ CreateInsert(c) \/ CreateInsertFails(c) \/ Wake(c)
    \/ \E t \in Tasks : CancelTask(t)
    \/ \E o \in Owners : DeleteUser(o)

WorkerStep ==
    \/ SelectTask \/ SelectNone \/ ClaimTask \/ ClaimLost \/ WorkerStatementFails
    \/ SkipCanceled \/ StartRun \/ RunCommits \/ RunFails
    \/ FinishTask \/ FinishFails \/ WorkerStops \/ FallAsleep \/ Woken \/ TimerFires

EnvironmentStep ==
    \/ \E t \in Tasks : TTLElapses(t)
    \/ Reap \/ Shutdown \/ Exit \/ Restart

Next == RequestStep \/ WorkerStep \/ EnvironmentStep

Spec == Init /\ [][Next]_vars

\* The goroutines are scheduled, OCR runs have time-outs, the supervisor
\* restarts a stopped process, clocks advance.  Requests, faults, shutdowns
\* and crashes are never forced.
Fairness ==
    /\ WF_vars(SelectTask \/ SelectNone)
    /\ WF_vars(ClaimTask \/ ClaimLost)
    /\ WF_vars(SkipCanceled \/ StartRun)
    /\ WF_vars(RunCommits \/ RunFails)
    /\ WF_vars(FinishTask)
    /\ WF_vars(WorkerStops)
    /\ WF_vars(FallAsleep \/ Woken \/ TimerFires)
    /\ WF_vars(Reap)
    /\ WF_vars(wpc = "stopped" /\ Exit)
    /\ WF_vars(Restart)
    /\ \A t \in Tasks : WF_vars(TTLElapses(t))

FairSpec == Spec /\ Fairness

-----------------------------------------------------------------------------
(* Properties *)

\* A row that reads "succeeded" stands for a result that reached its target:
\* cancels, time-outs, deletions and failing statements never fake one.
SucceededWasApplied == \A t \in With("succeeded") : t \in applied

\* Every row follows the life cycle a client polls for, whatever the
\* interleaving: terminal rows never move again (a canceled task is not revived
\* by the claim that was selected before), and no row is run twice.
TL == INSTANCE TaskLifecycle
        WITH Tasks <- Tasks, status <- status, started <- started, applied <- applied
Lifecycle == TL!Spec

\* The look-up before the INSERT is not atomic, so a target may get several
\* active rows - but never more than there are overlapping upload requests.
Inserting(g) == {c \in Clients : cpc[c] \in {"stamp", "insert"} /\ ctarget[c] = g}
OverlapBound ==
    \A g \in Targets :
        Cardinality(ActiveFor(g)) + Cardinality(Inserting(g)) <= Cardinality(Clients)

\* Overtaking is bounded by the window between the worker's two statements:
\* when a claim passes over an older queued row, that row was inserted, with a
\* stamp taken before, after the claimed one had been selected.  A row that the
\* worker's SELECT could see is never overtaken by a younger one, in whatever
\* order stamps and INSERTs of overlapping uploads come.
ClaimsOldestFirst ==
    [][\A t \in Tasks :
          status[t] = "queued" /\ status'[t] = "processing"
              => \A u \in With("queued") : born[u] < born[t] => u \in late]_vars

\* While nothing has failed, a row in "processing" is the row the worker has in
\* hand: no row is forgotten half way, and at most one is processed at a time.
ProcessingIsHeld ==
    troubles = 0
        => \A t \in With("processing") : t = wtask

\* When the worker found the queue empty, a row queued since then has its wake
\* token in the channel or a request about to send it - even when it came while
\* the worker was still on its way to the select - so it does not wait for the
\* idle timer.
NoLostWakeUp ==
    (wpc \in {"doze", "sleep"} /\ why = "empty" /\ With("queued") # {})
        => wake \/ \E c \in Clients : cpc[c] = "wake"

\* Once the root context is canceled, no background goroutine changes a row:
\* only requests still in flight insert, cancel or delete.
QuietAfterShutdown ==
    [][ctx = "canceled" /\ ctx' = "canceled" =>
          \A t \in Tasks : status'[t] # status[t]
              => status'[t] \in {"queued", "canceled", "gone"}]_vars

\* A row never stays active for ever: run, canceled, or failed by the reaper
\* after a crash, a shutdown or a failed final UPDATE left it in "processing".
EveryTaskSettles ==
    \A t \in Tasks : status[t] \in Active ~> status[t] \notin Active

\* The worker goroutine ends after the root context is canceled, so Wait can
\* return before its time-out.
WorkerEndsAfterShutdown == ctx = "canceled" ~> (wpc \in {"stopped", "down"})

=============================================================================
