---------------------------- MODULE WorkerProofs -----------------------------
(****************************************************************************)
(* Proofs about TaskQueue, for every set of tasks, targets, users and       *)
(* clients and every bound, and about OcrCalls, the recognition the tasks   *)
(* wait for, for any number of calls and slots, any restart interval and    *)
(* any amount of noise.                                                     *)
(*                                                                          *)
(* IInv is the inductive invariant of the queue: RunsTracked and            *)
(* SelectionOldest carry what the worker knows from one statement to the    *)
(* next, RowsHeld who owns a processing row.  CallsInv is that of the calls.*)
(****************************************************************************)
EXTENDS TaskQueue, OcrCalls, FiniteSetTheorems, TLAPS

\* A request about to insert knows its target.
RequestsAim == \A c \in Clients : cpc[c] \in {"stamp", "insert"} => ctarget[c] \in Targets

\* Between the SELECT and the claim something older can appear only by an
\* INSERT that comes in between.
SelectionOldest ==
    wpc = "claim" =>
        /\ status[wtask] # "absent"
        /\ \A u \in Tasks \ late : status[u] = "queued" => born[wtask] <= born[u]
LateAreSince == wpc # "claim" => late = {}

\* Where the OCR run of every row stands.
RunsTracked ==
    /\ \A t \in started : status[t] \notin {"absent", "queued"}
    /\ applied \subseteq started
    /\ wpc \in {"check", "run", "finish"} => status[wtask] \notin {"absent", "queued"}
    /\ wpc = "check" => wtask \notin started
    /\ wpc \in {"run", "finish"} => wtask \in started
    /\ (wpc = "finish" /\ ran = "ok") => wtask \in applied

\* A processing row without a failure is in the worker's hands.
RowsHeld ==
    troubles = 0
        => \A t \in Tasks : status[t] = "processing"
               => t = wtask /\ wpc \in {"check", "run", "finish"}

DownAfterExit == ~Up \/ ctx = "canceled" => troubles > 0

IInv ==
    /\ TypeOK
    /\ RequestsAim
    /\ SelectionOldest
    /\ LateAreSince
    /\ RunsTracked
    /\ SucceededWasApplied
    /\ RowsHeld
    /\ DownAfterExit
    /\ NoLostWakeUp

USE OwnerAssumption, NoValueAssumption, BoundsAssumption

LEMMA InitIInv == Init => IInv
<1> SUFFICES ASSUME Init PROVE IInv
    OBVIOUS
<1>1. TypeOK
    BY DEF Init, TypeOK, Statuses, Active, Terminal, WorkerPCs
<1>2. RequestsAim /\ SelectionOldest /\ LateAreSince
    BY DEF Init, RequestsAim, SelectionOldest, LateAreSince
<1>3. RunsTracked /\ SucceededWasApplied /\ RowsHeld
    BY DEF Init, RunsTracked, SucceededWasApplied, RowsHeld, With
<1>4. DownAfterExit /\ NoLostWakeUp
    BY DEF Init, DownAfterExit, NoLostWakeUp, Up
<1> QED
    BY <1>1, <1>2, <1>3, <1>4 DEF IInv


LEMMA NextKeepsIInv == IInv /\ [Next]_vars => IInv'
<1> SUFFICES ASSUME IInv, [Next]_vars PROVE IInv'
    OBVIOUS
<1> USE DEF IInv, TypeOK, Statuses, Active, Terminal, WorkerPCs, rowVars, workerVars,
            clientVars, Up, ClientMoves, With, SucceededWasApplied,
            RequestsAim, SelectionOldest, LateAreSince, RunsTracked, RowsHeld,
            DownAfterExit, NoLostWakeUp, SetStatus, Trouble, Fault, WorkerAt, StatementsRun, Doze
<1>1. ASSUME NEW c \in Clients, NEW g \in Targets, CreateMiss(c, g) PROVE IInv'
    BY <1>1 DEF CreateMiss
<1>2. ASSUME NEW c \in Clients, NEW g \in Targets, CreateHit(c, g) PROVE IInv'
    BY <1>2 DEF CreateHit, LookupActive, ActiveFor
<1>29. ASSUME NEW c \in Clients, CreateStamp(c) PROVE IInv'
    BY <1>29 DEF CreateStamp
<1>3. ASSUME NEW c \in Clients, CreateInsert(c) PROVE IInv'
    BY <1>3 DEF CreateInsert, InsertRow
<1>4. ASSUME NEW c \in Clients, CreateInsertFails(c) PROVE IInv'
    BY <1>4 DEF CreateInsertFails
<1>5. ASSUME NEW c \in Clients, Wake(c) PROVE IInv'
    BY <1>5 DEF Wake, SendWake
<1>6. ASSUME NEW t \in Tasks, CancelTask(t) PROVE IInv'
    BY <1>6 DEF CancelTask
<1>7. ASSUME NEW o \in Owners, DeleteUser(o) PROVE IInv'
    BY <1>7 DEF DeleteUser
<1>8. ASSUME SelectTask PROVE IInv'
    BY <1>8 DEF SelectTask, Oldest
<1>9. ASSUME SelectNone PROVE IInv'
    BY <1>9 DEF SelectNone
<1>10. ASSUME ClaimTask PROVE IInv'
    BY <1>10 DEF ClaimTask, Claimable
<1>11. ASSUME ClaimLost PROVE IInv'
    BY <1>11 DEF ClaimLost
<1>12. ASSUME WorkerStatementFails PROVE IInv'
    BY <1>12 DEF WorkerStatementFails
<1>13. ASSUME SkipCanceled PROVE IInv'
    BY <1>13 DEF SkipCanceled
<1>14. ASSUME StartRun PROVE IInv'
    BY <1>14 DEF StartRun, ReadFails
<1>15. ASSUME RunCommits PROVE IInv'
    BY <1>15 DEF RunCommits
<1>16. ASSUME RunFails PROVE IInv'
    BY <1>16 DEF RunFails
<1>17. ASSUME FinishTask PROVE IInv'
    BY <1>17 DEF FinishTask, FinishRow, Outcome
<1>18. ASSUME FinishFails PROVE IInv'
    BY <1>18 DEF FinishFails
<1>19. ASSUME WorkerStops PROVE IInv'
    BY <1>19 DEF WorkerStops, StopsAt
<1>28. ASSUME FallAsleep PROVE IInv'
    BY <1>28 DEF FallAsleep
<1>20. ASSUME Woken PROVE IInv'
    BY <1>20 DEF Woken
<1>21. ASSUME TimerFires PROVE IInv'
    BY <1>21 DEF TimerFires
<1>22. ASSUME NEW t \in Tasks, TTLElapses(t) PROVE IInv'
    BY <1>22 DEF TTLElapses
<1>23. ASSUME Reap PROVE IInv'
    BY <1>23 DEF Reap, Reapable
<1>24. ASSUME Shutdown PROVE IInv'
    BY <1>24 DEF Shutdown
<1>25. ASSUME Exit PROVE IInv'
  <2>1. TypeOK'
    <3>1. wake' \in BOOLEAN
          BY <1>25 DEF Exit
    <3>2. cpc' \in [Clients -> {"idle", "stamp", "insert", "wake"}]
          BY <1>25 DEF Exit
    <3>3. ctarget' \in [Clients -> Targets \cup {NoTarget}] /\ cstamp' \in [Clients -> Nat]
          BY <1>25 DEF Exit
    <3>4. troubles' \in Nat /\ wpc' \in WorkerPCs /\ wtask' = NoTask
          BY <1>25 DEF Exit
    <3> QED
          BY <1>25, <3>1, <3>2, <3>3, <3>4 DEF Exit
  <2>2. (RequestsAim /\ SelectionOldest /\ LateAreSince)'
        BY <1>25 DEF Exit
  <2>3. (RunsTracked /\ SucceededWasApplied /\ RowsHeld)'
        BY <1>25 DEF Exit
  <2>4. (DownAfterExit /\ NoLostWakeUp)'
        BY <1>25 DEF Exit
  <2> QED
        BY <2>1, <2>2, <2>3, <2>4
<1>26. ASSUME Restart PROVE IInv'
    BY <1>26 DEF Restart
<1>27. CASE UNCHANGED vars
    BY <1>27 DEF vars
<1> QED
    BY <1>1, <1>2, <1>3, <1>4, <1>5, <1>6, <1>7, <1>8, <1>9, <1>10, <1>11, <1>12, <1>13, <1>14, <1>15, <1>16, <1>17, <1>18, <1>19, <1>20, <1>21, <1>22, <1>23, <1>24, <1>25, <1>26, <1>27, <1>28, <1>29
       DEF Next, RequestStep, WorkerStep, EnvironmentStep

\* The inductive invariant holds in every reachable state.
THEOREM Invariant == Spec => []IInv
<1> QED
    BY InitIInv, NextKeepsIInv, PTL DEF Spec

\* Types, and rows and requests that agree with them: a row has a target exactly
\* when it was inserted, the worker holds a row exactly between SELECT and the
\* last UPDATE.
THEOREM TypeCorrect == Spec => []TypeOK
<1>1. IInv => TypeOK
    BY DEF IInv
<1> QED
    BY <1>1, Invariant, PTL

\* A "succeeded" row always stands for a committed OCR result.
THEOREM SuccessIsReal == Spec => []SucceededWasApplied
<1>1. IInv => SucceededWasApplied
    BY DEF IInv
<1> QED
    BY <1>1, Invariant, PTL

\* Without a failure no processing row is out of the worker's hands.
THEOREM NoForgottenRow == Spec => []ProcessingIsHeld
<1>1. IInv => ProcessingIsHeld
    BY DEF IInv, RowsHeld, ProcessingIsHeld, With
<1> QED
    BY <1>1, Invariant, PTL

\* A worker asleep on an empty queue has not lost the wake-up of a later row.
THEOREM WakeUpNotLost == Spec => []NoLostWakeUp
<1>1. IInv => NoLostWakeUp
    BY DEF IInv
<1> QED
    BY <1>1, Invariant, PTL

\* A claim passes over an older queued row only when that row was inserted after
\* the claimed one had been selected.
THEOREM FirstComeFirstServed == Spec => ClaimsOldestFirst
<1> DEFINE Fifo == \A t \in Tasks :
               status[t] = "queued" /\ status'[t] = "processing"
                   => \A u \in With("queued") : born[u] < born[t] => u \in late
<1>1. IInv /\ [Next]_vars => [Fifo]_vars
  <2> SUFFICES ASSUME IInv, Next PROVE Fifo
      BY DEF vars
  <2> USE DEF With, SetStatus, ClientMoves, IInv, TypeOK, rowVars
  <2>1. CASE ClaimTask
      BY <2>1 DEF ClaimTask, WorkerAt, SelectionOldest
  <2>2. CASE RequestStep
      BY <2>2 DEF RequestStep, CreateMiss, CreateHit, CreateStamp, CreateInsert, InsertRow,
                  CreateInsertFails, Wake, CancelTask, DeleteUser
  <2>3. CASE WorkerStep /\ ~ClaimTask
      BY <2>3 DEF WorkerStep, SelectTask, SelectNone, ClaimLost, WorkerStatementFails,
                  SkipCanceled, StartRun, RunCommits, RunFails, FinishTask, FinishRow,
                  Outcome, FinishFails, WorkerStops, FallAsleep, Woken, TimerFires
  <2>4. CASE EnvironmentStep
      BY <2>4 DEF EnvironmentStep, TTLElapses, Reap, Shutdown, Exit, Restart
  <2> QED
      BY <2>1, <2>2, <2>3, <2>4 DEF Next
<1> QED
    BY <1>1, Invariant, PTL DEF Spec, ClaimsOldestFirst

\* After the root context is canceled only requests change rows.
THEOREM ShutdownIsQuiet == Spec => QuietAfterShutdown
<1> DEFINE Quiet == ctx = "canceled" /\ ctx' = "canceled" =>
               \A t \in Tasks : status'[t] # status[t]
                   => status'[t] \in {"queued", "canceled", "gone"}
<1>1. IInv /\ [Next]_vars => [Quiet]_vars
  <2> SUFFICES ASSUME IInv, Next PROVE Quiet
      BY DEF vars
  <2> USE DEF SetStatus, IInv, TypeOK, rowVars
  <2>1. CASE RequestStep
      BY <2>1 DEF RequestStep, CreateMiss, CreateHit, CreateStamp, CreateInsert, InsertRow,
                  CreateInsertFails, Wake, CancelTask, DeleteUser
  <2>2. CASE WorkerStep
      BY <2>2 DEF WorkerStep, SelectTask, SelectNone, ClaimTask, ClaimLost,
                  WorkerStatementFails, SkipCanceled, StartRun, RunCommits, RunFails,
                  FinishTask, FinishFails, WorkerStops, FallAsleep, Woken, TimerFires, StatementsRun
  <2>3. CASE EnvironmentStep
      BY <2>3 DEF EnvironmentStep, TTLElapses, Reap, Shutdown, Exit, Restart
  <2> QED
      BY <2>1, <2>2, <2>3 DEF Next
<1> QED
    BY <1>1, Invariant, PTL DEF Spec, QuietAfterShutdown

-----------------------------------------------------------------------------
(* The queue implements the life cycle of a row.                            *)

\* Every step of the queue is a step of TaskLifecycle or leaves it unchanged.
LEMMA StepsFollowLifecycle == IInv /\ [Next]_vars => [TL!Next]_TL!vars
<1> SUFFICES ASSUME IInv, [Next]_vars PROVE [TL!Next]_TL!vars
    OBVIOUS
<1> USE DEF TL!vars, rowVars, IInv, TypeOK
<1>1. ASSUME NEW c \in Clients, CreateInsert(c) PROVE TL!Next
  <2> PICK t \in With("absent") : InsertRow(t, ctarget[c], cstamp[c])
      BY <1>1 DEF CreateInsert
  <2>1. status' = [u \in Tasks |-> IF u \in {t} THEN "queued" ELSE status[u]]
      BY DEF InsertRow, With
  <2>2. TL!Enqueue(t)
      BY <1>1, <2>1 DEF CreateInsert, TL!Enqueue, TL!Move, With
  <2> QED
      BY <2>2 DEF TL!Next, With
<1>2. ASSUME NEW t \in Tasks, CancelTask(t) PROVE TL!Next
  <2>1. TL!Cancel(t)
      BY <1>2 DEF CancelTask, SetStatus, Active, TL!Cancel, TL!Move, TL!Active
  <2> QED
      BY <2>1 DEF TL!Next
<1>3. ASSUME NEW o \in Owners, DeleteUser(o) PROVE TL!Next
  <2> DEFINE S == {t \in Tasks : target[t] # NoTarget /\ OwnerOf[target[t]] = o}
  <2>1. TL!Forget(S)
      BY <1>3 DEF DeleteUser, SetStatus, TL!Forget, TL!Move
  <2> QED
      BY <2>1 DEF TL!Next
<1>4. ASSUME ClaimTask PROVE TL!Next
  <2>1. wtask \in Tasks /\ TL!Claim(wtask)
      BY <1>4 DEF ClaimTask, WorkerAt, Claimable, SetStatus, TL!Claim, TL!Move
  <2> QED
      BY <2>1 DEF TL!Next
<1>5. ASSUME StartRun PROVE TL!Next
  <2>1. wtask \in Tasks /\ TL!Start(wtask)
      BY <1>5 DEF StartRun, WorkerAt, RunsTracked, TL!Start
  <2> QED
      BY <2>1 DEF TL!Next
<1>6. ASSUME RunCommits PROVE TL!Next
  <2>1. wtask \in Tasks /\ TL!Apply(wtask)
      BY <1>6 DEF RunCommits, WorkerAt, RunsTracked, TL!Apply
  <2> QED
      BY <2>1 DEF TL!Next
<1>7. ASSUME FinishTask PROVE TL!Next \/ UNCHANGED TL!vars
  <2>1. wtask \in Tasks
      BY <1>7 DEF FinishTask, WorkerAt
  <2>2. CASE status[wtask] # "processing"
      BY <1>7, <2>2 DEF FinishTask, FinishRow
  <2>3. CASE status[wtask] = "processing" /\ ran = "ok"
    <3>1. TL!Succeed(wtask)
        BY <1>7, <2>3 DEF FinishTask, FinishRow, Outcome, SetStatus, WorkerAt,
                          RunsTracked, TL!Succeed, TL!Move
    <3> QED
        BY <2>1, <3>1 DEF TL!Next
  <2>4. CASE status[wtask] = "processing" /\ ran # "ok"
    <3>1. TL!Fail({wtask})
        BY <1>7, <2>4 DEF FinishTask, FinishRow, Outcome, SetStatus, TL!Fail, TL!Move
    <3> QED
        BY <2>1, <3>1 DEF TL!Next
  <2> QED
      BY <2>2, <2>3, <2>4
<1>8. ASSUME Reap PROVE TL!Next
  <2>1. Reapable \in SUBSET Tasks /\ TL!Fail(Reapable)
      BY <1>8 DEF Reap, Reapable, SetStatus, TL!Fail, TL!Move
  <2> QED
      BY <2>1 DEF TL!Next
<1>9. ASSUME NEW c \in Clients, NEW g \in Targets,
             CreateMiss(c, g) \/ CreateHit(c, g)
      PROVE  UNCHANGED TL!vars
    BY <1>9 DEF CreateMiss, CreateHit
<1>10. ASSUME SelectTask \/ SelectNone \/ ClaimLost \/ WorkerStatementFails
              \/ SkipCanceled \/ RunFails \/ FinishFails \/ WorkerStops \/ FallAsleep \/ Woken
              \/ TimerFires
       PROVE  UNCHANGED TL!vars
    BY <1>10 DEF SelectTask, SelectNone, ClaimLost, WorkerStatementFails, SkipCanceled,
                 RunFails, FinishFails, WorkerStops, FallAsleep, Woken, TimerFires
<1>11. ASSUME (\E t \in Tasks : TTLElapses(t)) \/ Shutdown \/ Exit \/ Restart
       PROVE  UNCHANGED TL!vars
    BY <1>11 DEF TTLElapses, Shutdown, Exit, Restart
<1>12. ASSUME NEW c \in Clients, CreateStamp(c) \/ CreateInsertFails(c) \/ Wake(c)
       PROVE  UNCHANGED TL!vars
    BY <1>12 DEF CreateStamp, CreateInsertFails, Wake
<1>13. CASE UNCHANGED vars
    BY <1>13 DEF vars
<1> QED
    BY <1>1, <1>2, <1>3, <1>4, <1>5, <1>6, <1>7, <1>8, <1>9, <1>10, <1>11, <1>12, <1>13
       DEF Next, RequestStep, WorkerStep, EnvironmentStep

\* Every behaviour of the queue is, row by row, a behaviour of the life cycle:
\* terminal rows stay terminal, no row runs twice, success follows the commit.
THEOREM ImplementsLifecycle == Spec => Lifecycle
<1>1. Init => TL!Init
    BY DEF Init, TL!Init
<1> QED
    BY <1>1, StepsFollowLifecycle, Invariant, PTL DEF Spec, Lifecycle, TL!Spec

-----------------------------------------------------------------------------
(* The bound on duplicate rows of one target.                               *)

DedupInv ==
    \A g \in Targets :
        /\ IsFiniteSet(ActiveFor(g))
        /\ Cardinality(ActiveFor(g)) + Cardinality(Inserting(g)) <= Cardinality(Clients)

\* The requests about to insert are finitely many.
LEMMA InsertingFinite ==
    \A g \in Targets : /\ IsFiniteSet(Inserting(g))
                       /\ Cardinality(Inserting(g)) \in Nat
                       /\ Cardinality(Inserting(g)) <= Cardinality(Clients)
<1>1. \A g \in Targets : Inserting(g) \subseteq Clients
    BY DEF Inserting
<1> QED
    BY <1>1, ClientsAssumption, FS_Subset, FS_CardinalityType

\* Fewer active rows and fewer pending inserts keep the bound.
LEMMA ShrinkingKeepsBound ==
    ASSUME NEW g \in Targets, DedupInv,
           ActiveFor(g)' \subseteq ActiveFor(g), Inserting(g)' \subseteq Inserting(g)
    PROVE  /\ IsFiniteSet(ActiveFor(g)')
           /\ Cardinality(ActiveFor(g)') + Cardinality(Inserting(g)') <= Cardinality(Clients)
<1>1. IsFiniteSet(ActiveFor(g)) /\ IsFiniteSet(Inserting(g))
    BY InsertingFinite DEF DedupInv
<1>2. IsFiniteSet(ActiveFor(g)') /\ Cardinality(ActiveFor(g)') <= Cardinality(ActiveFor(g))
    BY <1>1, FS_Subset
<1>3. IsFiniteSet(Inserting(g)') /\ Cardinality(Inserting(g)') <= Cardinality(Inserting(g))
    BY <1>1, FS_Subset
<1>4. /\ Cardinality(ActiveFor(g)) \in Nat /\ Cardinality(ActiveFor(g)') \in Nat
      /\ Cardinality(Inserting(g)) \in Nat /\ Cardinality(Inserting(g)') \in Nat
      /\ Cardinality(Clients) \in Nat
    BY <1>1, <1>2, <1>3, FS_CardinalityType, ClientsAssumption
<1> QED
    BY <1>2, <1>3, <1>4 DEF DedupInv

\* A look-up that finds nothing may be one of several in flight, an INSERT turns
\* a pending request into an active row, every other step only shrinks.
LEMMA NextKeepsDedupInv == IInv /\ DedupInv /\ [Next]_vars => DedupInv'
<1> SUFFICES ASSUME IInv, DedupInv, [Next]_vars, NEW g \in Targets
             PROVE  /\ IsFiniteSet(ActiveFor(g)')
                    /\ Cardinality(ActiveFor(g)') + Cardinality(Inserting(g)')
                           <= Cardinality(Clients)
    BY DEF DedupInv
<1> USE DEF rowVars, clientVars, ClientMoves, IInv, TypeOK, SetStatus, Active
<1>1. ASSUME NEW c \in Clients, NEW h \in Targets, CreateMiss(c, h), h = g
      PROVE  /\ IsFiniteSet(ActiveFor(g)')
             /\ Cardinality(ActiveFor(g)') + Cardinality(Inserting(g)') <= Cardinality(Clients)
  <2>1. ActiveFor(g)' = {}
      BY <1>1 DEF CreateMiss, LookupActive, ActiveFor
  <2>2. Inserting(g)' \subseteq Clients
      BY DEF Inserting
  <2>3. Cardinality(Inserting(g)') <= Cardinality(Clients) /\ Cardinality(Inserting(g)') \in Nat
      BY <2>2, ClientsAssumption, FS_Subset, FS_CardinalityType
  <2> QED
      BY <2>1, <2>3, FS_EmptySet
<1>2. ASSUME NEW c \in Clients, CreateInsert(c), ctarget[c] = g
      PROVE  /\ IsFiniteSet(ActiveFor(g)')
             /\ Cardinality(ActiveFor(g)') + Cardinality(Inserting(g)') <= Cardinality(Clients)
  <2> PICK t \in With("absent") : InsertRow(t, ctarget[c], cstamp[c])
      BY <1>2 DEF CreateInsert
  <2>1. ActiveFor(g)' = ActiveFor(g) \cup {t} /\ t \notin ActiveFor(g)
      BY <1>2 DEF InsertRow, With, ActiveFor
  <2>2. Inserting(g)' = Inserting(g) \ {c} /\ c \in Inserting(g)
      BY <1>2 DEF CreateInsert, Inserting
  <2>3. IsFiniteSet(ActiveFor(g)) /\ IsFiniteSet(Inserting(g))
      BY InsertingFinite DEF DedupInv
  <2>4. IsFiniteSet(ActiveFor(g)') /\ Cardinality(ActiveFor(g)') = Cardinality(ActiveFor(g)) + 1
      BY <2>1, <2>3, FS_AddElement
  <2>5. Cardinality(Inserting(g)') = Cardinality(Inserting(g)) - 1
    <3>1. Cardinality(Inserting(g) \ {c}) = Cardinality(Inserting(g)) - 1
        BY <2>2, <2>3, FS_RemoveElement
    <3> QED
        BY <2>2, <3>1
  <2>6. /\ Cardinality(ActiveFor(g)) \in Nat /\ Cardinality(Inserting(g)) \in Nat
        /\ Cardinality(Clients) \in Nat
      BY <2>3, FS_CardinalityType, ClientsAssumption
  <2> QED
      BY <2>4, <2>5, <2>6 DEF DedupInv
<1>3. ASSUME NEW c \in Clients, NEW h \in Targets,
             (CreateMiss(c, h) /\ h # g) \/ CreateHit(c, h)
      PROVE  ActiveFor(g)' \subseteq ActiveFor(g) /\ Inserting(g)' \subseteq Inserting(g)
    BY <1>3 DEF CreateMiss, CreateHit, ActiveFor, Inserting
<1>4. ASSUME NEW c \in Clients,
             CreateStamp(c) \/ (CreateInsert(c) /\ ctarget[c] # g) \/ CreateInsertFails(c) \/ Wake(c)
      PROVE  ActiveFor(g)' \subseteq ActiveFor(g) /\ Inserting(g)' \subseteq Inserting(g)
    BY <1>4 DEF CreateStamp, CreateInsert, InsertRow, With, CreateInsertFails, Wake, ActiveFor, Inserting
<1>5. ASSUME (\E t \in Tasks : CancelTask(t)) \/ (\E o \in Owners : DeleteUser(o))
      PROVE  ActiveFor(g)' \subseteq ActiveFor(g) /\ Inserting(g)' \subseteq Inserting(g)
    BY <1>5 DEF CancelTask, DeleteUser, ActiveFor, Inserting
<1>6. ASSUME WorkerStep
      PROVE  ActiveFor(g)' \subseteq ActiveFor(g) /\ Inserting(g)' \subseteq Inserting(g)
    BY <1>6 DEF WorkerStep, SelectTask, SelectNone, ClaimTask, ClaimLost, Claimable,
                WorkerStatementFails, SkipCanceled, StartRun, RunCommits, RunFails,
                FinishTask, FinishRow, Outcome, FinishFails, WorkerStops, FallAsleep, Woken, TimerFires,
                ActiveFor, Inserting
<1>7. ASSUME EnvironmentStep
      PROVE  ActiveFor(g)' \subseteq ActiveFor(g) /\ Inserting(g)' \subseteq Inserting(g)
    BY <1>7 DEF EnvironmentStep, TTLElapses, Reap, Shutdown, Exit, Restart,
                ActiveFor, Inserting
<1>8. ASSUME UNCHANGED vars
      PROVE  ActiveFor(g)' \subseteq ActiveFor(g) /\ Inserting(g)' \subseteq Inserting(g)
    BY <1>8 DEF vars, ActiveFor, Inserting
<1> QED
    BY <1>1, <1>2, <1>3, <1>4, <1>5, <1>6, <1>7, <1>8, ShrinkingKeepsBound
       DEF Next, RequestStep

\* A target never has more active rows than overlapping upload requests allow.
THEOREM DuplicatesBounded == Spec => []OverlapBound
<1>1. Init => DedupInv
  <2> SUFFICES ASSUME Init, NEW g \in Targets
               PROVE  /\ IsFiniteSet(ActiveFor(g))
                      /\ Cardinality(ActiveFor(g)) + Cardinality(Inserting(g))
                             <= Cardinality(Clients)
      BY DEF DedupInv
  <2>1. ActiveFor(g) = {}
      BY DEF Init, ActiveFor, Active
  <2> QED
      BY <2>1, FS_EmptySet, InsertingFinite
<1>2. DedupInv => OverlapBound
    BY DEF DedupInv, OverlapBound
<1> QED
    BY <1>1, <1>2, Invariant, NextKeepsDedupInv, PTL DEF Spec

-----------------------------------------------------------------------------
(* OcrCalls                                                                 *)

\* The mutex is held by the call that is at one of these points.
Inside == {"start", "look", "write", "read"}
Exclusive == \A k \in Calls : mutex = k <=> call[k].pc \in Inside
HolderIsCall == mutex # None => call[mutex].pc \in Inside

\* An exit is that of a process that has ended; whoever took it from the channel
\* is about to find that it cannot write.
ExitIsSeen ==
    /\ exit # "none" => ~alive
    /\ exit = "taken" => mutex # None /\ call[mutex].pc = "write"

\* A process that can be written to has requests left.
RequestsLeft ==
    \A k \in Calls : call[k].pc = "write" /\ alive => reqCount < EveryN

\* The pipes hold what was printed and the request that is waited for.
Owed == IF mutex # None /\ call[mutex].pc = "read" THEN 1 ELSE 0
PipesAreCounted == Len(stdin) + Len(stdout) <= noise + Owed

CallsInv ==
    /\ CallsTypeOK /\ Exclusive /\ HolderIsCall
    /\ ExitIsSeen /\ RequestsLeft /\ PipesAreCounted /\ AnswersMatch

Assumptions == CallBounds /\ NoneAssumption

-----------------------------------------------------------------------------
(* What one step does to the invariant. *)

LEMMA CallsInitOK == CallsInit => CallsInv
<1>. SUFFICES ASSUME CallsInit PROVE CallsInv OBVIOUS
<1>. USE CallBounds, NoneAssumption
<1>1. call \in [Calls -> CallState] /\ mutex = None /\ \A k \in Calls : call[k].pc = "idle" /\ call[k].text = None
  BY DEF CallsInit, CallState, Points
<1>2. stdin \in Seq(Calls) /\ stdout \in Seq(Lines) /\ Len(stdin) = 0 /\ Len(stdout) = 0
  BY DEF CallsInit
<1>3. CallsTypeOK
  <2>1. 0 \in 0 .. EveryN /\ 0 \in 0 .. MaxNoise OBVIOUS
  <2>. QED BY <1>1, <1>2, <2>1 DEF CallsInit, CallsTypeOK
<1>4. Exclusive /\ HolderIsCall /\ ExitIsSeen /\ RequestsLeft /\ AnswersMatch
  BY <1>1 DEF CallsInit, Exclusive, HolderIsCall, Inside, ExitIsSeen, RequestsLeft, AnswersMatch
<1>5. PipesAreCounted BY <1>1, <1>2 DEF CallsInit, Owed, PipesAreCounted
<1>. QED BY <1>3, <1>4, <1>5 DEF CallsInv

\* Calls move outside of the mutex, or end without a text of another.
LEMMA OutsideOK ==
    ASSUME CallsInv, NEW k \in Calls,
           \/ CallBegins(k) \/ ContextExpires(k) \/ AcquireSlot(k) \/ SlotRefused(k) \/ RunsCli(k)
    PROVE  CallsInv'
<1>. DEFINE Stays(s) ==
       /\ call' = [call EXCEPT ![k] = s]
       /\ s.text \in {k, None}
       /\ s.pc = call[k].pc \/ (s.pc \notin Inside /\ call[k].pc \notin Inside)
<1>1. PICK s \in CallState : Stays(s)
  <2>1. call[k] \in CallState /\ call[k].text \in {k, None} BY DEF CallsInv, CallsTypeOK, AnswersMatch
  <2>2. ASSUME NEW pc \in Points, At(k, "idle") \/ At(k, "slot"), pc \notin Inside, Goes(k, pc)
        PROVE  \E s \in CallState : Stays(s)
    <3>. DEFINE s == [call[k] EXCEPT !.pc = pc]
    <3>1. s \in CallState /\ s.text = call[k].text /\ s.pc = pc BY <2>1 DEF CallState
    <3>. QED BY <2>1, <2>2, <3>1 DEF Goes, At, Inside
  <2>3. ASSUME NEW text \in {k, None}, At(k, "slot") \/ At(k, "cli"), Ends(k, text)
        PROVE  \E s \in CallState : Stays(s)
    <3>. DEFINE s == [[call[k] EXCEPT !.pc = "done"] EXCEPT !.text = text]
    <3>1. s \in CallState /\ s.text = text /\ s.pc = "done" BY <2>1 DEF CallState, Points
    <3>2. call' = [call EXCEPT ![k] = s] BY <2>1, <2>3 DEF Ends, CallsInv, CallsTypeOK
    <3>. QED BY <2>3, <3>1, <3>2 DEF At, Inside
  <2>4. ASSUME call' = [call EXCEPT ![k].late = TRUE] PROVE \E s \in CallState : Stays(s)
    <3>. DEFINE s == [call[k] EXCEPT !.late = TRUE]
    <3>1. s \in CallState /\ s.text = call[k].text /\ s.pc = call[k].pc BY <2>1 DEF CallState
    <3>. QED BY <2>1, <2>4, <3>1
  <2>5. CASE CallBegins(k) BY <2>2, <2>5 DEF CallBegins, Points, Inside
  <2>6. CASE AcquireSlot(k) BY <2>2, <2>6 DEF AcquireSlot, Points, Inside
  <2>7. CASE SlotRefused(k) BY <2>3, <2>7 DEF SlotRefused
  <2>8. CASE RunsCli(k) BY <2>3, <2>8 DEF RunsCli
  <2>9. CASE ContextExpires(k) BY <2>4, <2>9 DEF ContextExpires
  <2>. QED BY <2>5, <2>6, <2>7, <2>8, <2>9
<1>2. UNCHANGED <<mutex, process, noise, stop>>
  BY DEF CallBegins, ContextExpires, AcquireSlot, SlotRefused, RunsCli
<1>3. \A j \in Calls : j # k => call'[j] = call[j] BY <1>1 DEF CallsInv, CallsTypeOK
<1>4. call'[k] = s BY <1>1 DEF CallsInv, CallsTypeOK
<1>5. CallsTypeOK' BY <1>1, <1>2 DEF CallsInv, CallsTypeOK, process
<1>6. \A j \in Calls : call'[j].pc \in Inside \/ call[j].pc \in Inside => call'[j].pc = call[j].pc
  BY <1>1, <1>3, <1>4
<1>7. mutex \in Calls \cup {None} BY DEF CallsInv, CallsTypeOK
<1>8. Exclusive' /\ HolderIsCall'
  BY <1>2, <1>6, <1>7 DEF CallsInv, Exclusive, HolderIsCall
<1>9. ExitIsSeen' /\ RequestsLeft'
  BY <1>2, <1>6, <1>7 DEF CallsInv, ExitIsSeen, RequestsLeft, HolderIsCall, process, Inside
<1>10. Owed' = Owed BY <1>2, <1>6, <1>7 DEF CallsInv, HolderIsCall, Owed
<1>11. PipesAreCounted' BY <1>2, <1>10 DEF CallsInv, PipesAreCounted, process
<1>12. AnswersMatch' BY <1>1, <1>3, <1>4 DEF CallsInv, AnswersMatch
<1>. QED BY <1>5, <1>8, <1>9, <1>11, <1>12 DEF CallsInv

\* A call that holds the mutex goes on with it ...
LEMMA HolderMoves ==
    ASSUME CallsInv, NEW k \in Calls, NEW pc \in Inside, Goes(k, pc), mutex' = k,
           mutex = k \/ mutex = None
    PROVE  /\ call' \in [Calls -> CallState] /\ call'[k].pc = pc
           /\ \A j \in Calls : j # k => call'[j] = call[j]
           /\ Exclusive' /\ HolderIsCall' /\ AnswersMatch'
<1>1. call[k] \in CallState BY DEF CallsInv, CallsTypeOK
<1>2. pc \in Points BY DEF Inside, Points
<1>3. call' = [call EXCEPT ![k] = [call[k] EXCEPT !.pc = pc]] BY DEF Goes
<1>4. /\ call' \in [Calls -> CallState] /\ call'[k].pc = pc /\ call'[k].text = call[k].text
      /\ \A j \in Calls : j # k => call'[j] = call[j]
  BY <1>1, <1>2, <1>3 DEF CallsInv, CallsTypeOK, CallState
<1>5. \A j \in Calls : call[j].pc \in Inside => j = k BY NoneAssumption DEF CallsInv, Exclusive
<1>6. Exclusive' /\ HolderIsCall' BY <1>4, <1>5 DEF Exclusive, HolderIsCall
<1>7. AnswersMatch' BY <1>4 DEF CallsInv, AnswersMatch
<1>. QED BY <1>4, <1>6, <1>7

\* ... or gives it back, with its own text or none.
LEMMA HolderLeaves ==
    ASSUME CallsInv, NEW k \in Calls, mutex = k, mutex' = None,
           FallsBack(k) \/ Ends(k, k)
    PROVE  /\ call' \in [Calls -> CallState]
           /\ \A j \in Calls : call'[j].pc \notin Inside
           /\ Exclusive' /\ HolderIsCall' /\ AnswersMatch' /\ Owed' = 0
<1>1. call[k] \in CallState /\ call[k].text \in {k, None} BY DEF CallsInv, CallsTypeOK, AnswersMatch
<1>2. PICK s \in CallState : call' = [call EXCEPT ![k] = s] /\ s.pc \notin Inside /\ s.text \in {k, None}
  <2>1. CASE FallsBack(k)
    <3>. DEFINE s == [call[k] EXCEPT !.pc = "cli"]
    <3>1. s \in CallState /\ s.text = call[k].text /\ s.pc = "cli" BY <1>1 DEF CallState, Points
    <3>2. call' = [call EXCEPT ![k] = s] BY <2>1 DEF FallsBack, Goes
    <3>. QED BY <1>1, <3>1, <3>2 DEF Inside
  <2>2. CASE Ends(k, k)
    <3>. DEFINE s == [[call[k] EXCEPT !.pc = "done"] EXCEPT !.text = k]
    <3>1. s \in CallState /\ s.text = k /\ s.pc = "done" BY <1>1 DEF CallState, Points
    <3>2. call' = [call EXCEPT ![k] = s] BY <1>1, <2>2 DEF Ends, CallsInv, CallsTypeOK
    <3>. QED BY <3>1, <3>2 DEF Inside
  <2>. QED BY <2>1, <2>2
<1>3. /\ call' \in [Calls -> CallState] /\ call'[k].pc \notin Inside /\ call'[k].text \in {k, None}
      /\ \A j \in Calls : j # k => call'[j] = call[j]
  BY <1>2 DEF CallsInv, CallsTypeOK
<1>4. \A j \in Calls : call'[j].pc \notin Inside BY <1>3 DEF CallsInv, Exclusive
<1>5. Exclusive' /\ HolderIsCall' BY <1>4, NoneAssumption DEF Exclusive, HolderIsCall
<1>6. AnswersMatch' BY <1>3 DEF CallsInv, AnswersMatch
<1>7. Owed' = 0 BY DEF Owed
<1>. QED BY <1>3, <1>4, <1>5, <1>6, <1>7

LEMMA HolderIs ==
    ASSUME CallsInv, NEW k \in Calls, call[k].pc \in Inside
    PROVE  mutex = k
BY DEF CallsInv, Exclusive

\* Neither has left anything in the pipes.
LEMMA EmptyPipes ==
    /\ <<>> \in Seq(Calls) /\ <<>> \in Seq(Lines)
    /\ Len(<<>>) = 0
OBVIOUS

\* A process that has just started, or none.
LEMMA FreshOK ==
    ASSUME CallsInv, NEW k \in Calls, mutex = k, call[k].pc \in Inside, Starts(k),
           UNCHANGED <<noise, stop>>
    PROVE  CallsInv'
<1>. USE CallBounds, NoneAssumption
<1>1. /\ reqCount' = 0 /\ exit' = "none" /\ Len(stdin') = 0 /\ Len(stdout') = 0
      /\ stdin' \in Seq(Calls) /\ stdout' \in Seq(Lines)
      /\ known' \in BOOLEAN /\ alive' \in BOOLEAN /\ noise' = noise /\ stop' = stop
  <2>1. /\ reqCount' = 0 /\ exit' = "none" /\ stdin' = <<>> /\ stdout' = <<>>
        /\ known' \in BOOLEAN /\ alive' \in BOOLEAN
    BY DEF Starts
  <2>. QED BY <2>1, EmptyPipes
<1>2. CASE Goes(k, "write") /\ UNCHANGED mutex
  <2>1. /\ call' \in [Calls -> CallState] /\ call'[k].pc = "write"
        /\ Exclusive' /\ HolderIsCall' /\ AnswersMatch'
    BY <1>2, HolderMoves DEF Inside
  <2>2. mutex' = k BY <1>2
  <2>3. CallsTypeOK' BY <1>1, <2>1, <2>2 DEF CallsInv, CallsTypeOK
  <2>4. ExitIsSeen' /\ RequestsLeft' BY <1>1 DEF ExitIsSeen, RequestsLeft
  <2>5. Owed' = 0 BY <2>1, <2>2 DEF Owed
  <2>6. PipesAreCounted' BY <1>1, <2>5 DEF CallsInv, CallsTypeOK, PipesAreCounted
  <2>. QED BY <2>1, <2>3, <2>4, <2>6 DEF CallsInv
<1>3. CASE FallsBack(k)
  <2>1. mutex' = None BY <1>3 DEF FallsBack
  <2>2. /\ call' \in [Calls -> CallState] /\ Exclusive' /\ HolderIsCall' /\ AnswersMatch' /\ Owed' = 0
    BY <1>3, <2>1, HolderLeaves
  <2>3. CallsTypeOK' BY <1>1, <2>1, <2>2 DEF CallsInv, CallsTypeOK
  <2>4. ExitIsSeen' /\ RequestsLeft' BY <1>1 DEF ExitIsSeen, RequestsLeft
  <2>5. PipesAreCounted' BY <1>1, <2>2 DEF CallsInv, CallsTypeOK, PipesAreCounted
  <2>. QED BY <2>2, <2>3, <2>4, <2>5 DEF CallsInv
<1>. QED BY <1>2, <1>3 DEF Starts

\* The process is stopped and the call goes to the script.
LEMMA StopsOK ==
    ASSUME CallsInv, NEW k \in Calls, WriteFails(k) \/ ReadError(k) \/ ReadTimeout(k)
    PROVE  CallsInv'
<1>. USE CallBounds, NoneAssumption
<1>1. StopLocked /\ FallsBack(k) /\ UNCHANGED <<noise, stop>> /\ call[k].pc \in Inside
  BY DEF WriteFails, ReadError, ReadTimeout, At, Inside
<1>2. mutex = k /\ mutex' = None BY <1>1, HolderIs DEF FallsBack
<1>3. /\ reqCount' = 0 /\ exit' = "none" /\ Len(stdin') = 0 /\ Len(stdout') = 0
      /\ stdin' \in Seq(Calls) /\ stdout' \in Seq(Lines)
      /\ known' \in BOOLEAN /\ alive' \in BOOLEAN /\ noise' = noise /\ stop' = stop
  <2>1. /\ reqCount' = 0 /\ exit' = "none" /\ stdin' = <<>> /\ stdout' = <<>>
        /\ known' = FALSE /\ alive' = FALSE
    BY <1>1 DEF StopLocked
  <2>. QED BY <1>1, <2>1, EmptyPipes
<1>4. /\ call' \in [Calls -> CallState] /\ Exclusive' /\ HolderIsCall' /\ AnswersMatch' /\ Owed' = 0
  BY <1>1, <1>2, HolderLeaves
<1>5. CallsTypeOK' BY <1>2, <1>3, <1>4 DEF CallsInv, CallsTypeOK
<1>6. ExitIsSeen' /\ RequestsLeft' BY <1>3 DEF ExitIsSeen, RequestsLeft
<1>7. PipesAreCounted' BY <1>3, <1>4 DEF CallsInv, CallsTypeOK, PipesAreCounted
<1>. QED BY <1>4, <1>5, <1>6, <1>7 DEF CallsInv

\* What Owed is when a call is known to hold the mutex, or none does.
LEMMA OwedIs ==
    ASSUME CallsInv, NEW k \in Calls, mutex = k
    PROVE  Owed = IF call[k].pc = "read" THEN 1 ELSE 0
BY NoneAssumption DEF Owed

LEMMA LockOK ==
    ASSUME CallsInv, NEW k \in Calls, Lock(k)
    PROVE  CallsInv'
<1>. USE NoneAssumption
<1>1. mutex = None /\ mutex' = k /\ UNCHANGED <<process, noise, stop>> /\ Goes(k, "start")
  BY DEF Lock
<1>2. /\ call' \in [Calls -> CallState] /\ call'[k].pc = "start"
      /\ \A j \in Calls : j # k => call'[j] = call[j]
      /\ Exclusive' /\ HolderIsCall' /\ AnswersMatch'
  BY <1>1, HolderMoves DEF Inside
<1>3. CallsTypeOK' BY <1>1, <1>2 DEF CallsInv, CallsTypeOK, process
<1>4. ExitIsSeen' BY <1>1 DEF CallsInv, ExitIsSeen, process
<1>5. RequestsLeft' BY <1>1, <1>2 DEF CallsInv, RequestsLeft, process
<1>6. Owed = 0 /\ Owed' = 0 BY <1>1, <1>2 DEF Owed
<1>7. PipesAreCounted' BY <1>1, <1>6 DEF CallsInv, PipesAreCounted, process
<1>. QED BY <1>2, <1>3, <1>4, <1>5, <1>7 DEF CallsInv

\* The two looks of ensureStartedLocked.
LEMMA EnsureOK ==
    ASSUME CallsInv, NEW k \in Calls, EnsureStarted(k)
    PROVE  CallsInv'
<1>. USE NoneAssumption
<1>1. call[k].pc = "start" /\ mutex = k /\ UNCHANGED <<noise, stop>>
  BY HolderIs DEF EnsureStarted, At, Inside
<1>2. CASE known /\ exit # "sent"
  <2>1. Goes(k, "look") /\ UNCHANGED <<process, mutex>> BY <1>2 DEF EnsureStarted
  <2>2. /\ call' \in [Calls -> CallState] /\ call'[k].pc = "look"
        /\ \A j \in Calls : j # k => call'[j] = call[j]
        /\ Exclusive' /\ HolderIsCall' /\ AnswersMatch'
    BY <1>1, <2>1, HolderMoves DEF Inside
  <2>3. CallsTypeOK' BY <1>1, <2>1, <2>2 DEF CallsInv, CallsTypeOK, process
  <2>4. exit # "taken" BY <1>1 DEF CallsInv, ExitIsSeen
  <2>5. ExitIsSeen' BY <2>1, <2>4 DEF CallsInv, ExitIsSeen, process
  <2>6. RequestsLeft' BY <2>1, <2>2 DEF CallsInv, RequestsLeft, process
  <2>7. Owed = 0 /\ Owed' = 0 BY <1>1, <2>1, <2>2 DEF Owed
  <2>8. PipesAreCounted' BY <1>1, <2>1, <2>7 DEF CallsInv, PipesAreCounted, process
  <2>. QED BY <2>2, <2>3, <2>5, <2>6, <2>8 DEF CallsInv
<1>3. CASE ~(known /\ exit # "sent")
  <2>1. Starts(k) BY <1>3 DEF EnsureStarted
  <2>. QED BY <1>1, <2>1, FreshOK DEF Inside
<1>. QED BY <1>2, <1>3

LEMMA RestartOK ==
    ASSUME CallsInv, NEW k \in Calls, ShouldRestart(k)
    PROVE  CallsInv'
<1>. USE NoneAssumption, CallBounds
<1>1. call[k].pc = "look" /\ mutex = k /\ UNCHANGED <<noise, stop>>
  BY HolderIs DEF ShouldRestart, At, Inside
<1>2. CASE exit # "sent" /\ reqCount >= EveryN
  <2>1. Starts(k) BY <1>2 DEF ShouldRestart
  <2>. QED BY <1>1, <2>1, FreshOK DEF Inside
<1>3. CASE exit = "sent" \/ ~(reqCount >= EveryN)
  <2>1. /\ Goes(k, "write") /\ UNCHANGED <<known, reqCount, stdin, stdout, alive, mutex>>
        /\ exit' = IF exit = "sent" THEN "taken" ELSE exit
    BY <1>3 DEF ShouldRestart, process
  <2>2. /\ call' \in [Calls -> CallState] /\ call'[k].pc = "write"
        /\ \A j \in Calls : j # k => call'[j] = call[j]
        /\ Exclusive' /\ HolderIsCall' /\ AnswersMatch'
    BY <1>1, <2>1, HolderMoves DEF Inside
  <2>3. CallsTypeOK' BY <1>1, <2>1, <2>2 DEF CallsInv, CallsTypeOK
  <2>4. ExitIsSeen' BY <1>1, <2>1, <2>2 DEF CallsInv, ExitIsSeen
  <2>5. exit = "sent" => ~alive BY DEF CallsInv, ExitIsSeen
  <2>6. RequestsLeft' BY <1>3, <2>1, <2>2, <2>5 DEF CallsInv, RequestsLeft, CallsTypeOK
  <2>7. Owed = 0 /\ Owed' = 0 BY <1>1, <2>1, <2>2 DEF Owed
  <2>8. PipesAreCounted' BY <1>1, <2>1, <2>7 DEF CallsInv, PipesAreCounted
  <2>. QED BY <2>2, <2>3, <2>4, <2>6, <2>8 DEF CallsInv
<1>. QED BY <1>2, <1>3

LEMMA WriteOK ==
    ASSUME CallsInv, NEW k \in Calls, Write(k)
    PROVE  CallsInv'
<1>. USE NoneAssumption, CallBounds
<1>1. /\ call[k].pc = "write" /\ mutex = k /\ alive
      /\ UNCHANGED <<mutex, known, exit, stdout, alive, noise, stop>>
      /\ Goes(k, "read") /\ reqCount' = reqCount + 1 /\ stdin' = Append(stdin, k)
  BY HolderIs DEF Write, At, Inside
<1>2. /\ call' \in [Calls -> CallState] /\ call'[k].pc = "read"
      /\ \A j \in Calls : j # k => call'[j] = call[j]
      /\ Exclusive' /\ HolderIsCall' /\ AnswersMatch'
  BY <1>1, HolderMoves DEF Inside
<1>3. stdin' \in Seq(Calls) /\ Len(stdin') = Len(stdin) + 1 BY <1>1 DEF CallsInv, CallsTypeOK
<1>4. reqCount < EveryN BY <1>1 DEF CallsInv, RequestsLeft
<1>5. CallsTypeOK' BY <1>1, <1>2, <1>3, <1>4 DEF CallsInv, CallsTypeOK
<1>6. ExitIsSeen' BY <1>1 DEF CallsInv, ExitIsSeen
<1>7. \A j \in Calls : call'[j].pc # "write"
  BY <1>1, <1>2 DEF CallsInv, Exclusive, Inside
<1>8. RequestsLeft' BY <1>7 DEF RequestsLeft
<1>9. Owed = 0 /\ Owed' = 1 BY <1>1, <1>2 DEF Owed
<1>10. PipesAreCounted' BY <1>1, <1>3, <1>9 DEF CallsInv, CallsTypeOK, PipesAreCounted
<1>. QED BY <1>2, <1>5, <1>6, <1>8, <1>10 DEF CallsInv

\* The answer names the call, or the line is an error for it.
LEMMA ReadOK ==
    ASSUME CallsInv, NEW k \in Calls, Read(k)
    PROVE  CallsInv'
<1>. USE NoneAssumption, CallBounds
<1>1. /\ call[k].pc = "read" /\ mutex = k /\ stdout # <<>> /\ stdout' = Tail(stdout)
      /\ UNCHANGED <<known, reqCount, exit, stdin, alive, noise, stop>>
  BY HolderIs DEF Read, At, Inside
<1>2. mutex' = None /\ (FallsBack(k) \/ Ends(k, k))
  BY DEF Read, Answers, FallsBack
<1>3. /\ call' \in [Calls -> CallState] /\ \A j \in Calls : call'[j].pc \notin Inside
      /\ Exclusive' /\ HolderIsCall' /\ AnswersMatch' /\ Owed' = 0
  BY <1>1, <1>2, HolderLeaves
<1>4. stdout' \in Seq(Lines) /\ Len(stdout') = Len(stdout) - 1 BY <1>1 DEF CallsInv, CallsTypeOK
<1>5. CallsTypeOK' BY <1>1, <1>2, <1>3, <1>4 DEF CallsInv, CallsTypeOK
<1>6. exit # "taken" BY <1>1 DEF CallsInv, ExitIsSeen
<1>7. ExitIsSeen' BY <1>1, <1>6 DEF CallsInv, ExitIsSeen
<1>8. RequestsLeft' BY <1>3 DEF RequestsLeft, Inside
<1>9. Owed = 1 BY <1>1 DEF Owed
<1>10. PipesAreCounted' BY <1>1, <1>3, <1>4, <1>9 DEF CallsInv, CallsTypeOK, PipesAreCounted
<1>. QED BY <1>3, <1>5, <1>7, <1>8, <1>10 DEF CallsInv

-----------------------------------------------------------------------------
(* Steps of nobody's call: the shutdown, the process and cmd.Wait. *)

LEMMA NobodysOK ==
    ASSUME CallsInv, UNCHANGED <<call, mutex>>, CallsTypeOK', ExitIsSeen', RequestsLeft', PipesAreCounted'
    PROVE  CallsInv'
BY DEF CallsInv, Exclusive, HolderIsCall, AnswersMatch

LEMMA ShutdownOK ==
    ASSUME CallsInv, StopBegins \/ StopEnds
    PROVE  CallsInv'
<1>. USE CallBounds
<1>1. CASE StopBegins
  <2>1. UNCHANGED <<call, mutex, process, noise>> /\ stop' = "waits" BY <1>1 DEF StopBegins
  <2>. QED BY <2>1, NobodysOK
        DEF CallsInv, CallsTypeOK, ExitIsSeen, RequestsLeft, PipesAreCounted, Owed, process
<1>2. CASE StopEnds
  <2>1. /\ UNCHANGED <<call, mutex, noise>> /\ stop' = "done" /\ mutex = None
        /\ reqCount' = 0 /\ exit' = "none" /\ stdin' = <<>> /\ stdout' = <<>>
        /\ known' = FALSE /\ alive' = FALSE
    BY <1>2 DEF StopEnds, StopLocked
  <2>2. CallsTypeOK'
    <3>1. 0 \in 0 .. EveryN OBVIOUS
    <3>. QED BY <2>1, <3>1, EmptyPipes DEF CallsInv, CallsTypeOK
  <2>3. ExitIsSeen' /\ RequestsLeft' BY <2>1 DEF ExitIsSeen, RequestsLeft
  <2>4. Len(stdin') = 0 /\ Len(stdout') = 0 /\ Owed' = 0 BY <2>1, EmptyPipes DEF Owed
  <2>5. PipesAreCounted' BY <2>1, <2>4 DEF CallsInv, CallsTypeOK, PipesAreCounted
  <2>. QED BY <2>1, <2>2, <2>3, <2>5, NobodysOK
<1>. QED BY <1>1, <1>2

LEMMA PythonOK ==
    ASSUME CallsInv, PythonAnswers \/ PythonPrints \/ PythonDies \/ WaitReturns
    PROVE  CallsInv'
<1>. USE CallBounds
<1>1. UNCHANGED <<call, mutex, known, reqCount, stop>>
  BY DEF PythonAnswers, PythonPrints, PythonDies, WaitReturns
<1>2. Owed' = Owed BY <1>1 DEF Owed
<1>3. Owed \in {0, 1} BY DEF Owed
<1>4. CASE PythonAnswers
  <2>1. PICK ok \in BOOLEAN : stdout' = Append(stdout, [of |-> Head(stdin), ok |-> ok])
    BY <1>4 DEF PythonAnswers
  <2>2. /\ stdin # <<>> /\ stdin' = Tail(stdin) /\ UNCHANGED <<exit, alive, noise>>
    BY <1>4 DEF PythonAnswers
  <2>3. Head(stdin) \in Calls /\ stdin' \in Seq(Calls) /\ Len(stdin') = Len(stdin) - 1
    BY <2>2 DEF CallsInv, CallsTypeOK
  <2>4. [of |-> Head(stdin), ok |-> ok] \in Lines BY <2>3 DEF Lines
  <2>5. stdout' \in Seq(Lines) /\ Len(stdout') = Len(stdout) + 1
    BY <2>1, <2>4 DEF CallsInv, CallsTypeOK
  <2>6. CallsTypeOK' BY <1>1, <2>2, <2>3, <2>5 DEF CallsInv, CallsTypeOK
  <2>7. ExitIsSeen' /\ RequestsLeft' BY <1>1, <2>2 DEF CallsInv, ExitIsSeen, RequestsLeft
  <2>8. PipesAreCounted' BY <1>2, <1>3, <2>2, <2>3, <2>5 DEF CallsInv, CallsTypeOK, PipesAreCounted
  <2>. QED BY <1>1, <2>6, <2>7, <2>8, NobodysOK
<1>5. CASE PythonPrints
  <2>1. /\ noise < MaxNoise /\ stdout' = Append(stdout, Noise) /\ noise' = noise + 1
        /\ UNCHANGED <<exit, stdin, alive>>
    BY <1>5 DEF PythonPrints
  <2>2. Noise \in Lines BY DEF Noise, Lines
  <2>3. stdout' \in Seq(Lines) /\ Len(stdout') = Len(stdout) + 1
    BY <2>1, <2>2 DEF CallsInv, CallsTypeOK
  <2>4. CallsTypeOK' BY <1>1, <2>1, <2>3 DEF CallsInv, CallsTypeOK
  <2>5. ExitIsSeen' /\ RequestsLeft' BY <1>1, <2>1 DEF CallsInv, ExitIsSeen, RequestsLeft
  <2>6. PipesAreCounted' BY <1>2, <1>3, <2>1, <2>3 DEF CallsInv, CallsTypeOK, PipesAreCounted
  <2>. QED BY <1>1, <2>4, <2>5, <2>6, NobodysOK
<1>6. CASE PythonDies
  <2>1. alive' = FALSE /\ UNCHANGED <<exit, stdin, stdout, noise>> BY <1>6 DEF PythonDies
  <2>2. CallsTypeOK' BY <1>1, <2>1 DEF CallsInv, CallsTypeOK
  <2>3. ExitIsSeen' /\ RequestsLeft' BY <1>1, <2>1 DEF CallsInv, ExitIsSeen, RequestsLeft
  <2>4. PipesAreCounted' BY <1>2, <2>1 DEF CallsInv, PipesAreCounted
  <2>. QED BY <1>1, <2>2, <2>3, <2>4, NobodysOK
<1>7. CASE WaitReturns
  <2>1. ~alive /\ exit' = "sent" /\ UNCHANGED <<stdin, stdout, alive, noise>> BY <1>7 DEF WaitReturns
  <2>2. CallsTypeOK' BY <1>1, <2>1 DEF CallsInv, CallsTypeOK
  <2>3. ExitIsSeen' /\ RequestsLeft' BY <1>1, <2>1 DEF CallsInv, ExitIsSeen, RequestsLeft
  <2>4. PipesAreCounted' BY <1>2, <2>1 DEF CallsInv, PipesAreCounted
  <2>. QED BY <1>1, <2>2, <2>3, <2>4, NobodysOK
<1>. QED BY <1>4, <1>5, <1>6, <1>7

LEMMA CallsNextOK == CallsInv /\ [CallsNext]_callsVars => CallsInv'
<1>. SUFFICES ASSUME CallsInv, [CallsNext]_callsVars PROVE CallsInv' OBVIOUS
<1>1. ASSUME NEW k \in Calls, CallBegins(k) \/ CallGoesOn(k) PROVE CallsInv'
  BY <1>1, OutsideOK, LockOK, EnsureOK, RestartOK, WriteOK, StopsOK, ReadOK DEF CallGoesOn
<1>2. CASE UNCHANGED callsVars
  BY <1>2 DEF callsVars, CallsInv, CallsTypeOK, Exclusive, HolderIsCall, ExitIsSeen, RequestsLeft, Owed,
     PipesAreCounted, AnswersMatch
<1>. QED BY <1>1, <1>2, ShutdownOK, PythonOK DEF CallsNext

-----------------------------------------------------------------------------
(* Theorems *)

\* Calls, pipes and counters of OcrCalls keep their types: a process gets no
\* more requests than the restart interval allows.
THEOREM OcrTypeCorrect == CallsSpec => []CallsTypeOK
<1>1. CallsInv => CallsTypeOK BY DEF CallsInv
<1>. QED BY <1>1, CallsInitOK, CallsNextOK, PTL DEF CallsSpec

\* recognizeLocked returns the text of its own image or none, however late or
\* noisy the process is.
THEOREM TextIsItsOwn == CallsSpec => []AnswersMatch
<1>1. CallsInv => AnswersMatch BY DEF CallsInv
<1>. QED BY <1>1, CallsInitOK, CallsNextOK, PTL DEF CallsSpec

\* The exit of a process that is taken between the two looks of
\* ensureStartedLocked is not lost when the mutex is given back.
THEOREM DeadIsReplaced == CallsSpec => []NoZombie
<1>1. CallsInv => NoZombie BY DEF CallsInv, ExitIsSeen, NoZombie
<1>. QED BY <1>1, CallsInitOK, CallsNextOK, PTL DEF CallsSpec

\* No answer is left over for a later call, after any mix of errors, timeouts
\* and restarts.
THEOREM PipesAreClean == CallsSpec => []NothingLeft
<1>1. CallsInv => NothingLeft
  <2>. SUFFICES ASSUME CallsInv, mutex = None
                PROVE  Len(stdin) + Cardinality({i \in DOMAIN stdout : stdout[i].of # None}) <= noise
    BY DEF NothingLeft
  <2>. DEFINE A == {i \in DOMAIN stdout : stdout[i].of # None}
  <2>1. stdin \in Seq(Calls) /\ stdout \in Seq(Lines) /\ noise \in Nat BY CallBounds DEF CallsInv, CallsTypeOK
  <2>2. Len(stdin) \in Nat /\ Len(stdout) \in Nat /\ DOMAIN stdout = 1 .. Len(stdout) BY <2>1
  <2>3. IsFiniteSet(1 .. Len(stdout)) /\ Cardinality(1 .. Len(stdout)) = Len(stdout)
    <3>1. PICK n \in Nat : n = Len(stdout) BY <2>2
    <3>2. 1 \in Int /\ n \in Int OBVIOUS
    <3>3. IsFiniteSet(1 .. n) /\ Cardinality(1 .. n) = IF 1 > n THEN 0 ELSE n - 1 + 1
      BY <3>2, FS_Interval
    <3>4. Cardinality(1 .. n) = n BY <3>3
    <3>. QED BY <3>1, <3>3, <3>4
  <2>4. A \in SUBSET (1 .. Len(stdout)) BY <2>2
  <2>5. IsFiniteSet(A) /\ Cardinality(A) <= Len(stdout) BY <2>3, <2>4, FS_Subset
  <2>6. Cardinality(A) \in Nat BY <2>5, FS_CardinalityType
  <2>7. Len(stdin) + Len(stdout) <= noise BY <2>1, <2>2 DEF CallsInv, PipesAreCounted, Owed
  <2>. HIDE DEF A
  <2>8. Len(stdin) + Cardinality(A) <= noise BY <2>1, <2>2, <2>5, <2>6, <2>7
  <2>. QED BY <2>8 DEF A
<1>. QED BY <1>1, CallsInitOK, CallsNextOK, PTL DEF CallsSpec
=============================================================================
