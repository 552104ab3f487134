---------------------------- MODULE EmailMonitor ----------------------------
(****************************************************************************)
(* The mailbox of one e-mail configuration and the table email_logs that    *)
(* mirrors it (services/email_monitor.go, repository/email.go,              *)
(* handlers/email.go).  A monitor holds an IMAP connection in IDLE and      *)
(* fetches new mail; a manual check opens a connection of its own, and may  *)
(* walk the whole mailbox; other requests clear the log, delete the         *)
(* configuration or switch it off meanwhile.                                *)
(*                                                                          *)
(* What a connection fetches is processed message by message: between two   *)
(* of them everything else may happen, and closing the connection does not  *)
(* stop the goroutine that works on what it already has.  The IMAP server   *)
(* and the client library are external: the server numbers mail in          *)
(* ascending order, any command may fail, and the library has one reader    *)
(* per connection, which hands every update of the mailbox to an unbuffered *)
(* channel before it reads on.                                              *)
(****************************************************************************)
EXTENDS Naturals, FiniteSets, FiniteSetsExt

CONSTANTS
    Monitors,   \* calls of StartMonitoring; one may be made again when it is over
    Checks,     \* calls of ManualCheck
    MaxUid,     \* bound on the mail that arrives
    Limit,      \* messages a "latest" or a "backfill" sync asks for
    MaxAll,     \* safety cap of an "all" sync
    Batch,      \* messages per FETCH of a full sync
    MaxMishaps, \* bound on failures of the network, the server, the database, the process
    Befores,    \* values of the parameter beforeUid
    None        \* no monitor

Conns == Monitors \cup Checks
Uids  == 1 .. MaxUid

ASSUME LimitsAssumption ==
    /\ MaxUid \in Nat \ {0} /\ Limit \in Nat \ {0} /\ MaxAll \in Nat \ {0} /\ Batch \in Nat \ {0}
    /\ MaxMishaps \in Nat /\ 0 \in Befores /\ Befores \subseteq 0 .. MaxUid
ASSUME ConnsAssumption == Monitors \cap Checks = {} /\ None \notin Conns

VARIABLES
    cfg,        \* the row of email_configs exists
    logs,       \* email_logs by message_uid; "deleted" rows are not shown
    active,     \* activeConnections[configID]
    full,       \* configID \in fullSyncRunning
    link,       \* monitors' connections that have not been closed
    pc,         \* the goroutine of each StartMonitoring, the request of each check
    debounce,   \* the goroutine that debounces the updates of a monitor
    blocked,    \* monitors whose reader holds an update that nobody takes
    job,        \* fetchEmails on each connection
    clerk,      \* DELETE of the configuration or of its log between two statements
    mailbox,    \* uids on the server
    uidNext,    \* the next one it gives
    mishaps,    \* how many there have been
    rough       \* history: something happened that may leave mail unlogged

vars == <<cfg, logs, active, full, link, pc, debounce, blocked, job, clerk, mailbox, uidNext, mishaps, rough>>
server == <<mailbox, uidNext>>

Modes == {"new", "latest", "all", "backfill"}
Steps == {"none", "select", "cursor", "baseline", "scope", "rows", "reconcile"}

\* todo: uids asked for and not processed, the newest first if down; seen: the
\* server's uids when the sync began, as long as it may turn out to walk all of
\* them (whole); next: UIDNEXT at that time; before: older mail only, 0 for any.
Job == [step: Steps, mode: Modes, todo: SUBSET Uids, down: BOOLEAN,
        seen: SUBSET Uids, whole: BOOLEAN, next: 0 .. MaxUid + 1, before: 0 .. MaxUid]

NoJob == [step |-> "none", mode |-> "new", todo |-> {}, down |-> FALSE, seen |-> {},
          whole |-> FALSE, next |-> 0, before |-> 0]

TypeOK ==
    /\ cfg \in BOOLEAN
    /\ logs \in [Uids -> {"none", "shown", "deleted"}]
    /\ active \in Monitors \cup {None}
    /\ full \in BOOLEAN
    /\ link \subseteq Monitors
    /\ pc \in [Conns -> {"off", "dialling", "selecting", "fetching", "idling"}]
    /\ debounce \in [Monitors -> {"off", "listening", "fetching"}]
    /\ blocked \subseteq Monitors
    /\ job \in [Conns -> Job]
    /\ clerk \in {"free", "deleting", "clearing"}
    /\ mailbox \subseteq Uids /\ uidNext \in 1 .. MaxUid + 1
    /\ mishaps \in 0 .. MaxMishaps /\ rough \in BOOLEAN

Init ==
    /\ cfg = TRUE /\ logs = [u \in Uids |-> "none"]
    /\ active = None /\ full = FALSE /\ link = {}
    /\ pc = [c \in Conns |-> "off"] /\ debounce = [m \in Monitors |-> "off"]
    /\ blocked = {}
    /\ job = [c \in Conns |-> NoJob]
    /\ clerk = "free"
    /\ uidNext = 2 /\ mailbox = {1}
    /\ mishaps = 0 /\ rough = FALSE

------------------------------------------------------------------------------
(* The table: MAX and MIN of message_uid, one row per uid (unique index).   *)

Logged  == {u \in Uids : logs[u] # "none"}
Shown   == {u \in Uids : logs[u] = "shown"}
LastUid == IF Logged = {} THEN 0 ELSE Max(Logged)
OldestShown == IF Shown = {} THEN 0 ELSE Min(Shown)

\* A row of this uid is inserted, or the one there becomes visible again.
Process(u) == logs' = [logs EXCEPT ![u] = "shown"]

\* Rows of mail the server no longer had.
Reconciled(seen) ==
    [u \in Uids |-> IF logs[u] = "shown" /\ u \notin seen THEN "deleted" ELSE logs[u]]

\* What the end of a check's connection does, FetchFails does.
Open(c) == c \in Checks \cup link

\* The server's answers arrive.
Heard(c) == Open(c) /\ c \notin blocked

\* The job at its next step, nothing in hand; at "none" it is over.  Which
\* full sync it was matters no more.
At(c, step) ==
    [NoJob EXCEPT !.step = step, !.mode = IF job[c].mode = "new" THEN "new" ELSE "all"]

Running(c) == job[c].step # "none"
Midway     == \E c \in Conns : Running(c)

\* The k largest elements of S.
Newest(S, k) == {u \in S : Cardinality({v \in S : v > u}) < k}

Mishap == mishaps < MaxMishaps /\ mishaps' = mishaps + 1

------------------------------------------------------------------------------
(* StartMonitoring, StopMonitoring and the goroutine of a monitor.          *)

\* Closing the registered connection only; its goroutines find out later.
StopMonitoring == active' = None /\ link' = link \ {active}

\* What GetMonitoringStatus answers.
Status == IF active = None THEN "stopped" ELSE "running"

StartBegins(m) ==
    /\ pc[m] = "off" /\ debounce[m] = "off" /\ cfg
    /\ StopMonitoring
    /\ pc' = [pc EXCEPT ![m] = "dialling"]
    /\ UNCHANGED <<cfg, logs, full, debounce, blocked, job, clerk, server, mishaps, rough>>

StartFails(m) ==
    /\ pc[m] = "dialling"
    /\ pc' = [pc EXCEPT ![m] = "off"]
    /\ Mishap
    /\ UNCHANGED <<cfg, logs, active, full, link, debounce, blocked, job, clerk, server, rough>>

StartRegisters(m) ==
    /\ pc[m] = "dialling"
    /\ active' = m
    /\ link' = link \cup {m}
    /\ pc' = [pc EXCEPT ![m] = "selecting"]
    /\ UNCHANGED <<cfg, logs, full, debounce, blocked, job, clerk, server, mishaps, rough>>

SelectFails(m) ==
    /\ pc[m] = "selecting"
    /\ StopMonitoring
    /\ pc' = [pc EXCEPT ![m] = "off"]
    /\ IF m \in link THEN Mishap ELSE mishaps' = mishaps
    /\ UNCHANGED <<cfg, logs, full, debounce, blocked, job, clerk, server, rough>>

MonitorSelects(m) ==
    /\ pc[m] = "selecting" /\ m \in link
    /\ pc' = [pc EXCEPT ![m] = "fetching"]
    /\ job' = [job EXCEPT ![m] = [NoJob EXCEPT !.step = "select"]]
    /\ UNCHANGED <<cfg, logs, active, full, link, debounce, blocked, clerk, server, mishaps, rough>>

\* The first fetch is over: IDLE, and a goroutine that takes the updates.
MonitorIdles(m) ==
    /\ pc[m] = "fetching" /\ ~Running(m)
    /\ pc' = [pc EXCEPT ![m] = "idling"]
    /\ debounce' = [debounce EXCEPT ![m] = "listening"]
    /\ UNCHANGED <<cfg, logs, active, full, link, blocked, job, clerk, server, mishaps, rough>>

\* Mutant: the goroutine ends without deleting its entry.
MonitorEnds_kept(m) ==
    /\ pc[m] = "idling" /\ m \notin blocked
    /\ IF m \in link THEN Mishap ELSE mishaps' = mishaps
    /\ pc' = [pc EXCEPT ![m] = "off"]
    /\ UNCHANGED <<cfg, logs, active, full, link, debounce, blocked, job, clerk, server, rough>>

\* Mutant: it joins the debouncing goroutine before it closes the channel that ends it.
MonitorEnds_joins(m) ==
    /\ pc[m] = "idling" /\ debounce[m] = "off"
    /\ IF m \in link THEN Mishap ELSE mishaps' = mishaps
    /\ pc' = [pc EXCEPT ![m] = "off"]
    /\ active' = None
    /\ UNCHANGED <<cfg, logs, full, link, debounce, blocked, job, clerk, server, rough>>

\* IDLE ends when its reader sees the connection closed, or with an error of
\* the server, which leaves the connection open for good; whatever is
\* registered is forgotten.
MonitorEnds(m) ==
    /\ pc[m] = "idling" /\ m \notin blocked
    /\ IF m \in link THEN Mishap ELSE mishaps' = mishaps
    /\ pc' = [pc EXCEPT ![m] = "off"]
    /\ active' = None
    /\ UNCHANGED <<cfg, logs, full, link, debounce, blocked, job, clerk, server, rough>>

\* Five quiet seconds after an update.
TimerFires(m) ==
    /\ debounce[m] = "listening"
    /\ debounce' = [debounce EXCEPT ![m] = "fetching"]
    /\ job' = [job EXCEPT ![m] = [NoJob EXCEPT !.step = "select"]]
    /\ UNCHANGED <<cfg, logs, active, full, link, pc, blocked, clerk, server, mishaps, rough>>

\* An update arrives while the goroutine that takes them is fetching: what
\* the server says after it, the answer to the fetch or to IDLE, stays unread.
ReaderBlocks(m) ==
    /\ debounce[m] = "fetching"
    /\ blocked' = blocked \cup {m}
    /\ UNCHANGED <<cfg, logs, active, full, link, pc, debounce, job, clerk, server, mishaps, rough>>

\* Back in its select, the goroutine takes the update the reader may hold.
DebounceFetched(m) ==
    /\ debounce[m] = "fetching" /\ ~Running(m)
    /\ debounce' = [debounce EXCEPT ![m] = "listening"]
    /\ blocked' = blocked \ {m}
    /\ UNCHANGED <<cfg, logs, active, full, link, pc, job, clerk, server, mishaps, rough>>

DebounceStops(m) ==
    /\ debounce[m] = "listening" /\ pc[m] = "off"
    /\ debounce' = [debounce EXCEPT ![m] = "off"]
    /\ UNCHANGED <<cfg, logs, active, full, link, pc, blocked, job, clerk, server, mishaps, rough>>

------------------------------------------------------------------------------
(* ManualCheck.                                                             *)

\* One full sync of a configuration at a time, in this process.
TryBeginFullSync == ~full /\ full' = TRUE

CheckBegins(k) ==
    /\ pc[k] = "off" /\ cfg
    /\ \E mode \in Modes, before \in Befores :
         /\ mode = "new" => before = 0
         /\ IF mode = "new" THEN UNCHANGED full ELSE TryBeginFullSync
         /\ job' = [job EXCEPT ![k] =
              [NoJob EXCEPT !.step = "select", !.mode = mode,
                            !.before = IF mode = "backfill" /\ before = 0 THEN OldestShown
                                       ELSE before]]
    /\ pc' = [pc EXCEPT ![k] = "fetching"]
    /\ UNCHANGED <<cfg, logs, active, link, debounce, blocked, clerk, server, mishaps, rough>>

\* The deferred calls run on every way out: logout and endFullSync.
CheckEnds(k) ==
    /\ pc[k] = "fetching" /\ ~Running(k)
    /\ full' = (full /\ job[k].mode = "new")
    /\ pc' = [pc EXCEPT ![k] = "off"]
    /\ job' = [job EXCEPT ![k] = NoJob]
    /\ UNCHANGED <<cfg, logs, active, link, debounce, blocked, clerk, server, mishaps, rough>>

------------------------------------------------------------------------------
(* fetchEmails.                                                             *)

\* The connection was not made or was lost, or the server or the database
\* refused; a FETCH that waits for its answer fails only when its reader says
\* so.  A full sync that breaks off has logged the newest mail first:
\* incremental syncs start above it.
FetchFails(c) ==
    /\ Running(c)
    /\ c \in blocked => job[c].step # "rows"
    /\ job' = [job EXCEPT ![c] = At(c, "none")]
    /\ rough' = (rough \/ (job[c].mode # "new" /\ job[c].step = "rows"))
    /\ IF Open(c) THEN Mishap ELSE mishaps' = mishaps
    /\ UNCHANGED <<cfg, logs, active, full, link, pc, debounce, blocked, clerk, server>>

\* SELECT tells UIDNEXT.
NewSelect(c) ==
    /\ job[c].step = "select" /\ job[c].mode = "new" /\ Heard(c)
    /\ job' = [job EXCEPT ![c].step = "cursor", ![c].next = uidNext]
    /\ UNCHANGED <<cfg, logs, active, full, link, pc, debounce, blocked, clerk, server, mishaps, rough>>

\* Mutant: the range starts one too late.
NewRange_late(c) ==
    /\ job[c].step = "cursor" /\ Heard(c)
    /\ LET range == {u \in mailbox : LastUid + 1 < u /\ u < job[c].next} IN
       job' = [job EXCEPT ![c] =
                 CASE LastUid = 0 -> [@ EXCEPT !.step = "baseline"]
                   [] LastUid > 0 /\ range = {} -> At(c, "none")
                   [] OTHER -> [At(c, "rows") EXCEPT !.todo = range]]
    /\ UNCHANGED <<cfg, logs, active, full, link, pc, debounce, blocked, clerk, server, mishaps, rough>>

\* The cursor is MAX(message_uid), deleted rows included.
NewRange(c) ==
    /\ job[c].step = "cursor"
    /\ LET range == {u \in mailbox : LastUid < u /\ u < job[c].next} IN
       job' = [job EXCEPT ![c] =
                 CASE LastUid = 0 -> [@ EXCEPT !.step = "baseline"]
                   [] LastUid > 0 /\ range = {} -> At(c, "none")
                   [] OTHER -> [At(c, "rows") EXCEPT !.todo = range]]
    /\ LastUid > 0 /\ LastUid + 1 < job[c].next => Heard(c)
    /\ UNCHANGED <<cfg, logs, active, full, link, pc, debounce, blocked, clerk, server, mishaps, rough>>

\* Nothing is logged: a hidden row takes the cursor past the mail that is
\* there.  A row another fetch has put there stays.
NewBaseline(c) ==
    /\ job[c].step = "baseline"
    /\ LET base == job[c].next - 1 IN
         logs' = IF base = 0 \/ logs[base] # "none" THEN logs ELSE [logs EXCEPT ![base] = "deleted"]
    /\ rough' = (rough \/ Logged # {} \/ \E d \in Conns \ {c} : Running(d))
    /\ job' = [job EXCEPT ![c] = At(c, "none")]
    /\ UNCHANGED <<cfg, active, full, link, pc, debounce, blocked, clerk, server, mishaps>>

\* The messages of one FETCH are processed as they come: upwards, or within
\* the newest batch.  One whose row cannot be inserted is passed over, and one
\* that was gone before its FETCH is not sent.  (Those already received when
\* the reader blocks are processed as if before.)
ProcessMessage(c) ==
    /\ job[c].step = "rows" /\ c \notin blocked
    /\ \E u \in IF job[c].down THEN Newest(job[c].todo, Batch) ELSE {Min(job[c].todo)} :
         LET rest == job[c].todo \ {u} IN
         /\ \/ Process(u) /\ UNCHANGED <<mishaps, rough>>
            \/ Mishap /\ logs[u] = "none" /\ UNCHANGED logs /\ rough' = TRUE
            \/ u \notin mailbox /\ UNCHANGED <<logs, mishaps, rough>>
         /\ job' = [job EXCEPT ![c] =
              CASE rest # {} -> [@ EXCEPT !.todo = rest]
                [] rest = {} /\ @.whole -> [@ EXCEPT !.step = "reconcile", !.todo = {}]
                [] OTHER -> At(c, "none")]
    /\ UNCHANGED <<cfg, active, full, link, pc, debounce, blocked, clerk, server>>

\* SEARCH ALL.  An empty mailbox is reconciled at once.
FullSearch(c) ==
    /\ job[c].step = "select" /\ job[c].mode # "new"
    /\ job' = [job EXCEPT ![c] =
         IF mailbox = {} THEN [At(c, "reconcile") EXCEPT !.whole = TRUE, !.next = uidNext]
         ELSE [@ EXCEPT !.step = "scope", !.seen = mailbox, !.whole = TRUE, !.next = uidNext]]
    /\ UNCHANGED <<cfg, logs, active, full, link, pc, debounce, blocked, clerk, server, mishaps, rough>>

\* Of these uids, the ones older than "before", and the newest of them.
WindowOf(mode, before, uids) ==
    LET older == {u \in uids : before > 0 => u < before}
    IN  Newest(older, IF mode = "all" THEN MaxAll ELSE Limit)

\* Mutant: any first page is taken for the whole mailbox.
FullScan_page(c) ==
    /\ job[c].step = "scope"
    /\ LET window == WindowOf(job[c].mode, job[c].before, job[c].seen) IN
         job' = [job EXCEPT ![c] =
                   IF window = {} THEN At(c, "none")
                   ELSE [At(c, "rows") EXCEPT !.todo = window, !.down = TRUE,
                            !.whole = job[c].before = 0, !.seen = window, !.next = job[c].next]]
    /\ rough' = TRUE
    /\ UNCHANGED <<cfg, logs, active, full, link, pc, debounce, blocked, clerk, server, mishaps>>

\* In "latest" mode a second SEARCH asks for the mail of the last two years:
\* what it finds, if anything, is taken instead.  A sync that asks for as many
\* uids as SEARCH ALL gave passes for one of the whole mailbox.
FullScan(c) ==
    /\ job[c].step = "scope"
    /\ \E uids \in {job[c].seen} \cup (IF job[c].mode = "latest" THEN SUBSET mailbox \ {{}} ELSE {}) :
         LET window == WindowOf(job[c].mode, job[c].before, uids)
             whole  == job[c].before = 0 /\ Cardinality(window) = Cardinality(job[c].seen)
         IN
           /\ job' = [job EXCEPT ![c] =
                IF window = {} THEN At(c, "none")
                ELSE [At(c, "rows") EXCEPT !.todo = window, !.down = TRUE, !.whole = whole,
                                           !.seen = IF whole THEN job[c].seen ELSE {},
                                           !.next = IF whole THEN job[c].next ELSE 0]]
           /\ rough' = (rough \/ ~(mailbox \subseteq window))
    /\ UNCHANGED <<cfg, logs, active, full, link, pc, debounce, blocked, clerk, server, mishaps>>

\* SEARCH failed: one FETCH of everything, and no reconciliation.
FullFallback(c) ==
    /\ job[c].step = "select" /\ job[c].mode # "new"
    /\ job' = [job EXCEPT ![c] = IF mailbox = {} THEN At(c, "none")
                                ELSE [At(c, "rows") EXCEPT !.todo = mailbox]]
    /\ UNCHANGED <<cfg, logs, active, full, link, pc, debounce, blocked, clerk, server, mishaps, rough>>

ReconcileDeletedLogs(c) ==
    /\ job[c].step = "reconcile"
    /\ logs' = Reconciled(job[c].seen)
    /\ job' = [job EXCEPT ![c] = At(c, "none")]
    /\ UNCHANGED <<cfg, active, full, link, pc, debounce, blocked, clerk, server, mishaps, rough>>

------------------------------------------------------------------------------
(* The other requests on the configuration.                                 *)

StopRequest ==
    /\ cfg /\ StopMonitoring
    /\ UNCHANGED <<cfg, logs, full, pc, debounce, blocked, job, clerk, server, mishaps, rough>>

DeleteStops ==
    /\ clerk = "free" /\ cfg
    /\ StopMonitoring
    /\ clerk' = "deleting"
    /\ UNCHANGED <<cfg, logs, full, pc, debounce, blocked, job, server, mishaps, rough>>

DeleteCascade ==
    /\ clerk = "deleting"
    /\ cfg' = FALSE
    /\ logs' = [u \in Uids |-> "none"]
    /\ clerk' = "free"
    /\ rough' = (rough \/ Midway)
    /\ UNCHANGED <<active, full, link, pc, debounce, blocked, job, server, mishaps>>

ClearStops ==
    /\ clerk = "free"
    /\ StopMonitoring
    /\ clerk' = IF cfg THEN "clearing" ELSE "free"
    /\ UNCHANGED <<cfg, logs, full, pc, debounce, blocked, job, server, mishaps, rough>>

\* Rows that a fetch under way adds afterwards begin the log anew.
ClearRows ==
    /\ clerk = "clearing"
    /\ logs' = [u \in Uids |-> "none"]
    /\ clerk' = "free"
    /\ rough' = (rough \/ Midway)
    /\ UNCHANGED <<cfg, active, full, link, pc, debounce, blocked, job, server, mishaps>>

\* The process ends and starts again: nothing resumes by itself.
Restart ==
    /\ active' = None /\ full' = FALSE /\ link' = {}
    /\ pc' = [c \in Conns |-> "off"] /\ debounce' = [m \in Monitors |-> "off"]
    /\ blocked' = {}
    /\ job' = [c \in Conns |-> NoJob] /\ clerk' = "free"
    /\ rough' = (rough \/ \E c \in Conns : Running(c) /\ job[c].mode # "new")
    /\ Mishap
    /\ UNCHANGED <<cfg, logs, server>>

------------------------------------------------------------------------------
(* The server and the network.                                              *)

MailArrives ==
    /\ uidNext <= MaxUid
    /\ mailbox' = mailbox \cup {uidNext}
    /\ uidNext' = uidNext + 1
    /\ UNCHANGED <<cfg, logs, active, full, link, pc, debounce, blocked, job, clerk, mishaps, rough>>

MailGoes ==
    /\ \E u \in mailbox : mailbox' = mailbox \ {u}
    /\ Mishap
    /\ UNCHANGED <<cfg, logs, active, full, link, pc, debounce, blocked, job, clerk, uidNext, rough>>

LinkDrops(m) ==
    /\ m \in link
    /\ link' = link \ {m}
    /\ Mishap
    /\ UNCHANGED <<cfg, logs, active, full, pc, debounce, blocked, job, clerk, server, rough>>

MonitorStep(m) ==
    \/ StartBegins(m) \/ StartFails(m) \/ StartRegisters(m)
    \/ SelectFails(m) \/ MonitorSelects(m) \/ MonitorIdles(m) \/ MonitorEnds(m)
    \/ TimerFires(m) \/ ReaderBlocks(m) \/ DebounceFetched(m) \/ DebounceStops(m)

CheckStep(k) == CheckBegins(k) \/ CheckEnds(k)

FetchStep(c) ==
    \/ FetchFails(c) \/ NewSelect(c) \/ NewRange(c) \/ NewBaseline(c) \/ ProcessMessage(c)
    \/ FullSearch(c) \/ FullScan(c) \/ FullFallback(c) \/ ReconcileDeletedLogs(c)

Next ==
    \/ \E m \in Monitors : MonitorStep(m) \/ LinkDrops(m)
    \/ \E k \in Checks : CheckStep(k)
    \/ \E c \in Conns : FetchStep(c)
    \/ StopRequest \/ DeleteStops \/ DeleteCascade \/ ClearStops \/ ClearRows
    \/ Restart \/ MailArrives \/ MailGoes

Spec == Init /\ [][Next]_vars

\* Goroutines run, and every IMAP command on a closed connection fails once
\* its reader sees it closed: nothing is assumed of a connection that is open,
\* nor of one whose reader is blocked.
Unwinds(m) ==
    /\ m \notin link \cup blocked
    /\ \/ SelectFails(m) \/ MonitorIdles(m) \/ MonitorEnds(m)
       \/ pc[m] = "fetching" /\ FetchFails(m)

FairSpec == Spec /\ \A m \in Monitors : WF_vars(Unwinds(m))

------------------------------------------------------------------------------
(* Properties.                                                              *)

\* A monitor that is reported as running has its goroutine: the map never
\* keeps a connection nobody listens to (StartMonitoring registers before the
\* goroutine starts, the goroutine deletes the entry last).
RunningIsServed ==
    Status = "running" => pc[active] \in {"selecting", "fetching", "idling"}

\* Whatever monitors, checks, stops and vanishing mail interleave, the rows
\* leave no gap: mail still on the server between the lowest and the highest
\* row is logged, or a fetch has it in hand.  The causes of a gap the code
\* does have are those that make "rough" true: a full sync that left some of
\* the mail out or broke off, a row whose INSERT failed, a log cleared under a running fetch,
\* a first fetch that sets its baseline beside another one.
NoGap ==
    ~rough /\ Logged # {} =>
        \A u \in mailbox : Min(Logged) <= u /\ u <= LastUid =>
            u \in Logged \/ \E c \in Conns : u \in job[c].todo

\* A row is marked as deleted only if its mail is gone, or is one that came
\* after the full sync had looked: a limited or paged sync hides nothing.
\* (A baseline row is born hidden.)
ReconcileOnlyGone ==
    [][\A u \in mailbox :
         logs[u] = "shown" /\ logs'[u] = "deleted" =>
            \E c \in Conns : job[c].step = "reconcile" /\ u >= job[c].next]_vars

\* An entry whose connection is lost goes by itself, and the status back to
\* "stopped", unless an update reached the connection while its debouncing
\* goroutine was fetching: then nobody reads it any more.
StatusClears ==
    \A m \in Monitors : active = m /\ m \notin link ~> active # m \/ m \in blocked

=============================================================================
