------------------------- MODULE EmailMonitorProofs -------------------------
(* Proofs about EmailMonitor, for any number of monitors, checks and        *)
(* messages, and any limits of the full sync.                               *)
EXTENDS EmailMonitor, FiniteSetTheorems, TLAPS

\* A fetch that runs is waited for, by one goroutine.
Awaited ==
    /\ \A m \in Monitors :
         /\ pc[m] \in {"dialling", "selecting", "fetching"} => debounce[m] = "off"
         /\ Running(m) => pc[m] = "fetching" \/ debounce[m] = "fetching"
    /\ \A k \in Checks : Running(k) => pc[k] = "fetching"

\* What a fetch has in hand at each step.
Handed ==
    \A c \in Conns :
        /\ job[c].step = "rows" <=> job[c].todo # {}
        /\ job[c].step \in {"cursor", "baseline"} => job[c].mode = "new"
        /\ job[c].step = "reconcile" => job[c].whole
        /\ job[c].step = "scope" => job[c].mode # "new" /\ job[c].whole
        /\ job[c].whole => job[c].step \in {"scope", "rows", "reconcile"}
        /\ job[c].down => job[c].mode # "new"

\* Nothing is known of mail the server has not numbered yet.
Numbered ==
    /\ \A u \in mailbox : u < uidNext
    /\ \A u \in Logged : u < uidNext
    /\ \A c \in Conns : job[c].next <= uidNext /\ \A u \in job[c].todo \cup job[c].seen : u < uidNext

\* A sync that walks everything saw what is left of the mail of its time.
SeenIsAll ==
    \A c \in Conns : job[c].whole =>
        \A u \in mailbox : u < job[c].next => u \in job[c].seen

\* Full syncs break off only with "rough": what they have in hand is as good
\* as logged.  An incremental fetch may fail and forget.
InFull(v) == \E c \in Conns : job[c].mode # "new" /\ v \in job[c].todo
Safe(v)   == v \in Logged \/ InFull(v)
FullBusy  == \E c \in Conns : job[c].mode # "new" /\ job[c].step = "rows"
Reached(v) == \E w \in Logged : w <= v

\* Below a row nothing is missed, down to the lowest row, and altogether
\* while a full sync goes down.
BelowRows ==
    \A u \in Logged, v \in mailbox : v <= u /\ (Reached(v) \/ FullBusy) => Safe(v)

\* Nor below a message in hand: an incremental fetch has the rest in hand itself.
BelowHands ==
    \A c \in Conns : \A u \in job[c].todo, v \in mailbox :
        v <= u /\ (Reached(v) \/ job[c].mode # "new") => Safe(v) \/ v \in job[c].todo

\* An incremental fetch works above some row.
AboveRows ==
    \A c \in Conns : job[c].mode = "new" =>
        \A u \in job[c].todo : \E w \in Logged : w < u

Gapless == rough \/ (BelowRows /\ BelowHands /\ AboveRows)

IInv == TypeOK /\ Awaited /\ Handed /\ RunningIsServed /\ Numbered /\ SeenIsAll /\ Gapless

-----------------------------------------------------------------------------
(* The least and the greatest of a set of uids *)

\* The sets 0 .. x for x in S are finite, so one of them has no smaller one.
LEMMA LeastExists ==
    ASSUME NEW N \in Nat, NEW S \in SUBSET (0 .. N), S # {}
    PROVE  \E x \in S : \A y \in S : x <= y
<1>. DEFINE Whole == 0 .. N
            Segments == {0 .. x : x \in S}
<1>1. IsWellFoundedOn(StrictSubsetOrdering(Whole), FiniteSubsetsOf(Whole))
  BY FS_StrictSubsetOrderingWellFounded
<1>2. ASSUME NEW x \in S PROVE (0 .. x) \in FiniteSubsetsOf(Whole)
  <2>1. IsFiniteSet(0 .. x) BY FS_Interval
  <2>. QED BY <2>1 DEF FiniteSubsetsOf
<1>3. Segments \subseteq FiniteSubsetsOf(Whole) /\ Segments # {} BY <1>2
<1>. HIDE DEF Segments
<1>4. \E a \in Segments : \A b \in Segments : <<b, a>> \notin StrictSubsetOrdering(Whole)
  BY <1>1, <1>3, WFMin
<1>. USE DEF Segments
<1>5. PICK x \in S : \A y \in S : <<0 .. y, 0 .. x>> \notin StrictSubsetOrdering(Whole)
  BY <1>4
<1>6. ASSUME NEW y \in S, y < x PROVE FALSE
  <2>1. (0 .. y) \subseteq (0 .. x) /\ (0 .. y) # (0 .. x) BY <1>6
  <2>2. (0 .. y) \in SUBSET Whole /\ (0 .. x) \in SUBSET Whole OBVIOUS
  <2>. QED BY <1>5, <2>1, <2>2 DEF StrictSubsetOrdering
<1>. QED BY <1>6

LEMMA GreatestExists ==
    ASSUME NEW N \in Nat, NEW S \in SUBSET (0 .. N), S # {}
    PROVE  \E x \in S : \A y \in S : x >= y
<1>. DEFINE R == {N - x : x \in S}
<1>1. \A x \in S : x \in 0 .. N /\ N - x \in 0 .. N OBVIOUS
<1>2. R \in SUBSET (0 .. N) /\ R # {} BY <1>1
<1>3. PICK r \in R : \A y \in R : r <= y BY <1>2, LeastExists
<1>4. PICK x \in S : r = N - x BY <1>3
<1>5. ASSUME NEW y \in S PROVE x >= y
  <2>1. r <= N - y BY <1>3
  <2>. QED BY <1>1, <1>4, <2>1
<1>. QED BY <1>5

LEMMA UidsAre == /\ MaxUid \in Nat
                 /\ Uids \subseteq 0 .. MaxUid
                 /\ \A u \in Uids : u \in Nat /\ 1 <= u /\ u <= MaxUid
BY LimitsAssumption DEF Uids

LEMMA MinOfUids ==
    ASSUME NEW S \in SUBSET Uids, S # {}
    PROVE  Min(S) \in S /\ \A u \in S : Min(S) <= u
<1>1. S \in SUBSET (0 .. MaxUid) BY UidsAre
<1>. QED BY <1>1, UidsAre, LeastExists DEF Min

LEMMA MaxOfUids ==
    ASSUME NEW S \in SUBSET Uids, S # {}
    PROVE  Max(S) \in S /\ \A u \in S : u <= Max(S)
<1>1. S \in SUBSET (0 .. MaxUid) BY UidsAre
<1>2. Max(S) \in S /\ \A u \in S : Max(S) >= u BY <1>1, UidsAre, GreatestExists DEF Max
<1>. QED BY <1>1, <1>2

LEMMA LastUidIs ==
    /\ LastUid \in 0 .. MaxUid
    /\ \A u \in Logged : u <= LastUid
    /\ LastUid > 0 => LastUid \in Logged
    /\ LastUid = 0 <=> Logged = {}
<1>1. Logged \in SUBSET Uids BY DEF Logged
<1>2. CASE Logged = {} BY <1>2, UidsAre DEF LastUid
<1>3. CASE Logged # {}
  <2>1. Max(Logged) \in Logged /\ \A u \in Logged : u <= Max(Logged) BY <1>1, <1>3, MaxOfUids
  <2>2. LastUid = Max(Logged) BY <1>3 DEF LastUid
  <2>3. Max(Logged) \in Uids BY <1>1, <2>1
  <2>4. LastUid \in 1 .. MaxUid BY <2>2, <2>3 DEF Uids
  <2>5. LastUid \in 0 .. MaxUid /\ LastUid > 0 BY <2>4, UidsAre
  <2>. QED BY <1>3, <2>1, <2>2, <2>5
<1>. QED BY <1>2, <1>3

LEMMA OldestIs == OldestShown \in 0 .. MaxUid
<1>1. Shown \in SUBSET Uids BY DEF Shown
<1>2. CASE Shown = {} BY <1>2, UidsAre DEF OldestShown
<1>3. CASE Shown # {}
  <2>1. Min(Shown) \in Uids BY <1>1, <1>3, MinOfUids
  <2>. QED BY <1>3, <2>1, UidsAre DEF OldestShown
<1>. QED BY <1>2, <1>3

LEMMA MishapOK ==
    ASSUME TypeOK, Mishap \/ mishaps' = mishaps
    PROVE  mishaps' \in 0 .. MaxMishaps
BY LimitsAssumption DEF TypeOK, Mishap

-----------------------------------------------------------------------------
(* Steps of the goroutines, which leave the log and the fetches alone *)

LEMMA InitOK == Init => IInv
<1>. SUFFICES ASSUME Init PROVE IInv OBVIOUS
<1>1. Logged = {} BY DEF Init, Logged
<1>2. \A c \in Conns : job[c] = NoJob BY DEF Init
<1>3. NoJob \in Job BY LimitsAssumption, UidsAre DEF NoJob, Job, Steps, Modes
<1>4. TypeOK
  <2>1. {1} \subseteq Uids /\ 2 \in 1 .. MaxUid + 1 /\ 0 \in 0 .. MaxMishaps
    BY LimitsAssumption DEF Uids
  <2>2. job \in [Conns -> Job] BY <1>3 DEF Init
  <2>. QED BY <2>1, <2>2 DEF Init, TypeOK
<1>5. Awaited /\ Handed BY <1>2 DEF Init, Awaited, Handed, Running, NoJob, Conns
<1>6. RunningIsServed BY DEF Init, RunningIsServed, Status
<1>7. Numbered /\ SeenIsAll BY <1>1, <1>2 DEF Init, Numbered, SeenIsAll, NoJob
<1>8. Gapless BY <1>1, <1>2 DEF Gapless, BelowRows, BelowHands, AboveRows, NoJob
<1>. QED BY <1>4, <1>5, <1>6, <1>7, <1>8 DEF IInv

Aside == UNCHANGED <<logs, job, server, rough>>

LEMMA AsideOK ==
    ASSUME Aside, Handed, Numbered, SeenIsAll, Gapless
    PROVE  Handed' /\ Numbered' /\ SeenIsAll' /\ Gapless'
<1>. USE DEF Aside, server
<1>1. Numbered' /\ Handed' BY DEF Numbered, Logged, Handed
<1>2. SeenIsAll' BY DEF SeenIsAll
<1>3. BelowRows => BelowRows' BY DEF BelowRows, Reached, FullBusy, Safe, InFull, Logged
<1>4. BelowHands => BelowHands' BY DEF BelowHands, Reached, Safe, InFull, Logged
<1>5. AboveRows => AboveRows' BY DEF AboveRows, Logged
<1>. QED BY <1>1, <1>2, <1>3, <1>4, <1>5 DEF Gapless

LEMMA GoroutineOK ==
    ASSUME IInv,
           \/ \E m \in Monitors :
                \/ StartBegins(m) \/ StartFails(m) \/ StartRegisters(m) \/ SelectFails(m)
                \/ MonitorIdles(m) \/ MonitorEnds(m) \/ ReaderBlocks(m) \/ DebounceFetched(m)
                \/ DebounceStops(m) \/ LinkDrops(m)
           \/ StopRequest \/ DeleteStops \/ ClearStops \/ UNCHANGED vars
    PROVE  IInv'
<1>. USE ConnsAssumption DEF Conns
<1>1. TypeOK /\ Awaited /\ Handed /\ RunningIsServed /\ Numbered /\ SeenIsAll /\ Gapless BY DEF IInv
<1>2. Aside
  BY DEF Aside, StartBegins, StartFails, StartRegisters, SelectFails, MonitorIdles, MonitorEnds,
     ReaderBlocks, DebounceFetched, DebounceStops, LinkDrops, StopRequest, DeleteStops, ClearStops, vars, server
<1>3. CASE \E m \in Monitors : StartBegins(m) \/ StartFails(m) \/ StartRegisters(m) \/ SelectFails(m)
  <2>1. PICK m \in Monitors : StartBegins(m) \/ StartFails(m) \/ StartRegisters(m) \/ SelectFails(m)
    BY <1>3
  <2>2. TypeOK'
    <3>1. mishaps' \in 0 .. MaxMishaps
      BY <1>1, <2>1, MishapOK DEF StartBegins, StartFails, StartRegisters, SelectFails
    <3>2. pc' \in [Conns -> {"off", "dialling", "selecting", "fetching", "idling"}]
      BY <1>1, <2>1 DEF TypeOK, StartBegins, StartFails, StartRegisters, SelectFails
    <3>3. /\ active' \in Monitors \cup {None} /\ link' \subseteq Monitors
          /\ UNCHANGED <<cfg, full, debounce, blocked, clerk>>
      BY <1>1, <2>1 DEF TypeOK, StartBegins, StartFails, StartRegisters, SelectFails, StopMonitoring
    <3>. QED BY <1>1, <1>2, <3>1, <3>2, <3>3 DEF TypeOK, Aside, server
  <2>3. Awaited'
    <3>1. job' = job /\ debounce' = debounce
      BY <2>1 DEF StartBegins, StartFails, StartRegisters, SelectFails
    <3>2. /\ pc \in [Conns -> {"off", "dialling", "selecting", "fetching", "idling"}]
          /\ \E x \in {"dialling", "selecting", "off"} : pc' = [pc EXCEPT ![m] = x]
          /\ debounce[m] = "off" /\ pc[m] # "fetching"
      BY <1>1, <2>1 DEF TypeOK, Awaited, StartBegins, StartFails, StartRegisters, SelectFails
    <3>. QED BY <1>1, <3>1, <3>2 DEF Awaited, Running
  <2>4. RunningIsServed'
    BY <1>1, <2>1 DEF TypeOK, RunningIsServed, Status, StartBegins, StartFails, StartRegisters,
       SelectFails, StopMonitoring
  <2>. QED BY <1>1, <1>2, <2>2, <2>3, <2>4, AsideOK DEF IInv
<1>4. CASE \E m \in Monitors : MonitorIdles(m) \/ MonitorEnds(m) \/ ReaderBlocks(m)
                                 \/ DebounceFetched(m) \/ DebounceStops(m) \/ LinkDrops(m)
  <2>1. PICK m \in Monitors : MonitorIdles(m) \/ MonitorEnds(m) \/ ReaderBlocks(m)
                                 \/ DebounceFetched(m) \/ DebounceStops(m) \/ LinkDrops(m)
    BY <1>4
  <2>2. TypeOK'
    <3>1. mishaps' \in 0 .. MaxMishaps
      BY <1>1, <2>1, MishapOK DEF MonitorIdles, MonitorEnds, ReaderBlocks, DebounceFetched, DebounceStops, LinkDrops
    <3>2. pc' \in [Conns -> {"off", "dialling", "selecting", "fetching", "idling"}]
      BY <1>1, <2>1 DEF TypeOK, MonitorIdles, MonitorEnds, ReaderBlocks, DebounceFetched, DebounceStops, LinkDrops
    <3>3. debounce' \in [Monitors -> {"off", "listening", "fetching"}]
      BY <1>1, <2>1 DEF TypeOK, MonitorIdles, MonitorEnds, ReaderBlocks, DebounceFetched, DebounceStops, LinkDrops
    <3>4. /\ active' \in Monitors \cup {None} /\ link' \subseteq Monitors
          /\ UNCHANGED <<cfg, full, clerk>> /\ blocked' \subseteq Monitors
      BY <1>1, <2>1 DEF TypeOK, MonitorIdles, MonitorEnds, ReaderBlocks, DebounceFetched, DebounceStops, LinkDrops
    <3>. QED BY <1>1, <1>2, <3>1, <3>2, <3>3, <3>4 DEF TypeOK, Aside, server
  <2>3. Awaited'
    <3>1. CASE MonitorIdles(m)
      BY <1>1, <3>1 DEF TypeOK, Awaited, Running, MonitorIdles
    <3>2. CASE MonitorEnds(m)
      BY <1>1, <3>2 DEF TypeOK, Awaited, Running, MonitorEnds
    <3>3. CASE DebounceFetched(m) \/ DebounceStops(m)
      BY <1>1, <3>3 DEF TypeOK, Awaited, Running, DebounceFetched, DebounceStops
    <3>4. CASE ReaderBlocks(m) \/ LinkDrops(m)
      BY <1>1, <3>4 DEF Awaited, Running, ReaderBlocks, LinkDrops
    <3>. QED BY <2>1, <3>1, <3>2, <3>3, <3>4
  <2>4. RunningIsServed'
    BY <1>1, <2>1 DEF TypeOK, RunningIsServed, Status, MonitorIdles, MonitorEnds, ReaderBlocks, DebounceFetched,
       DebounceStops, LinkDrops
  <2>. QED BY <1>1, <1>2, <2>2, <2>3, <2>4, AsideOK DEF IInv
<1>5. CASE StopRequest \/ DeleteStops \/ ClearStops \/ UNCHANGED vars
  <2>2. TypeOK'
    BY <1>1, <1>5 DEF TypeOK, StopRequest, DeleteStops, ClearStops, StopMonitoring, vars, server
  <2>3. Awaited'
    BY <1>1, <1>5 DEF Awaited, Running, StopRequest, DeleteStops, ClearStops, vars
  <2>4. RunningIsServed'
    BY <1>1, <1>5 DEF RunningIsServed, Status, StopRequest, DeleteStops, ClearStops, StopMonitoring, vars
  <2>. QED BY <1>1, <1>2, <2>2, <2>3, <2>4, AsideOK DEF IInv
<1>. QED BY <1>3, <1>4, <1>5
-----------------------------------------------------------------------------
(* Steps of one fetch that leave the log alone *)

LEMMA JobFields ==
    ASSUME TypeOK, NEW c \in Conns
    PROVE  /\ job[c] \in Job /\ job[c].step \in Steps /\ job[c].mode \in Modes
           /\ job[c].todo \subseteq Uids /\ job[c].seen \subseteq Uids
           /\ job[c].next \in Nat /\ job[c].next <= MaxUid + 1
           /\ mailbox \subseteq Uids /\ uidNext \in Nat
BY LimitsAssumption DEF TypeOK, Job

LEMMA UidNextIs == TypeOK => uidNext \in Nat /\ 0 <= uidNext
BY LimitsAssumption DEF TypeOK

LEMMA NoJobIs ==
    /\ NoJob \in Job
    /\ NoJob.step = "none" /\ NoJob.mode = "new" /\ NoJob.todo = {} /\ NoJob.whole = FALSE
    /\ NoJob.next = 0 /\ NoJob.down = FALSE /\ NoJob.seen = {}
BY LimitsAssumption DEF NoJob, Job, Steps, Modes

LEMMA AtIs ==
    ASSUME TypeOK, NEW c \in Conns, NEW step \in Steps
    PROVE  /\ At(c, step) \in Job
           /\ At(c, step).step = step
           /\ At(c, step).mode = "new" <=> job[c].mode = "new"
           /\ At(c, step).todo = {} /\ At(c, step).next = 0 /\ At(c, step).whole = FALSE
           /\ At(c, step).down = FALSE /\ At(c, step).seen = {}
<1>1. /\ NoJob.todo = {} /\ NoJob.next = 0 /\ NoJob.whole = FALSE /\ NoJob.down = FALSE
      /\ NoJob.seen = {}
      /\ NoJob \in Job
      /\ job[c].mode \in Modes
  BY NoJobIs, JobFields
<1>. HIDE DEF NoJob
<1>. QED BY <1>1 DEF At, Job, Modes

LEMMA JobsTyped ==
    ASSUME TypeOK, NEW c \in Conns, NEW q \in Job, job' = [job EXCEPT ![c] = q]
    PROVE  job' \in [Conns -> Job] /\ job'[c] = q /\ \A d \in Conns \ {c} : job'[d] = job[d]
BY DEF TypeOK

\* A fetch that has nothing in hand.
Idle(q) ==
    /\ q.todo = {} /\ q.step \notin {"scope", "rows", "reconcile"} /\ ~q.whole /\ q.next <= uidNext
    /\ \A u \in q.seen : u < uidNext
    /\ q.step \in {"cursor", "baseline"} => q.mode = "new"
    /\ q.down => q.mode # "new"

\* What a fetch gives up without a trace was nothing, or may be fetched again.
LEMMA GaplessEmptied ==
    ASSUME TypeOK, Gapless, NEW c \in Conns, NEW q \in Job, job' = [job EXCEPT ![c] = q],
           Logged' = Logged, mailbox' = mailbox, rough => rough', q.todo = {}, q.step # "rows",
           rough' \/ job[c].todo = {} \/ job[c].mode = "new"
    PROVE  Gapless'
<1>. SUFFICES ASSUME ~rough' PROVE (BelowRows /\ BelowHands /\ AboveRows)'
  BY DEF Gapless
<1>1. job'[c] = q /\ \A d \in Conns \ {c} : job'[d] = job[d] BY JobsTyped
<1>2. BelowRows /\ BelowHands /\ AboveRows BY DEF Gapless
<1>3. \A v : InFull(v) => InFull(v)' BY <1>1 DEF InFull
<1>4. FullBusy' => FullBusy BY <1>1 DEF FullBusy
<1>5. BelowRows' BY <1>2, <1>3, <1>4 DEF BelowRows, Reached, Safe
<1>6. BelowHands'
  <2>. SUFFICES ASSUME NEW d \in Conns, NEW u \in job'[d].todo, NEW v \in mailbox', v <= u,
                       Reached(v)' \/ job'[d].mode # "new"
                PROVE  Safe(v)' \/ v \in job'[d].todo
    BY DEF BelowHands
  <2>1. d # c /\ job'[d] = job[d] BY <1>1
  <2>2. Safe(v) \/ v \in job[d].todo BY <1>2, <2>1 DEF BelowHands, Reached
  <2>. QED BY <1>3, <2>1, <2>2 DEF Safe
<1>7. AboveRows' BY <1>1, <1>2 DEF AboveRows
<1>. QED BY <1>5, <1>6, <1>7

LEMMA Untouched ==
    ASSUME UNCHANGED <<logs, server>>
    PROVE  Logged' = Logged /\ mailbox' = mailbox /\ uidNext' = uidNext
BY DEF Logged, server

\* A fetch begins, goes on to look, or ends with nothing left in hand.
LEMMA EmptyHanded ==
    ASSUME TypeOK, Handed, Numbered, SeenIsAll, Gapless,
           NEW c \in Conns, NEW q \in Job, job' = [job EXCEPT ![c] = q],
           Logged' = Logged, mailbox' = mailbox, uidNext' = uidNext, rough => rough', Idle(q),
           rough' \/ job[c].todo = {} \/ job[c].mode = "new"
    PROVE  Handed' /\ Numbered' /\ SeenIsAll' /\ Gapless'
<1>. USE DEF Idle
<1>1. job'[c] = q /\ \A d \in Conns \ {c} : job'[d] = job[d] BY JobsTyped
<1>2. Handed' BY <1>1 DEF Handed
<1>3. Numbered' BY <1>1 DEF Numbered
<1>4. SeenIsAll' BY <1>1 DEF SeenIsAll
<1>. QED BY <1>2, <1>3, <1>4, GaplessEmptied

\* A fetch takes mail in hand.
LEMMA FullHanded ==
    ASSUME TypeOK, Handed, Numbered, SeenIsAll,
           NEW c \in Conns, NEW q \in Job, job' = [job EXCEPT ![c] = q],
           UNCHANGED <<logs, server>>,
           q.step = "rows", q.todo # {}, q.next <= uidNext,
           \A u \in q.todo \cup q.seen : u < uidNext,
           q.whole => \A u \in mailbox : u < q.next => u \in q.seen,
           q.down => q.mode # "new"
    PROVE  Handed' /\ Numbered' /\ SeenIsAll'
<1>1. job'[c] = q /\ \A d \in Conns \ {c} : job'[d] = job[d] BY JobsTyped
<1>2. Handed' BY <1>1 DEF Handed
<1>3. Numbered' BY <1>1 DEF Numbered, Logged, server
<1>4. SeenIsAll' BY <1>1 DEF SeenIsAll, server
<1>. QED BY <1>2, <1>3, <1>4

\* What a step of a fetch does to the variables it may write besides.
LEMMA FetchFrame ==
    ASSUME IInv, NEW c \in Conns, NEW q \in Job, job' = [job EXCEPT ![c] = q],
           UNCHANGED <<cfg, active, full, link, pc, debounce, blocked, clerk, server>>,
           logs' \in [Uids -> {"none", "shown", "deleted"}],
           mishaps' \in 0 .. MaxMishaps, rough' \in BOOLEAN,
           Running(c)
    PROVE  TypeOK' /\ Awaited' /\ RunningIsServed'
<1>1. TypeOK /\ Awaited /\ RunningIsServed BY DEF IInv
<1>2. job' \in [Conns -> Job] /\ \A d \in Conns \ {c} : job'[d] = job[d] BY <1>1, JobsTyped
<1>3. TypeOK' BY <1>1, <1>2 DEF TypeOK, server
<1>4. \A d \in Conns : Running(d)' => Running(d) BY <1>2 DEF Running
<1>5. Awaited' BY <1>1, <1>4 DEF Awaited, Conns
<1>6. RunningIsServed' BY <1>1 DEF RunningIsServed, Status
<1>. QED BY <1>3, <1>5, <1>6

LEMMA SelectOK ==
    ASSUME IInv, NEW m \in Monitors, MonitorSelects(m) \/ TimerFires(m)
    PROVE  IInv'
<1>. DEFINE q == [NoJob EXCEPT !.step = "select"]
<1>. USE ConnsAssumption DEF Conns
<1>1. TypeOK /\ Awaited /\ Handed /\ RunningIsServed /\ Numbered /\ SeenIsAll /\ Gapless BY DEF IInv
<1>2. q \in Job /\ Idle(q) BY <1>1, NoJobIs, UidNextIs DEF Job, Steps, Idle
<1>3. /\ job' = [job EXCEPT ![m] = q]
      /\ UNCHANGED <<cfg, logs, active, full, link, blocked, clerk, server, mishaps, rough>>
  BY DEF MonitorSelects, TimerFires
<1>. HIDE DEF q
<1>4. pc[m] # "fetching" /\ debounce[m] # "fetching"
  BY <1>1 DEF Awaited, MonitorSelects, TimerFires
<1>5. ~Running(m) /\ job[m].todo = {} BY <1>1, <1>4 DEF Awaited, Handed, Running
<1>6. job' \in [Conns -> Job] /\ \A d \in Conns \ {m} : job'[d] = job[d] BY <1>1, <1>2, <1>3, JobsTyped
<1>7. Handed' /\ Numbered' /\ SeenIsAll' /\ Gapless'
  BY <1>1, <1>2, <1>3, <1>5, Untouched, EmptyHanded
<1>8. CASE MonitorSelects(m)
  <2>1. pc' = [pc EXCEPT ![m] = "fetching"] /\ debounce' = debounce /\ debounce[m] = "off"
    BY <1>1, <1>8 DEF MonitorSelects, Awaited
  <2>2. TypeOK' BY <1>1, <1>3, <1>6, <2>1 DEF TypeOK, server
  <2>3. Awaited' BY <1>1, <1>6, <2>1 DEF Awaited, Running, TypeOK
  <2>4. RunningIsServed' BY <1>1, <1>3, <2>1 DEF RunningIsServed, Status, TypeOK
  <2>. QED BY <1>7, <2>2, <2>3, <2>4 DEF IInv
<1>9. CASE TimerFires(m)
  <2>1. debounce' = [debounce EXCEPT ![m] = "fetching"] /\ pc' = pc /\ debounce[m] = "listening"
    BY <1>9 DEF TimerFires
  <2>2. TypeOK' BY <1>1, <1>3, <1>6, <2>1 DEF TypeOK, server
  <2>3. Awaited' BY <1>1, <1>6, <2>1 DEF Awaited, Running, TypeOK
  <2>4. RunningIsServed' BY <1>1, <1>3, <2>1 DEF RunningIsServed, Status
  <2>. QED BY <1>7, <2>2, <2>3, <2>4 DEF IInv
<1>. QED BY <1>8, <1>9

LEMMA CheckOK ==
    ASSUME IInv, NEW k \in Checks, CheckStep(k)
    PROVE  IInv'
<1>. USE ConnsAssumption DEF Conns
<1>1. TypeOK /\ Awaited /\ Handed /\ RunningIsServed /\ Numbered /\ SeenIsAll /\ Gapless BY DEF IInv
<1>2. /\ UNCHANGED <<cfg, logs, active, link, debounce, blocked, clerk, server, mishaps, rough>>
      /\ full' \in BOOLEAN
      /\ pc' = [pc EXCEPT ![k] = "fetching"] \/ (CheckEnds(k) /\ pc' = [pc EXCEPT ![k] = "off"])
  BY <1>1 DEF CheckStep, CheckBegins, CheckEnds, TryBeginFullSync, TypeOK
<1>3. ~Running(k) /\ job[k].todo = {}
  BY <1>1 DEF CheckStep, CheckBegins, CheckEnds, Awaited, Handed, Running
<1>4. PICK q \in Job : /\ job' = [job EXCEPT ![k] = q]
                       /\ CheckEnds(k) => q.step = "none"
                       /\ Idle(q)
  <2>1. CASE CheckBegins(k)
    <3>1. PICK mode \in Modes, before \in Befores :
            job' = [job EXCEPT ![k] =
              [NoJob EXCEPT !.step = "select", !.mode = mode,
                            !.before = IF mode = "backfill" /\ before = 0 THEN OldestShown
                                       ELSE before]]
      BY <2>1 DEF CheckBegins
    <3>2. before \in 0 .. MaxUid /\ OldestShown \in 0 .. MaxUid BY LimitsAssumption, OldestIs
    <3>3. [NoJob EXCEPT !.step = "select", !.mode = mode,
                        !.before = IF mode = "backfill" /\ before = 0 THEN OldestShown
                                   ELSE before] \in Job
      BY <3>2, NoJobIs DEF Job, Steps
    <3>4. ~CheckEnds(k) BY <1>1, <2>1 DEF CheckBegins, CheckEnds
    <3>. QED BY <1>1, <3>1, <3>3, <3>4, NoJobIs, UidNextIs DEF Job, Idle
  <2>2. CASE CheckEnds(k)
    <3>1. job' = [job EXCEPT ![k] = NoJob] BY <2>2 DEF CheckEnds
    <3>. QED BY <1>1, <3>1, NoJobIs, UidNextIs DEF Idle
  <2>. QED BY <2>1, <2>2 DEF CheckStep
<1>5. job' \in [Conns -> Job] /\ job'[k] = q /\ \A d \in Conns \ {k} : job'[d] = job[d]
  BY <1>1, <1>4, JobsTyped
<1>6. Handed' /\ Numbered' /\ SeenIsAll' /\ Gapless'
  BY <1>1, <1>2, <1>3, <1>4, Untouched, EmptyHanded
<1>7. TypeOK' BY <1>1, <1>2, <1>5 DEF TypeOK, server
<1>8. Awaited' BY <1>1, <1>2, <1>4, <1>5 DEF Awaited, Running, TypeOK
<1>9. RunningIsServed' BY <1>1, <1>2 DEF RunningIsServed, Status, TypeOK
<1>. QED BY <1>6, <1>7, <1>8, <1>9 DEF IInv

LEMMA LookOK ==
    ASSUME IInv, NEW c \in Conns, FetchFails(c) \/ NewSelect(c)
    PROVE  IInv'
<1>1. TypeOK /\ Handed /\ Numbered /\ SeenIsAll /\ Gapless BY DEF IInv
<1>2. /\ Running(c) /\ mishaps' \in 0 .. MaxMishaps /\ rough' \in BOOLEAN
      /\ rough => rough'
      /\ UNCHANGED <<cfg, logs, active, full, link, pc, debounce, blocked, clerk, server>>
  BY <1>1, MishapOK DEF FetchFails, NewSelect, Running, TypeOK
<1>3. PICK q \in Job : /\ job' = [job EXCEPT ![c] = q]
                       /\ Idle(q)
                       /\ rough' \/ job[c].todo = {} \/ job[c].mode = "new"
  <2>1. CASE FetchFails(c)
    <3>1. job' = [job EXCEPT ![c] = At(c, "none")] BY <2>1 DEF FetchFails
    <3>2. rough' \/ job[c].mode = "new" \/ job[c].step # "rows" BY <2>1 DEF FetchFails
    <3>3. At(c, "none") \in Job /\ Idle(At(c, "none"))
      BY <1>1, AtIs, UidNextIs DEF Idle, Steps
    <3>. QED BY <1>1, <3>1, <3>2, <3>3 DEF Handed
  <2>2. CASE NewSelect(c)
    <3>. DEFINE q == [job[c] EXCEPT !.step = "cursor", !.next = uidNext]
    <3>1. job[c].step = "select" /\ job[c].mode = "new" BY <2>2 DEF NewSelect
    <3>2. job[c].todo = {} /\ ~job[c].whole /\ ~job[c].down BY <1>1, <3>1 DEF Handed
    <3>3. uidNext \in 0 .. MaxUid + 1 BY <1>1, LimitsAssumption DEF TypeOK
    <3>4. job[c] \in Job BY <1>1, JobFields
    <3>5. q \in Job /\ q.step = "cursor" /\ q.next = uidNext /\ q.mode = job[c].mode
             /\ q.todo = job[c].todo /\ q.whole = job[c].whole /\ q.down = job[c].down
             /\ q.seen = job[c].seen
      BY <3>3, <3>4 DEF Job, Steps
    <3>6. job' = [job EXCEPT ![c] = q] BY <1>1, <2>2 DEF NewSelect, TypeOK
    <3>. HIDE DEF q
    <3>7. q.next <= uidNext BY <3>3, <3>5, LimitsAssumption
    <3>8. Idle(q) BY <1>1, <3>1, <3>2, <3>5, <3>7 DEF Idle, Numbered
    <3>. QED BY <3>2, <3>5, <3>6, <3>8
  <2>. QED BY <2>1, <2>2
<1>4. logs' = logs /\ logs' \in [Uids -> {"none", "shown", "deleted"}]
      /\ UNCHANGED <<logs, server>>
  BY <1>1, <1>2 DEF TypeOK
<1>5. TypeOK' /\ Awaited' /\ RunningIsServed' BY <1>2, <1>3, <1>4, FetchFrame
<1>6. Handed' /\ Numbered' /\ SeenIsAll' /\ Gapless' BY <1>1, <1>2, <1>3, <1>4, Untouched, EmptyHanded
<1>. QED BY <1>5, <1>6 DEF IInv
\* Everything above the highest row, the rows looked up when it begins.
LEMMA RangeOK ==
    ASSUME IInv, NEW c \in Conns, NewRange(c)
    PROVE  IInv'
<1>. DEFINE range == {u \in mailbox : LastUid < u /\ u < job[c].next}
<1>1. TypeOK /\ Handed /\ Numbered /\ SeenIsAll /\ Gapless BY DEF IInv
<1>2. /\ job[c].step = "cursor" /\ job[c].mode = "new" /\ job[c].todo = {} /\ ~job[c].whole
      /\ ~job[c].down /\ Running(c)
  BY <1>1 DEF NewRange, Handed, Running
<1>3. UNCHANGED <<cfg, logs, active, full, link, pc, debounce, blocked, clerk, server, mishaps, rough>>
  BY DEF NewRange
<1>4. logs' \in [Uids -> {"none", "shown", "deleted"}] /\ UNCHANGED <<logs, server>>
      /\ mishaps' \in 0 .. MaxMishaps /\ rough' \in BOOLEAN /\ rough' = rough
  BY <1>1, <1>3 DEF TypeOK
<1>5. LastUid > 0 <=> LastUid # 0 BY LastUidIs, UidsAre
<1>6. CASE \E q \in Job : job' = [job EXCEPT ![c] = q] /\ Idle(q)
  <2>1. PICK q \in Job : job' = [job EXCEPT ![c] = q] /\ Idle(q) BY <1>6
  <2>2. TypeOK' /\ Awaited' /\ RunningIsServed' BY <1>2, <1>3, <1>4, <2>1, FetchFrame
  <2>3. Handed' /\ Numbered' /\ SeenIsAll' /\ Gapless'
    BY <1>1, <1>2, <1>4, <2>1, Untouched, EmptyHanded
  <2>. QED BY <2>2, <2>3 DEF IInv
<1>7. CASE LastUid = 0
  <2>. DEFINE q == [job[c] EXCEPT !.step = "baseline"]
  <2>1. job' = [job EXCEPT ![c] = q] BY <1>7 DEF NewRange
  <2>2. job[c] \in Job /\ job[c].next <= uidNext /\ \A u \in job[c].seen : u < uidNext
    BY <1>1, JobFields DEF Numbered
  <2>3. q \in Job BY <2>2 DEF Job, Steps
  <2>4. Idle(q) BY <1>2, <2>2 DEF Idle, Job
  <2>. QED BY <1>6, <2>1, <2>3, <2>4
<1>8. CASE LastUid > 0 /\ range = {}
  <2>1. job' = [job EXCEPT ![c] = At(c, "none")] BY <1>8, <1>5 DEF NewRange
  <2>2. At(c, "none") \in Job /\ Idle(At(c, "none")) BY <1>1, AtIs, UidNextIs DEF Idle, Steps
  <2>. QED BY <1>6, <2>1, <2>2
<1>9. CASE LastUid > 0 /\ range # {}
  <2>. DEFINE q == [At(c, "rows") EXCEPT !.todo = range]
  <2>1. job' = [job EXCEPT ![c] = q] BY <1>9, <1>5 DEF NewRange
  <2>2. At(c, "rows") \in Job /\ At(c, "rows").step = "rows" /\ At(c, "rows").mode = "new"
        /\ At(c, "rows").next = 0 /\ At(c, "rows").whole = FALSE /\ At(c, "rows").down = FALSE
        /\ At(c, "rows").seen = {}
    BY <1>1, <1>2, AtIs DEF Steps
  <2>3. range \in SUBSET Uids /\ range \subseteq mailbox /\ \A u \in range : u < uidNext
    BY <1>1, JobFields DEF Numbered
  <2>. HIDE DEF range
  <2>4. /\ q \in Job /\ q.step = "rows" /\ q.mode = "new" /\ q.todo = range
        /\ q.next = 0 /\ ~q.whole /\ ~q.down /\ q.seen = {}
    BY <2>2, <2>3 DEF Job
  <2>. HIDE DEF q
  <2>5. TypeOK' /\ Awaited' /\ RunningIsServed' BY <1>2, <1>3, <1>4, <2>1, <2>4, FetchFrame
  <2>6. Handed' /\ Numbered' /\ SeenIsAll'
    BY <1>1, <1>4, <1>9, <2>1, <2>3, <2>4, UidNextIs, FullHanded
  <2>7. CASE rough BY <1>4, <2>5, <2>6, <2>7 DEF IInv, Gapless
  <2>8. CASE ~rough
    <3>1. job'[c] = q /\ \A d \in Conns \ {c} : job'[d] = job[d] BY <1>1, <2>1, <2>4, JobsTyped
    <3>2. BelowRows /\ BelowHands /\ AboveRows BY <1>1, <2>8 DEF Gapless
    <3>3. Logged' = Logged /\ mailbox' = mailbox BY <1>4 DEF Logged, server
    <3>4. \A v : InFull(v)' <=> InFull(v) BY <1>2, <2>4, <3>1 DEF InFull
    <3>5. FullBusy' => FullBusy BY <2>4, <3>1 DEF FullBusy
    <3>6. BelowRows' BY <3>2, <3>3, <3>4, <3>5 DEF BelowRows, Reached, Safe
    <3>7. ASSUME NEW u \in range, NEW v \in mailbox, v <= u, Reached(v) PROVE Safe(v) \/ v \in range
      <4>1. LastUid \in Logged BY <1>9, LastUidIs
      <4>2. CASE v <= LastUid BY <3>2, <3>7, <4>1, <4>2 DEF BelowRows
      <4>3. CASE LastUid < v
        <5>1. u \in Nat /\ v \in Nat /\ u < job[c].next /\ job[c].next \in Nat
          BY <1>1, UidsAre, JobFields DEF range
        <5>2. v < job[c].next BY <3>7, <5>1
        <5>3. v \in mailbox /\ LastUid < v /\ v < job[c].next BY <4>3, <5>2
        <5>. QED BY <5>3 DEF range
      <4>4. v \in Nat /\ LastUid \in Nat
        <5>1. v \in Uids BY <1>1 DEF TypeOK
        <5>. QED BY <5>1, UidsAre, LastUidIs
      <4>. QED BY <4>2, <4>3, <4>4
    <3>8. BelowHands'
      <4>. SUFFICES ASSUME NEW d \in Conns, NEW u \in job'[d].todo, NEW v \in mailbox', v <= u,
                           Reached(v)' \/ job'[d].mode # "new"
                    PROVE  Safe(v)' \/ v \in job'[d].todo
        BY DEF BelowHands
      <4>1. CASE d = c BY <2>4, <3>1, <3>3, <3>4, <3>7, <4>1 DEF Reached, Safe
      <4>2. CASE d # c
        <5>1. Safe(v) \/ v \in job[d].todo BY <3>1, <3>2, <3>3, <4>2 DEF BelowHands, Reached
        <5>. QED BY <3>1, <3>3, <3>4, <4>2, <5>1 DEF Safe
      <4>. QED BY <4>1, <4>2
    <3>9. AboveRows'
      <4>1. \A u \in range : LastUid \in Logged /\ LastUid < u BY <1>9, LastUidIs DEF range
      <4>. QED BY <2>4, <3>1, <3>2, <3>3, <4>1 DEF AboveRows
    <3>. QED BY <2>5, <2>6, <3>6, <3>8, <3>9 DEF IInv, Gapless
  <2>. QED BY <2>7, <2>8
<1>. QED BY <1>7, <1>8, <1>9, LastUidIs
\* Who has the whole mailbox in hand leaves no gap.
LEMMA GaplessFull ==
    ASSUME TypeOK, Gapless, NEW c \in Conns, NEW q \in Job, job' = [job EXCEPT ![c] = q],
           UNCHANGED <<logs, server>>, rough => rough', job[c].todo = {},
           q.mode # "new", rough' \/ mailbox \subseteq q.todo
    PROVE  Gapless'
<1>. SUFFICES ASSUME ~rough' PROVE (BelowRows /\ BelowHands /\ AboveRows)'
  BY DEF Gapless
<1>1. job'[c] = q /\ \A d \in Conns \ {c} : job'[d] = job[d] BY JobsTyped
<1>2. AboveRows BY DEF Gapless
<1>3. Logged' = Logged /\ mailbox' = mailbox BY DEF Logged, server
<1>4. \A v \in mailbox' : Safe(v)' BY <1>1, <1>3 DEF Safe, InFull
<1>5. BelowRows' /\ BelowHands' BY <1>4 DEF BelowRows, BelowHands
<1>6. AboveRows' BY <1>1, <1>2, <1>3 DEF AboveRows
<1>. QED BY <1>5, <1>6

\* What SEARCH ALL found is all there is.
LEMMA FullSearchOK ==
    ASSUME IInv, NEW c \in Conns, FullSearch(c)
    PROVE  IInv'
<1>1. TypeOK /\ Handed /\ Numbered /\ SeenIsAll /\ Gapless BY DEF IInv
<1>2. /\ job[c].step = "select" /\ job[c].mode # "new" /\ Running(c)
      /\ UNCHANGED <<cfg, logs, active, full, link, pc, debounce, blocked, clerk, server, mishaps, rough>>
  BY DEF FullSearch, Running
<1>3. job[c].todo = {} /\ ~job[c].whole BY <1>1, <1>2 DEF Handed
<1>4. /\ logs' \in [Uids -> {"none", "shown", "deleted"}] /\ UNCHANGED <<logs, server>>
      /\ mishaps' \in 0 .. MaxMishaps /\ rough' \in BOOLEAN /\ rough' = rough
  BY <1>1, <1>2 DEF TypeOK
<1>5. uidNext \in 0 .. MaxUid + 1 /\ uidNext <= uidNext /\ mailbox \in SUBSET Uids
  BY <1>1, LimitsAssumption DEF TypeOK
<1>6. PICK q \in Job : /\ job' = [job EXCEPT ![c] = q]
                       /\ q.step \in {"scope", "reconcile"} /\ q.mode # "new" /\ q.whole
                       /\ q.todo = {} /\ q.seen = mailbox /\ q.next = uidNext
  <2>1. CASE mailbox = {}
    <3>. DEFINE q == [At(c, "reconcile") EXCEPT !.whole = TRUE, !.next = uidNext]
    <3>1. job' = [job EXCEPT ![c] = q] BY <2>1 DEF FullSearch
    <3>2. /\ At(c, "reconcile") \in Job /\ At(c, "reconcile").step = "reconcile"
          /\ At(c, "reconcile").mode # "new" /\ At(c, "reconcile").todo = {}
          /\ At(c, "reconcile").seen = {}
      BY <1>1, <1>2, AtIs DEF Steps
    <3>3. /\ q \in Job /\ q.step = "reconcile" /\ q.mode # "new" /\ q.whole
          /\ q.todo = {} /\ q.seen = {} /\ q.next = uidNext
      BY <1>5, <3>2 DEF Job
    <3>. HIDE DEF q
    <3>. QED BY <2>1, <3>1, <3>3
  <2>2. CASE mailbox # {}
    <3>. DEFINE q == [job[c] EXCEPT !.step = "scope", !.seen = mailbox, !.whole = TRUE, !.next = uidNext]
    <3>1. job' = [job EXCEPT ![c] = q] BY <2>2 DEF FullSearch
    <3>2. job[c] \in Job BY <1>1, JobFields
    <3>3. /\ q \in Job /\ q.step = "scope" /\ q.mode = job[c].mode /\ q.whole
          /\ q.todo = job[c].todo /\ q.seen = mailbox /\ q.next = uidNext
      BY <1>5, <3>2 DEF Job, Steps
    <3>. HIDE DEF q
    <3>. QED BY <1>2, <1>3, <3>1, <3>3
  <2>. QED BY <2>1, <2>2
<1>7. TypeOK' /\ Awaited' /\ RunningIsServed' BY <1>2, <1>4, <1>6, FetchFrame
<1>8. job'[c] = q /\ \A d \in Conns \ {c} : job'[d] = job[d] BY <1>1, <1>6, JobsTyped
<1>9. Logged' = Logged /\ mailbox' = mailbox /\ uidNext' = uidNext BY <1>4, Untouched
<1>10. Handed' BY <1>1, <1>6, <1>8 DEF Handed
<1>11. Numbered' BY <1>1, <1>5, <1>6, <1>8, <1>9 DEF Numbered
<1>12. SeenIsAll' BY <1>1, <1>6, <1>8, <1>9 DEF SeenIsAll
<1>13. Gapless' BY <1>1, <1>3, <1>4, <1>6, <1>9, GaplessEmptied
<1>. QED BY <1>7, <1>10, <1>11, <1>12, <1>13 DEF IInv

LEMMA FullScanOK ==
    ASSUME IInv, NEW c \in Conns, FullScan(c) \/ FullFallback(c)
    PROVE  IInv'
<1>1. TypeOK /\ Handed /\ Numbered /\ SeenIsAll /\ Gapless BY DEF IInv
<1>2. /\ job[c].step \in {"select", "scope"} /\ job[c].mode # "new" /\ Running(c)
      /\ UNCHANGED <<cfg, logs, active, full, link, pc, debounce, blocked, clerk, server, mishaps>>
  BY <1>1 DEF FullScan, FullFallback, Running, Handed
<1>3. job[c].todo = {} BY <1>1, <1>2 DEF Handed
<1>4. /\ logs' \in [Uids -> {"none", "shown", "deleted"}] /\ UNCHANGED <<logs, server>>
      /\ mishaps' \in 0 .. MaxMishaps
  BY <1>1, <1>2 DEF TypeOK
<1>5. uidNext \in 0 .. MaxUid + 1 /\ uidNext <= uidNext /\ 0 <= uidNext
      /\ mailbox \in SUBSET Uids /\ \A u \in mailbox : u < uidNext
  BY <1>1, LimitsAssumption DEF TypeOK, Numbered
<1>6. SUFFICES ASSUME NEW q \in Job, job' = [job EXCEPT ![c] = q],
                      rough' \in BOOLEAN, rough => rough', q.mode # "new",
                      rough' \/ mailbox \subseteq q.todo,
                      Idle(q) \/ (q.step = "rows" /\ q.todo # {} /\ q.next <= uidNext
                                    /\ (\A u \in q.todo \cup q.seen : u < uidNext)
                                    /\ (q.whole => \A u \in mailbox : u < q.next => u \in q.seen))
               PROVE  IInv'
  <2>1. CASE FullFallback(c)
    <3>1. rough' = rough /\ rough' \in BOOLEAN BY <1>1, <2>1 DEF FullFallback, TypeOK
    <3>2. CASE mailbox = {}
      <4>1. job' = [job EXCEPT ![c] = At(c, "none")] BY <2>1, <3>2 DEF FullFallback
      <4>2. At(c, "none") \in Job /\ Idle(At(c, "none")) /\ At(c, "none").mode # "new"
        BY <1>1, <1>2, AtIs, UidNextIs DEF Idle, Steps
      <4>. QED BY <1>6, <3>1, <3>2, <4>1, <4>2
    <3>3. CASE mailbox # {}
      <4>. DEFINE q == [At(c, "rows") EXCEPT !.todo = mailbox]
      <4>1. job' = [job EXCEPT ![c] = q] BY <2>1, <3>3 DEF FullFallback
      <4>2. At(c, "rows") \in Job /\ At(c, "rows").step = "rows" /\ At(c, "rows").mode # "new"
            /\ At(c, "rows").next = 0 /\ At(c, "rows").whole = FALSE /\ At(c, "rows").seen = {}
        BY <1>1, <1>2, AtIs DEF Steps
      <4>3. /\ q \in Job /\ q.step = "rows" /\ q.mode # "new" /\ q.todo = mailbox
            /\ q.next = 0 /\ ~q.whole /\ q.seen = {}
        BY <1>5, <4>2 DEF Job
      <4>. HIDE DEF q
      <4>. QED BY <1>5, <1>6, <3>1, <3>3, <4>1, <4>3
    <3>. QED BY <3>2, <3>3
  <2>2. CASE FullScan(c)
    <3>1. PICK uids \in {job[c].seen} \cup (IF job[c].mode = "latest" THEN SUBSET mailbox \ {{}} ELSE {}) :
            LET window == WindowOf(job[c].mode, job[c].before, uids)
                whole  == job[c].before = 0 /\ Cardinality(window) = Cardinality(job[c].seen)
            IN
              /\ job' = [job EXCEPT ![c] =
                   IF window = {} THEN At(c, "none")
                   ELSE [At(c, "rows") EXCEPT !.todo = window, !.down = TRUE, !.whole = whole,
                                              !.seen = IF whole THEN job[c].seen ELSE {},
                                              !.next = IF whole THEN job[c].next ELSE 0]]
              /\ rough' = (rough \/ ~(mailbox \subseteq window))
      BY <2>2 DEF FullScan
    <3>. DEFINE window == WindowOf(job[c].mode, job[c].before, uids)
                whole  == job[c].before = 0 /\ Cardinality(window) = Cardinality(job[c].seen)
    <3>2. uids \subseteq job[c].seen \cup mailbox BY <3>1
    <3>3. /\ job[c].seen \in SUBSET Uids /\ job[c].next \in 0 .. MaxUid + 1 /\ job[c].next <= uidNext
          /\ \A u \in job[c].seen : u < uidNext
          /\ \A u \in mailbox : u < job[c].next => u \in job[c].seen
      <4>1. job[c].step = "scope" BY <2>2 DEF FullScan
      <4>2. job[c] \in Job BY <1>1, JobFields
      <4>3. job[c].seen \in SUBSET Uids /\ job[c].next \in 0 .. MaxUid + 1 BY <4>2 DEF Job
      <4>4. job[c].whole BY <1>1, <4>1 DEF Handed
      <4>. QED BY <1>1, <4>3, <4>4 DEF Numbered, SeenIsAll
    <3>4. window \subseteq uids BY DEF WindowOf, Newest
    <3>5. window \in SUBSET Uids /\ \A u \in window : u < uidNext BY <1>5, <3>2, <3>3, <3>4
    <3>6. rough' = (rough \/ ~(mailbox \subseteq window)) BY <3>1
    <3>7. rough' \in BOOLEAN /\ (rough => rough') /\ (rough' \/ mailbox \subseteq window)
      BY <1>1, <3>6 DEF TypeOK
    <3>8. whole \in BOOLEAN OBVIOUS
    <3>. HIDE DEF window, whole
    <3>9. CASE window = {}
      <4>1. job' = [job EXCEPT ![c] = At(c, "none")] BY <3>1, <3>9 DEF window
      <4>2. At(c, "none") \in Job /\ Idle(At(c, "none")) /\ At(c, "none").mode # "new"
            /\ At(c, "none").todo = {}
        BY <1>1, <1>2, AtIs, UidNextIs DEF Idle, Steps
      <4>. QED BY <1>6, <3>7, <3>9, <4>1, <4>2
    <3>10. CASE window # {}
      <4>. DEFINE q == [At(c, "rows") EXCEPT !.todo = window, !.down = TRUE, !.whole = whole,
                                             !.seen = IF whole THEN job[c].seen ELSE {},
                                             !.next = IF whole THEN job[c].next ELSE 0]
      <4>1. job' = [job EXCEPT ![c] = q] BY <3>1, <3>10 DEF window, whole
      <4>2. At(c, "rows") \in Job /\ At(c, "rows").step = "rows" /\ At(c, "rows").mode # "new"
        BY <1>1, <1>2, AtIs DEF Steps
      <4>3. /\ (IF whole THEN job[c].seen ELSE {}) \in SUBSET Uids
            /\ (IF whole THEN job[c].next ELSE 0) \in 0 .. MaxUid + 1
        BY <3>3, LimitsAssumption
      <4>4. q \in Job BY <3>5, <3>8, <4>2, <4>3 DEF Job
      <4>5. /\ q.step = "rows" /\ q.mode # "new" /\ q.todo = window /\ q.whole = whole
            /\ q.seen = (IF whole THEN job[c].seen ELSE {})
            /\ q.next = (IF whole THEN job[c].next ELSE 0)
        BY <4>2 DEF Job
      <4>. HIDE DEF q
      <4>6. q.next <= uidNext /\ (\A u \in q.todo \cup q.seen : u < uidNext)
        BY <1>5, <3>3, <3>5, <4>5
      <4>7. q.whole => \A u \in mailbox : u < q.next => u \in q.seen BY <3>3, <4>5
      <4>. QED BY <1>6, <3>7, <3>10, <4>1, <4>4, <4>5, <4>6, <4>7
    <3>. QED BY <3>9, <3>10
  <2>. QED BY <2>1, <2>2
<1>7. TypeOK' /\ Awaited' /\ RunningIsServed' BY <1>2, <1>4, <1>6, FetchFrame
<1>8. Gapless' BY <1>1, <1>3, <1>4, <1>6, GaplessFull
<1>9. CASE Idle(q) BY <1>1, <1>3, <1>4, <1>6, <1>7, <1>9, Untouched, EmptyHanded DEF IInv
<1>10. CASE q.step = "rows" /\ q.todo # {} /\ q.next <= uidNext
              /\ (\A u \in q.todo \cup q.seen : u < uidNext)
              /\ (q.whole => \A u \in mailbox : u < q.next => u \in q.seen)
  BY <1>1, <1>4, <1>6, <1>7, <1>8, <1>10, FullHanded DEF IInv
<1>. QED BY <1>6, <1>9, <1>10

-----------------------------------------------------------------------------
(* Steps that write the log *)

LEMMA BaselineOK ==
    ASSUME IInv, NEW c \in Conns, NewBaseline(c)
    PROVE  IInv'
<1>. DEFINE base == job[c].next - 1
            q == At(c, "none")
<1>1. TypeOK /\ Handed /\ Numbered /\ SeenIsAll /\ Gapless BY DEF IInv
<1>2. /\ job[c].step = "baseline" /\ Running(c)
      /\ job' = [job EXCEPT ![c] = q]
      /\ UNCHANGED <<cfg, active, full, link, pc, debounce, blocked, clerk, server, mishaps>>
      /\ rough' = (rough \/ Logged # {} \/ \E d \in Conns \ {c} : Running(d))
      /\ logs' = logs \/ logs' = [logs EXCEPT ![base] = "deleted"]
  BY DEF NewBaseline, Running
<1>3. q \in Job /\ Idle(q) /\ q.todo = {} BY <1>1, AtIs, UidNextIs DEF Idle, Steps
<1>4. base < uidNext
  <2>1. job[c].next \in Nat /\ uidNext \in Nat /\ job[c].next <= uidNext
    BY <1>1, JobFields DEF Numbered
  <2>. QED BY <2>1
<1>. HIDE DEF base, q
<1>5. /\ logs' \in [Uids -> {"none", "shown", "deleted"}] /\ mishaps' \in 0 .. MaxMishaps
      /\ rough' \in BOOLEAN /\ mailbox' = mailbox /\ uidNext' = uidNext
  BY <1>1, <1>2 DEF TypeOK, server
<1>6. \A u \in Logged' : u \in Logged \/ u = base BY <1>1, <1>2 DEF Logged, TypeOK
<1>7. TypeOK' /\ Awaited' /\ RunningIsServed' BY <1>2, <1>3, <1>5, FetchFrame
<1>8. job'[c] = q /\ \A d \in Conns \ {c} : job'[d] = job[d] BY <1>1, <1>2, <1>3, JobsTyped
<1>9. Handed' BY <1>1, <1>3, <1>8 DEF Handed, Idle
<1>10. Numbered' BY <1>1, <1>3, <1>4, <1>5, <1>6, <1>8 DEF Numbered, Idle
<1>11. SeenIsAll' BY <1>1, <1>3, <1>5, <1>8 DEF SeenIsAll, Idle
<1>12. Gapless'
  <2>. SUFFICES ASSUME ~rough' PROVE (BelowRows /\ BelowHands /\ AboveRows)' BY DEF Gapless
  <2>1. Logged = {} /\ \A d \in Conns \ {c} : ~Running(d) BY <1>2
  <2>2. \A d \in Conns : job'[d].todo = {} /\ job'[d].step # "rows"
    BY <1>1, <1>3, <1>8, <2>1 DEF Handed, Idle, Running
  <2>3. BelowHands' /\ AboveRows' BY <2>2 DEF BelowHands, AboveRows
  <2>4. BelowRows'
    <3>. SUFFICES ASSUME NEW u \in Logged', NEW v \in mailbox', v <= u, NEW w \in Logged', w <= v
                  PROVE  Safe(v)'
      BY <2>2 DEF BelowRows, Reached, FullBusy
    <3>1. u = base /\ w = base BY <1>6, <2>1
    <3>2. u \in Nat /\ v \in Nat BY <1>7, UidsAre DEF Logged, TypeOK
    <3>3. v = u BY <3>1, <3>2
    <3>. QED BY <3>3 DEF Safe
  <2>. QED BY <2>3, <2>4
<1>. QED BY <1>7, <1>9, <1>10, <1>11, <1>12 DEF IInv

LEMMA ReconcileOK ==
    ASSUME IInv, NEW c \in Conns, ReconcileDeletedLogs(c)
    PROVE  IInv'
<1>. DEFINE q == At(c, "none")
<1>1. TypeOK /\ Handed /\ Numbered /\ SeenIsAll /\ Gapless BY DEF IInv
<1>2. /\ job[c].step = "reconcile" /\ Running(c)
      /\ job' = [job EXCEPT ![c] = q]
      /\ UNCHANGED <<cfg, active, full, link, pc, debounce, blocked, clerk, server, mishaps, rough>>
      /\ logs' = Reconciled(job[c].seen)
  BY DEF ReconcileDeletedLogs, Running
<1>3. q \in Job /\ Idle(q) BY <1>1, AtIs, UidNextIs DEF Idle, Steps
<1>. HIDE DEF q
<1>4. logs' \in [Uids -> {"none", "shown", "deleted"}] BY <1>1, <1>2 DEF Reconciled, TypeOK
<1>5. Logged' = Logged BY <1>1, <1>2 DEF Reconciled, TypeOK, Logged
<1>6. /\ mishaps' \in 0 .. MaxMishaps /\ rough' \in BOOLEAN
      /\ rough => rough'
      /\ mailbox' = mailbox /\ uidNext' = uidNext
  BY <1>1, <1>2 DEF TypeOK, server
<1>7. TypeOK' /\ Awaited' /\ RunningIsServed' BY <1>2, <1>3, <1>4, <1>6, FetchFrame
<1>8. job[c].todo = {} BY <1>1, <1>2 DEF Handed
<1>9. Handed' /\ Numbered' /\ SeenIsAll' /\ Gapless'
  BY <1>1, <1>2, <1>3, <1>5, <1>6, <1>8, EmptyHanded
<1>. QED BY <1>7, <1>9 DEF IInv

LEMMA ProcessOK ==
    ASSUME IInv, NEW c \in Conns, ProcessMessage(c)
    PROVE  IInv'
<1>1. TypeOK /\ Handed /\ Numbered /\ SeenIsAll /\ Gapless BY DEF IInv
<1>2. /\ job[c].step = "rows" /\ Running(c) /\ job[c].todo # {}
      /\ UNCHANGED <<cfg, active, full, link, pc, debounce, blocked, clerk, server>>
  BY <1>1 DEF ProcessMessage, Running, Handed
<1>3. PICK u \in job[c].todo :
        /\ job[c].down \/ u = Min(job[c].todo)
        /\ \/ Process(u) /\ UNCHANGED <<mishaps, rough>>
           \/ Mishap /\ logs[u] = "none" /\ UNCHANGED logs /\ rough' = TRUE
           \/ u \notin mailbox /\ UNCHANGED <<logs, mishaps, rough>>
        /\ job' = [job EXCEPT ![c] =
             CASE job[c].todo \ {u} # {} -> [job[c] EXCEPT !.todo = job[c].todo \ {u}]
               [] job[c].todo \ {u} = {} /\ job[c].whole ->
                    [job[c] EXCEPT !.step = "reconcile", !.todo = {}]
               [] OTHER -> At(c, "none")]
  <2>1. job[c].todo \in SUBSET Uids BY <1>1, JobFields
  <2>2. Min(job[c].todo) \in job[c].todo BY <1>2, <2>1, MinOfUids
  <2>3. Newest(job[c].todo, Batch) \subseteq job[c].todo BY DEF Newest
  <2>4. PICK u \in IF job[c].down THEN Newest(job[c].todo, Batch) ELSE {Min(job[c].todo)} :
        /\ \/ Process(u) /\ UNCHANGED <<mishaps, rough>>
           \/ Mishap /\ logs[u] = "none" /\ UNCHANGED logs /\ rough' = TRUE
           \/ u \notin mailbox /\ UNCHANGED <<logs, mishaps, rough>>
        /\ job' = [job EXCEPT ![c] =
             CASE job[c].todo \ {u} # {} -> [job[c] EXCEPT !.todo = job[c].todo \ {u}]
               [] job[c].todo \ {u} = {} /\ job[c].whole ->
                    [job[c] EXCEPT !.step = "reconcile", !.todo = {}]
               [] OTHER -> At(c, "none")]
    BY DEF ProcessMessage
  <2>5. u \in job[c].todo /\ (job[c].down \/ u = Min(job[c].todo)) BY <2>2, <2>3
  <2>. QED BY <2>4, <2>5
<1>4. PICK q \in Job :
        /\ job' = [job EXCEPT ![c] = q]
        /\ q.todo = job[c].todo \ {u}
        /\ q.mode = "new" <=> job[c].mode = "new"
        /\ q.step = "rows" <=> q.todo # {}
        /\ q.step \in {"rows", "reconcile", "none"}
        /\ q.step = "reconcile" => q.whole
        /\ q.whole => q.step \in {"rows", "reconcile"} /\ job[c].whole /\ q.seen = job[c].seen
        /\ q.next = job[c].next \/ q.next = 0
        /\ q.whole => q.next = job[c].next
        /\ q.down => job[c].down
        /\ q.seen \subseteq job[c].seen
  <2>1. job[c] \in Job /\ job[c].todo \in SUBSET Uids BY <1>1, JobFields
  <2>2. CASE job[c].todo \ {u} # {}
    <3>. DEFINE q == [job[c] EXCEPT !.todo = job[c].todo \ {u}]
    <3>1. job' = [job EXCEPT ![c] = q] BY <1>3, <2>2
    <3>2. /\ q \in Job /\ q.todo = job[c].todo \ {u} /\ q.step = "rows" /\ q.mode = job[c].mode
          /\ q.whole = job[c].whole /\ q.seen = job[c].seen /\ q.next = job[c].next
          /\ q.down = job[c].down
      BY <1>2, <2>1 DEF Job
    <3>. HIDE DEF q
    <3>. QED BY <2>2, <3>1, <3>2
  <2>3. CASE job[c].todo \ {u} = {} /\ job[c].whole
    <3>. DEFINE q == [job[c] EXCEPT !.step = "reconcile", !.todo = {}]
    <3>1. job' = [job EXCEPT ![c] = q] BY <1>3, <2>3
    <3>2. /\ q \in Job /\ q.todo = {} /\ q.step = "reconcile" /\ q.mode = job[c].mode
          /\ q.whole = job[c].whole /\ q.seen = job[c].seen /\ q.next = job[c].next
          /\ q.down = job[c].down
      BY <2>1 DEF Job, Steps
    <3>. HIDE DEF q
    <3>. QED BY <2>3, <3>1, <3>2
  <2>4. CASE job[c].todo \ {u} = {} /\ ~job[c].whole
    <3>1. job' = [job EXCEPT ![c] = At(c, "none")] BY <1>3, <2>4
    <3>2. /\ At(c, "none") \in Job /\ At(c, "none").todo = {} /\ At(c, "none").step = "none"
          /\ At(c, "none").mode = "new" <=> job[c].mode = "new"
          /\ At(c, "none").whole = FALSE /\ At(c, "none").seen = {}
          /\ At(c, "none").next = 0 /\ At(c, "none").down = FALSE
      BY <1>1, AtIs DEF Steps
    <3>. QED BY <2>4, <3>1, <3>2
  <2>. QED BY <2>2, <2>3, <2>4
<1>5. u \in Uids /\ u < uidNext BY <1>1, JobFields DEF Numbered
<1>6. /\ logs' \in [Uids -> {"none", "shown", "deleted"}]
      /\ \A v \in Logged' : v \in Logged \/ v = u
      /\ Logged \subseteq Logged'
  BY <1>1, <1>3, <1>5 DEF TypeOK, Process, Logged
<1>7. /\ mishaps' \in 0 .. MaxMishaps /\ rough' \in BOOLEAN
      /\ mailbox' = mailbox /\ uidNext' = uidNext
  BY <1>1, <1>2, <1>3, MishapOK DEF TypeOK, server
<1>8. TypeOK' /\ Awaited' /\ RunningIsServed' BY <1>2, <1>4, <1>6, <1>7, FetchFrame
<1>9. job'[c] = q /\ \A d \in Conns \ {c} : job'[d] = job[d] BY <1>1, <1>4, JobsTyped
<1>10. Handed' BY <1>1, <1>4, <1>9 DEF Handed
<1>11. Numbered'
  <2>1. q.next <= uidNext BY <1>1, <1>4, UidNextIs DEF Numbered
  <2>. QED BY <1>1, <1>4, <1>5, <1>6, <1>7, <1>9, <2>1 DEF Numbered
<1>12. SeenIsAll' BY <1>1, <1>4, <1>7, <1>9 DEF SeenIsAll
<1>13. Gapless'
  <2>. SUFFICES ASSUME ~rough' PROVE (BelowRows /\ BelowHands /\ AboveRows)' BY DEF Gapless
  <2>. DEFINE FullHere == job[c].mode # "new"
  <2>1. rough' = rough /\ (u \in Logged' \/ u \notin mailbox)
    BY <1>1, <1>3, <1>5 DEF Process, Logged, TypeOK
  <2>2. BelowRows /\ BelowHands /\ AboveRows BY <1>1, <2>1 DEF Gapless
  <2>3. \A v \in mailbox : Safe(v) => Safe(v)'
    <3>. SUFFICES ASSUME NEW v \in mailbox, Safe(v) PROVE Safe(v)' OBVIOUS
    <3>1. CASE v \in Logged BY <1>6, <3>1 DEF Safe
    <3>2. CASE v = u BY <2>1, <3>2 DEF Safe
    <3>3. CASE InFull(v) /\ v # u
      <4>1. PICK d \in Conns : job[d].mode # "new" /\ v \in job[d].todo BY <3>3 DEF InFull
      <4>2. job'[d].mode # "new" /\ v \in job'[d].todo BY <1>4, <1>9, <3>3, <4>1
      <4>. QED BY <4>2 DEF Safe, InFull
    <3>. QED BY <3>1, <3>2, <3>3 DEF Safe
  <2>4. \A d \in Conns : /\ job'[d].mode = "new" <=> job[d].mode = "new"
                         /\ job'[d].todo \subseteq job[d].todo
                         /\ job'[d].step = "rows" => job[d].step = "rows"
    BY <1>2, <1>4, <1>9
  <2>5. FullBusy' => FullBusy BY <2>4 DEF FullBusy
  <2>6. FullHere => FullBusy BY <1>2 DEF FullBusy
  <2>7. ASSUME NEW v \in mailbox, v <= u, FullHere \/ Reached(v) PROVE Safe(v)'
    <3>1. Safe(v) \/ v \in job[c].todo BY <2>2, <2>7 DEF BelowHands
    <3>2. CASE Safe(v) BY <2>3, <3>2
    <3>3. CASE v \in job[c].todo /\ FullHere
      <4>1. Safe(v) BY <3>3 DEF Safe, InFull
      <4>. QED BY <2>3, <4>1
    <3>4. CASE v \in job[c].todo /\ ~FullHere
      <4>1. u = Min(job[c].todo) BY <1>1, <1>3, <3>4 DEF Handed
      <4>2. u <= v
        <5>1. job[c].todo \in SUBSET Uids BY <1>1, JobFields
        <5>. QED BY <1>2, <3>4, <4>1, <5>1, MinOfUids
      <4>3. v = u
        <5>1. v \in Nat /\ u \in Nat BY <1>1, <1>5, JobFields, UidsAre
        <5>. QED BY <2>7, <4>2, <5>1
      <4>. QED BY <2>1, <4>3 DEF Safe
    <3>. QED BY <3>1, <3>2, <3>3, <3>4
  <2>8. ASSUME ~FullHere PROVE \E w \in Logged : w < u BY <2>2, <2>8 DEF AboveRows
  <2>9. ASSUME NEW v \in mailbox, u <= v PROVE Reached(v) \/ FullBusy
    <3>1. CASE FullHere BY <2>6, <3>1
    <3>2. CASE ~FullHere
      <4>1. PICK w \in Logged : w < u BY <2>8, <3>2
      <4>2. w \in Nat /\ u \in Nat /\ v \in Nat BY <1>1, <1>5, UidsAre DEF Logged, TypeOK
      <4>3. w <= v BY <2>9, <4>1, <4>2
      <4>. QED BY <4>3 DEF Reached
    <3>. QED BY <3>1, <3>2
  <2>10. ASSUME NEW v \in mailbox, Reached(v)' PROVE Reached(v) \/ FullBusy
    BY <1>6, <2>9, <2>10 DEF Reached
  <2>11. BelowRows'
    <3>. SUFFICES ASSUME NEW x \in Logged', NEW v \in mailbox, v <= x, Reached(v)' \/ FullBusy'
                  PROVE  Safe(v)'
      BY <1>7 DEF BelowRows
    <3>1. Reached(v) \/ FullBusy BY <2>5, <2>10
    <3>2. CASE x \in Logged BY <2>2, <2>3, <3>1, <3>2 DEF BelowRows
    <3>3. CASE x = u /\ (FullHere \/ Reached(v)) BY <2>7, <3>3
    <3>4. CASE x = u /\ ~FullHere /\ ~Reached(v)
      <4>1. PICK w \in Logged : w < u BY <2>8, <3>4
      <4>2. v <= w
        <5>1. w \in Nat /\ v \in Nat BY <1>1, UidsAre DEF Logged, TypeOK
        <5>2. ~(w <= v) BY <3>4 DEF Reached
        <5>. QED BY <5>1, <5>2
      <4>. QED BY <2>2, <2>3, <3>1, <3>4, <4>2 DEF BelowRows
    <3>. QED BY <1>6, <3>2, <3>3, <3>4
  <2>12. BelowHands'
    <3>. SUFFICES ASSUME NEW d \in Conns, NEW x \in job'[d].todo, NEW v \in mailbox, v <= x,
                         Reached(v)' \/ job'[d].mode # "new"
                  PROVE  Safe(v)' \/ v \in job'[d].todo
      BY <1>7 DEF BelowHands
    <3>1. x \in job[d].todo /\ (Reached(v)' \/ job[d].mode # "new") BY <2>4
    <3>2. CASE Reached(v) \/ job[d].mode # "new"
      <4>1. Safe(v) \/ v \in job[d].todo BY <2>2, <3>1, <3>2 DEF BelowHands
      <4>2. v \in job[d].todo => v \in job'[d].todo \/ v = u BY <1>4, <1>9
      <4>3. u \in mailbox => Safe(u)' BY <2>1 DEF Safe
      <4>. QED BY <2>3, <4>1, <4>2, <4>3
    <3>3. CASE ~Reached(v) /\ job[d].mode = "new"
      <4>1. FullBusy BY <2>10, <3>1, <3>3
      <4>2. PICK w \in Logged : w < x BY <2>2, <3>1, <3>3 DEF AboveRows
      <4>3. v <= w
        <5>1. w \in Nat /\ v \in Nat BY <1>1, UidsAre DEF Logged, TypeOK
        <5>2. ~(w <= v) BY <3>3 DEF Reached
        <5>. QED BY <5>1, <5>2
      <4>4. Safe(v) BY <2>2, <4>1, <4>3 DEF BelowRows
      <4>. QED BY <2>3, <4>4
    <3>. QED BY <3>2, <3>3
  <2>13. AboveRows' BY <1>6, <2>2, <2>4 DEF AboveRows
  <2>. QED BY <2>11, <2>12, <2>13
<1>. QED BY <1>8, <1>10, <1>11, <1>12, <1>13 DEF IInv

\* The log of the configuration is thrown away; only with no fetch under way
\* does the claim go on.
LEMMA ClearOK ==
    ASSUME IInv, DeleteCascade \/ ClearRows
    PROVE  IInv'
<1>1. TypeOK /\ Awaited /\ Handed /\ RunningIsServed /\ Numbered /\ SeenIsAll /\ Gapless BY DEF IInv
<1>2. /\ cfg' \in BOOLEAN /\ logs' = [u \in Uids |-> "none"] /\ clerk' = "free"
      /\ rough' = (rough \/ Midway) /\ rough' \in BOOLEAN
      /\ UNCHANGED <<active, full, link, pc, debounce, blocked, job, server, mishaps>>
  BY <1>1 DEF DeleteCascade, ClearRows, TypeOK
<1>3. Logged' = {} BY <1>2 DEF Logged
<1>4. TypeOK' BY <1>1, <1>2 DEF TypeOK, server
<1>5. Awaited' /\ Handed' /\ RunningIsServed'
  BY <1>1, <1>2 DEF Awaited, Handed, RunningIsServed, Status, Running
<1>6. Numbered' /\ SeenIsAll' BY <1>1, <1>2, <1>3 DEF Numbered, SeenIsAll, server
<1>7. Gapless'
  <2>. SUFFICES ASSUME ~rough' PROVE (BelowRows /\ BelowHands /\ AboveRows)' BY DEF Gapless
  <2>1. \A c \in Conns : job'[c].todo = {} BY <1>1, <1>2 DEF Handed, Midway, Running
  <2>. QED BY <1>3, <2>1 DEF BelowRows, BelowHands, AboveRows
<1>. QED BY <1>4, <1>5, <1>6, <1>7 DEF IInv

LEMMA RestartOK ==
    ASSUME IInv, Restart
    PROVE  IInv'
<1>1. TypeOK /\ Handed /\ Numbered /\ Gapless BY DEF IInv
<1>2. /\ active' = None /\ full' = FALSE /\ link' = {} /\ clerk' = "free"
      /\ pc' = [c \in Conns |-> "off"] /\ debounce' = [m \in Monitors |-> "off"] /\ blocked' = {}
      /\ job' = [c \in Conns |-> NoJob] /\ UNCHANGED <<cfg, logs, server>>
      /\ rough' = (rough \/ \E c \in Conns : Running(c) /\ job[c].mode # "new")
  BY DEF Restart
<1>3. mishaps' \in 0 .. MaxMishaps BY <1>1, MishapOK DEF Restart
<1>4. TypeOK' BY <1>1, <1>2, <1>3, NoJobIs DEF TypeOK, server
<1>5. \A c \in Conns : job'[c] = NoJob BY <1>2
<1>6. Awaited' /\ Handed' BY <1>2, <1>5, NoJobIs DEF Awaited, Handed, Running, Conns
<1>7. RunningIsServed' BY <1>2 DEF RunningIsServed, Status
<1>8. Logged' = Logged /\ mailbox' = mailbox /\ uidNext' = uidNext BY <1>2, Untouched
<1>9. Numbered' BY <1>1, <1>5, <1>8, NoJobIs, UidNextIs DEF Numbered
<1>10. SeenIsAll' BY <1>5, NoJobIs DEF SeenIsAll
<1>11. Gapless'
  <2>. SUFFICES ASSUME ~rough' PROVE (BelowRows /\ BelowHands /\ AboveRows)' BY DEF Gapless
  <2>1. ~rough /\ \A c \in Conns : job[c].mode # "new" => job[c].todo = {}
    BY <1>1, <1>2 DEF Handed, Running
  <2>2. BelowRows BY <1>1, <2>1 DEF Gapless
  <2>3. ~FullBusy' BY <1>5, NoJobIs DEF FullBusy
  <2>4. \A v : ~InFull(v) BY <2>1 DEF InFull
  <2>5. BelowRows' BY <1>8, <2>2, <2>3, <2>4 DEF BelowRows, Reached, Safe
  <2>6. BelowHands' /\ AboveRows' BY <1>5, NoJobIs DEF BelowHands, AboveRows
  <2>. QED BY <2>5, <2>6
<1>. QED BY <1>4, <1>6, <1>7, <1>9, <1>10, <1>11 DEF IInv

\* New mail is above all that is known, and mail that goes leaves no gap.
LEMMA ServerOK ==
    ASSUME IInv, MailArrives \/ MailGoes
    PROVE  IInv'
<1>1. TypeOK /\ Awaited /\ Handed /\ RunningIsServed /\ Numbered /\ SeenIsAll /\ Gapless BY DEF IInv
<1>2. UNCHANGED <<cfg, logs, active, full, link, pc, debounce, blocked, job, clerk, rough>>
  BY DEF MailArrives, MailGoes
<1>3. /\ mailbox' \in SUBSET Uids /\ uidNext' \in 1 .. MaxUid + 1 /\ uidNext \in Nat
      /\ uidNext <= uidNext' /\ \A v \in mailbox' : v \in mailbox \/ (v = uidNext /\ v < uidNext')
  <2>1. uidNext \in 1 .. MaxUid + 1 /\ mailbox \in SUBSET Uids BY <1>1 DEF TypeOK
  <2>2. CASE MailArrives BY <2>1, <2>2, LimitsAssumption DEF MailArrives, Uids
  <2>3. CASE MailGoes BY <2>1, <2>3, LimitsAssumption DEF MailGoes
  <2>. QED BY <2>2, <2>3
<1>4. mishaps' \in 0 .. MaxMishaps BY <1>1, MishapOK DEF MailArrives, MailGoes
<1>5. TypeOK' BY <1>1, <1>2, <1>3, <1>4 DEF TypeOK
<1>6. Awaited' /\ Handed' /\ RunningIsServed'
  BY <1>1, <1>2 DEF Awaited, Handed, RunningIsServed, Status, Running
<1>7. Logged' = Logged BY <1>2 DEF Logged
<1>8. Numbered'
  <2>1. \A u \in Uids : u < uidNext => u < uidNext' BY <1>3, <1>5, UidsAre DEF TypeOK
  <2>2. \A u \in mailbox' : u < uidNext'
    BY <1>1, <1>3, <2>1 DEF Numbered, TypeOK
  <2>3. \A u \in Logged' : u < uidNext' BY <1>1, <1>7, <2>1 DEF Numbered, Logged
  <2>4. ASSUME NEW c \in Conns
        PROVE  job'[c].next <= uidNext' /\ \A u \in job'[c].todo \cup job'[c].seen : u < uidNext'
    <3>1. job[c].next \in Nat /\ job[c].next <= uidNext /\ job[c].todo \cup job[c].seen \subseteq Uids
      BY <1>1, JobFields DEF Numbered
    <3>2. job'[c].next <= uidNext' BY <1>2, <1>3, <1>5, <3>1 DEF TypeOK
    <3>. QED BY <1>1, <1>2, <2>1, <3>1, <3>2 DEF Numbered
  <2>. QED BY <2>2, <2>3, <2>4 DEF Numbered
<1>9. SeenIsAll'
  <2>. SUFFICES ASSUME NEW c \in Conns, job[c].whole, NEW v \in mailbox', v < job[c].next
                PROVE  v \in job[c].seen
    BY <1>2 DEF SeenIsAll
  <2>1. job[c].next \in Nat /\ job[c].next <= uidNext BY <1>1, JobFields DEF Numbered
  <2>2. v # uidNext BY <1>3, <2>1
  <2>. QED BY <1>1, <1>3, <2>2 DEF SeenIsAll
<1>10. Gapless'
  <2>. SUFFICES ASSUME ~rough' PROVE (BelowRows /\ BelowHands /\ AboveRows)' BY DEF Gapless
  <2>1. BelowRows /\ BelowHands /\ AboveRows BY <1>1, <1>2 DEF Gapless
  <2>2. ASSUME NEW u \in Uids, u < uidNext, NEW v \in mailbox', v <= u PROVE v \in mailbox
    <3>1. u \in Nat BY UidsAre
    <3>. QED BY <1>3, <2>2, <3>1
  <2>3. BelowRows'
    <3>1. \A u \in Logged : u \in Uids /\ u < uidNext BY <1>1 DEF Numbered, Logged
    <3>. QED BY <1>2, <1>7, <2>1, <2>2, <3>1 DEF BelowRows, Reached, FullBusy, Safe, InFull
  <2>4. BelowHands'
    <3>1. \A c \in Conns : \A u \in job[c].todo : u \in Uids /\ u < uidNext
      BY <1>1, JobFields DEF Numbered
    <3>. QED BY <1>2, <1>7, <2>1, <2>2, <3>1 DEF BelowHands, Reached, Safe, InFull
  <2>5. AboveRows' BY <1>2, <1>7, <2>1 DEF AboveRows
  <2>. QED BY <2>3, <2>4, <2>5
<1>. QED BY <1>5, <1>6, <1>8, <1>9, <1>10 DEF IInv

LEMMA NextOK == IInv /\ [Next]_vars => IInv'
<1>. SUFFICES ASSUME IInv, [Next]_vars PROVE IInv' OBVIOUS
<1>1. ASSUME NEW m \in Monitors, MonitorStep(m) \/ LinkDrops(m) PROVE IInv'
  BY <1>1, GoroutineOK, SelectOK DEF MonitorStep
<1>2. ASSUME NEW k \in Checks, CheckStep(k) PROVE IInv' BY <1>2, CheckOK
<1>3. ASSUME NEW c \in Conns, FetchStep(c) PROVE IInv'
  BY <1>3, LookOK, RangeOK, BaselineOK, ProcessOK, FullSearchOK, FullScanOK, ReconcileOK DEF FetchStep
<1>4. CASE StopRequest \/ DeleteStops \/ ClearStops \/ UNCHANGED vars BY <1>4, GoroutineOK
<1>. QED BY <1>1, <1>2, <1>3, <1>4, ClearOK, RestartOK, ServerOK DEF Next

\* What a step hides: only ReconcileDeletedLogs hides a row that was shown.
LEMMA HidesOnlyGone ==
    ASSUME IInv, [Next]_vars, NEW u \in mailbox, logs[u] = "shown", logs'[u] = "deleted"
    PROVE  \E c \in Conns : job[c].step = "reconcile" /\ u >= job[c].next
<1>1. TypeOK /\ Handed /\ Numbered /\ SeenIsAll BY DEF IInv
<1>2. u \in Uids /\ u \in Nat BY <1>1, UidsAre DEF TypeOK
<1>3. logs' # logs OBVIOUS
<1>4. ~(DeleteCascade \/ ClearRows) BY <1>2 DEF DeleteCascade, ClearRows
<1>5. ASSUME NEW m \in Monitors PROVE ~MonitorStep(m) /\ ~LinkDrops(m)
  BY <1>3 DEF MonitorStep, StartBegins, StartFails, StartRegisters, SelectFails, MonitorSelects,
     MonitorIdles, MonitorEnds, TimerFires, ReaderBlocks, DebounceFetched, DebounceStops, LinkDrops
<1>6. ASSUME NEW k \in Checks PROVE ~CheckStep(k) BY <1>3 DEF CheckStep, CheckBegins, CheckEnds
<1>7. ~(StopRequest \/ DeleteStops \/ ClearStops \/ Restart \/ MailArrives \/ MailGoes
          \/ UNCHANGED vars)
  BY <1>3 DEF StopRequest, DeleteStops, ClearStops, Restart, MailArrives, MailGoes, vars
<1>8. PICK c \in Conns : FetchStep(c) BY <1>4, <1>5, <1>6, <1>7 DEF Next
<1>9. ~(FetchFails(c) \/ NewSelect(c) \/ NewRange(c) \/ FullSearch(c) \/ FullScan(c)
         \/ FullFallback(c))
  BY <1>3 DEF FetchFails, NewSelect, NewRange, FullSearch, FullScan, FullFallback
<1>10. ~NewBaseline(c) BY <1>1, <1>2 DEF NewBaseline, TypeOK
<1>11. ~ProcessMessage(c) BY <1>1, <1>2 DEF ProcessMessage, Process, TypeOK
<1>12. ReconcileDeletedLogs(c) BY <1>8, <1>9, <1>10, <1>11 DEF FetchStep
<1>13. u \notin job[c].seen BY <1>2, <1>12 DEF ReconcileDeletedLogs, Reconciled
<1>14. job[c].step = "reconcile" /\ job[c].whole BY <1>1, <1>12 DEF ReconcileDeletedLogs, Handed
<1>15. ~(u < job[c].next) BY <1>1, <1>13, <1>14 DEF SeenIsAll
<1>16. u >= job[c].next BY <1>1, <1>2, <1>15, JobFields
<1>. QED BY <1>14, <1>16

-----------------------------------------------------------------------------
(* Theorems *)

\* Registry, goroutines, connections, fetches and table keep their types.
THEOREM EmailTypeCorrect == Spec => []TypeOK
<1>1. IInv => TypeOK BY DEF IInv
<1>. QED BY <1>1, InitOK, NextOK, PTL DEF Spec

\* However StartMonitoring, StopMonitoring, failing connections and restarts
\* interleave, a monitor that GetMonitoringStatus reports has a goroutine.
THEOREM StatusIsTrue == Spec => []RunningIsServed
<1>1. IInv => RunningIsServed BY DEF IInv
<1>. QED BY <1>1, InitOK, NextOK, PTL DEF Spec

\* fetchEmails skips no mail, for any number of monitors and checks that fetch
\* at the same time.
THEOREM NothingIsSkipped == Spec => []NoGap
<1>1. IInv => NoGap
  <2>. SUFFICES ASSUME IInv, ~rough, Logged # {}, NEW u \in mailbox, Min(Logged) <= u, u <= LastUid
                PROVE  u \in Logged \/ \E c \in Conns : u \in job[c].todo
    BY DEF NoGap
  <2>1. Logged \in SUBSET Uids BY DEF Logged
  <2>2. Min(Logged) \in Logged BY <2>1, MinOfUids
  <2>3. LastUid \in Logged BY <2>1, MaxOfUids DEF LastUid
  <2>4. BelowRows BY DEF IInv, Gapless
  <2>5. Safe(u) BY <2>2, <2>3, <2>4 DEF BelowRows, Reached
  <2>. QED BY <2>5 DEF Safe, InFull
<1>. QED BY <1>1, InitOK, NextOK, PTL DEF Spec

\* reconcileDeletedLogs hides a row only if its mail is gone or came later.
THEOREM NothingIsHidden == Spec => ReconcileOnlyGone
<1>1. IInv /\ [Next]_vars =>
        [\A u \in mailbox : logs[u] = "shown" /\ logs'[u] = "deleted" =>
            \E c \in Conns : job[c].step = "reconcile" /\ u >= job[c].next]_vars
  BY HidesOnlyGone
<1>. QED BY <1>1, InitOK, NextOK, PTL DEF Spec, ReconcileOnlyGone
=============================================================================
