------------------------------- MODULE OcrCalls -------------------------------
(****************************************************************************)
(* Recognition calls and the resident Python worker they share              *)
(* (services/ocr_worker.go, services/limits.go, recognizeWithRapidOCRArgs   *)
(* in services/ocr.go, scripts/ocr_worker.py): a slot of the limiter, the   *)
(* mutex of the worker, one line to its stdin and one line from its stdout, *)
(* and the command-line script where that fails.                            *)
(*                                                                          *)
(* The Python process runs by itself: it may answer late, print lines of    *)
(* its own, hang or die at any moment, between any two looks of the server. *)
(* A call is made once and its id is that of its request.  The text that is *)
(* recognised is named after the call whose image was read.                 *)
(****************************************************************************)
EXTENDS Naturals, Sequences, FiniteSets

CONSTANTS
    Calls,      \* calls of recognizeWithRapidOCRArgs, and ids of requests
    Slots,      \* SBM_LIMIT_OCR
    EveryN,     \* SBM_OCR_WORKER_RESTART_EVERY_N
    MaxNoise,   \* bound on the lines that answer nothing
    None

ASSUME CallBounds == Slots \in Nat \ {0} /\ EveryN \in Nat \ {0} /\ MaxNoise \in Nat
ASSUME NoneAssumption == None \notin Calls

VARIABLES
    call,       \* the calls
    mutex,      \* the call that holds the mutex of the worker
    known,      \* the server has a process: cmd, stdin, stdout and waitCh are set
    reqCount,   \* requests written to it
    exit,       \* its exit: "none", "sent" to waitCh, or "taken" from there
    stdin,      \* requests the process has not answered
    stdout,     \* lines the server has not read
    alive,      \* the process runs
    noise,      \* how many lines without an answer there have been
    stop        \* StopOCRWorker: "no", "waits", "done"

callsVars == <<call, mutex, known, reqCount, exit, stdin, stdout, alive, noise, stop>>
process == <<known, reqCount, exit, stdin, stdout, alive>>

\* late: the minute of the call's context is over.
Points == {"idle", "slot", "lock", "start", "look", "write", "read", "cli", "done"}
CallState == [pc: Points, late: BOOLEAN, text: Calls \cup {None}]

\* A line names the request it answers, or none.
Lines == [of: Calls \cup {None}, ok: BOOLEAN]
Noise == [of |-> None, ok |-> FALSE]

CallsTypeOK ==
    /\ call \in [Calls -> CallState]
    /\ mutex \in Calls \cup {None}
    /\ known \in BOOLEAN /\ alive \in BOOLEAN
    /\ reqCount \in 0 .. EveryN
    /\ exit \in {"none", "sent", "taken"}
    /\ stdin \in Seq(Calls) /\ stdout \in Seq(Lines)
    /\ noise \in 0 .. MaxNoise
    /\ stop \in {"no", "waits", "done"}

CallsInit ==
    /\ call = [k \in Calls |-> [pc |-> "idle", late |-> FALSE, text |-> None]]
    /\ mutex = None /\ known = FALSE /\ reqCount = 0 /\ exit = "none"
    /\ stdin = <<>> /\ stdout = <<>> /\ alive = FALSE
    /\ noise = 0 /\ stop = "no"

------------------------------------------------------------------------------
At(k, pc) == call[k].pc = pc
Goes(k, pc) == call' = [call EXCEPT ![k].pc = pc]
Ends(k, text) == call' = [call EXCEPT ![k].pc = "done", ![k].text = text]

\* The deferred release of a slot comes last.
Holding == {k \in Calls : call[k].pc \notin {"idle", "slot", "done"}}

\* Kill and forget: what is still in the pipes is lost with them.
StopLocked ==
    /\ known' = FALSE /\ alive' = FALSE /\ reqCount' = 0 /\ exit' = "none"
    /\ stdin' = <<>> /\ stdout' = <<>>

\* The worker gave no result: the mutex is released, the script is next.
FallsBack(k) == Goes(k, "cli") /\ mutex' = None

------------------------------------------------------------------------------
(* The call outside of the worker.                                          *)

CallBegins(k) ==
    /\ At(k, "idle")
    /\ Goes(k, "slot")
    /\ UNCHANGED <<mutex, process, noise, stop>>

ContextExpires(k) ==
    /\ call[k].pc \notin {"idle", "done"} /\ ~call[k].late
    /\ call' = [call EXCEPT ![k].late = TRUE]
    /\ UNCHANGED <<mutex, process, noise, stop>>

\* If a slot is free and the context over, either may be noticed.
AcquireSlot(k) ==
    /\ At(k, "slot") /\ Cardinality(Holding) < Slots
    /\ Goes(k, "lock")
    /\ UNCHANGED <<mutex, process, noise, stop>>

SlotRefused(k) ==
    /\ At(k, "slot") /\ call[k].late
    /\ Ends(k, None)
    /\ UNCHANGED <<mutex, process, noise, stop>>

\* The script runs under the context of the call.
RunsCli(k) ==
    /\ At(k, "cli")
    /\ \/ ~call[k].late /\ Ends(k, k)
       \/ Ends(k, None)
    /\ UNCHANGED <<mutex, process, noise, stop>>

------------------------------------------------------------------------------
(* recognizeLocked.                                                         *)

Lock(k) ==
    /\ At(k, "lock") /\ mutex = None
    /\ mutex' = k
    /\ Goes(k, "start")
    /\ UNCHANGED <<process, noise, stop>>

\* A new process, or none if Python cannot be run.
Starts(k) ==
    /\ reqCount' = 0 /\ exit' = "none" /\ stdin' = <<>> /\ stdout' = <<>>
    /\ \/ known' = TRUE /\ alive' = TRUE /\ Goes(k, "write") /\ UNCHANGED mutex
       \/ known' = FALSE /\ alive' = FALSE /\ FallsBack(k)

\* isRunningLocked takes the exit from the channel if it is there.
EnsureStarted(k) ==
    /\ At(k, "start")
    /\ IF known /\ exit # "sent"
       THEN Goes(k, "look") /\ UNCHANGED <<process, mutex>>
       ELSE Starts(k)
    /\ UNCHANGED <<noise, stop>>

\* It looks once more, and what has ended in between is no reason to restart.
ShouldRestart(k) ==
    /\ At(k, "look")
    /\ CASE exit = "sent" -> exit' = "taken" /\ Goes(k, "write")
                             /\ UNCHANGED <<known, reqCount, stdin, stdout, alive, mutex>>
         [] exit # "sent" /\ reqCount >= EveryN -> Starts(k)
         [] OTHER -> Goes(k, "write") /\ UNCHANGED <<process, mutex>>
    /\ UNCHANGED <<noise, stop>>

Write(k) ==
    /\ At(k, "write") /\ alive
    /\ reqCount' = reqCount + 1
    /\ stdin' = Append(stdin, k)
    /\ Goes(k, "read")
    /\ UNCHANGED <<mutex, known, exit, stdout, alive, noise, stop>>

\* Mutant: the process is kept when the write fails.
WriteFails_kept(k) ==
    /\ At(k, "write") /\ ~alive
    /\ FallsBack(k)
    /\ UNCHANGED <<process, noise, stop>>

WriteFails(k) ==
    /\ At(k, "write") /\ ~alive
    /\ StopLocked
    /\ FallsBack(k)
    /\ UNCHANGED <<noise, stop>>

\* Mutant: any line is the answer.
Answers_any(k, line) == line.of # None /\ line.ok

\* The line is JSON, carries the id of the request, and says success.
Answers(k, line) == line.of = k /\ line.ok

\* Any other line is an error, but the process stays.
Read(k) ==
    /\ At(k, "read") /\ stdout # <<>>
    /\ stdout' = Tail(stdout)
    /\ IF Answers(k, Head(stdout))
       THEN Ends(k, Head(stdout).of) /\ mutex' = None
       ELSE FallsBack(k)
    /\ UNCHANGED <<known, reqCount, exit, stdin, alive, noise, stop>>

\* End of file; cmd.Wait closes the pipe even if a line is left in it.
ReadError(k) ==
    /\ At(k, "read") /\ ~alive /\ (stdout = <<>> \/ exit # "none")
    /\ StopLocked
    /\ FallsBack(k)
    /\ UNCHANGED <<noise, stop>>

\* Mutant: the late process is kept to save its start.
ReadTimeout_kept(k) ==
    /\ At(k, "read") /\ call[k].late
    /\ FallsBack(k)
    /\ UNCHANGED <<process, noise, stop>>

\* Mutant: the line is waited for.
ReadTimeout_never(k) ==
    /\ At(k, "read") /\ call[k].late /\ ~alive
    /\ StopLocked
    /\ FallsBack(k)
    /\ UNCHANGED <<noise, stop>>

\* Seventy seconds for the line; the context of the call has sixty in all.
ReadTimeout(k) ==
    /\ At(k, "read") /\ call[k].late
    /\ StopLocked
    /\ FallsBack(k)
    /\ UNCHANGED <<noise, stop>>

------------------------------------------------------------------------------
(* StopOCRWorker, when the server shuts down.                               *)

StopBegins ==
    /\ stop = "no"
    /\ stop' = "waits"
    /\ UNCHANGED <<call, mutex, process, noise>>

StopEnds ==
    /\ stop = "waits" /\ mutex = None
    /\ StopLocked
    /\ stop' = "done"
    /\ UNCHANGED <<call, mutex, noise>>

------------------------------------------------------------------------------
(* The process: scripts/ocr_worker.py and what it loads.                    *)

\* One line for every request, whatever goes wrong with it.
PythonAnswers ==
    /\ alive /\ stdin # <<>>
    /\ \E ok \in BOOLEAN : stdout' = Append(stdout, [of |-> Head(stdin), ok |-> ok])
    /\ stdin' = Tail(stdin)
    /\ UNCHANGED <<call, mutex, known, reqCount, exit, alive, noise, stop>>

\* A library prints to stdout, if its output is not suppressed.
PythonPrints ==
    /\ alive /\ noise < MaxNoise
    /\ stdout' = Append(stdout, Noise)
    /\ noise' = noise + 1
    /\ UNCHANGED <<call, mutex, known, reqCount, exit, stdin, alive, stop>>

PythonDies ==
    /\ alive
    /\ alive' = FALSE
    /\ UNCHANGED <<call, mutex, known, reqCount, exit, stdin, stdout, noise, stop>>

\* The goroutine in cmd.Wait sends the exit.
WaitReturns ==
    /\ known /\ ~alive /\ exit = "none"
    /\ exit' = "sent"
    /\ UNCHANGED <<call, mutex, known, reqCount, stdin, stdout, alive, noise, stop>>

------------------------------------------------------------------------------
\* What the server does by itself once a call has begun.
CallGoesOn(k) ==
    \/ ContextExpires(k) \/ AcquireSlot(k) \/ SlotRefused(k) \/ RunsCli(k)
    \/ Lock(k) \/ EnsureStarted(k) \/ ShouldRestart(k) \/ Write(k) \/ WriteFails(k)
    \/ Read(k) \/ ReadError(k) \/ ReadTimeout(k)

CallsNext ==
    \/ \E k \in Calls : CallBegins(k) \/ CallGoesOn(k)
    \/ StopBegins \/ StopEnds
    \/ PythonAnswers \/ PythonPrints \/ PythonDies \/ WaitReturns

CallsSpec == CallsInit /\ [][CallsNext]_callsVars

\* Goroutines and timers run; nothing is assumed of the process.
FairCalls ==
    /\ CallsSpec
    /\ \A k \in Calls : WF_callsVars(CallGoesOn(k))
    /\ WF_callsVars(StopEnds)

------------------------------------------------------------------------------
(* Properties.                                                              *)

\* A call never returns the text of another image: a late answer, one that
\* was left in the pipe by a call before, or a line of a library is not taken
\* for its own.
AnswersMatch ==
    \A k \in Calls : call[k].text \in {k, None}

\* A dead process is not taken for a running one for good: its exit is in the
\* channel once, and whoever takes it from there has replaced or forgotten the
\* process when it gives the mutex back, even if the exit came between the two
\* looks of ensureStartedLocked.
NoZombie ==
    exit = "taken" => mutex # None

\* When nobody uses the worker the pipes hold no more answers to come than
\* lines were printed that answer nothing: errors, timeouts and restarts leave
\* nothing behind that a later call would read.
NothingLeft ==
    mutex = None =>
        Len(stdin) + Cardinality({i \in DOMAIN stdout : stdout[i].of # None}) <= noise

\* Every call ends, and so does the shutdown that waits for the mutex, though
\* the process may hang, whatever it owes.
CallsEnd ==
    /\ \A k \in Calls : At(k, "slot") ~> At(k, "done")
    /\ stop = "waits" ~> stop = "done"
=============================================================================
