---------------------------- MODULE MCTripLedger ----------------------------
(* Values for the runs of TripLedger. *)
EXTENDS TripLedger, TLC

CONSTANTS t1, t2

MCWindows == {<<0, 1>>, <<1, 2>>}
MCTimes   == {0, 1}

\* Requests of the web client: a trip, no trip, back to automatic, a new time,
\* the bad-debt switch, a confirmation; "auto" together with a cleared trip is
\* what a caller of the API may also send.
NoPatch   == [at |-> Keep, trip |-> Keep, src |-> "keep", bad |-> Keep, confirm |-> FALSE]
MCPatches ==
    {[NoPatch EXCEPT !.trip = t, !.src = s] : t \in {t1, None}, s \in {"keep", "manual"}}
    \cup {[NoPatch EXCEPT !.src = s] : s \in {"auto", "manual", "blocked"}}
    \cup {[NoPatch EXCEPT !.src = "auto", !.trip = None]}
    \cup {[NoPatch EXCEPT !.at = a] : a \in Times}
    \cup {[NoPatch EXCEPT !.bad = b] : b \in BOOLEAN}
    \cup {[NoPatch EXCEPT !.confirm = TRUE, !.at = 1]}
\* The user's tabs are alike: safety only, so symmetry is sound.
Tabs == Permutations(Clients)
=============================================================================
