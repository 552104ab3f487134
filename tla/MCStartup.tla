----------------------------- MODULE MCStartup -----------------------------
(* Values for the model checker. *)
EXTENDS Startup

MCSources == {"auto", "manual"}

\* The score, of a subject and the number of attachments.
MCScore(t) == (IF t["subject"] # 0 THEN 1 ELSE 0) + t["attachments"]

MCRow(old, new, amount, owner, text, blob) ==
    [old |-> old, new |-> new, amount |-> amount, cents |-> 0, owner |-> owner, text |-> text, blob |-> blob]

\* Less than half a cent, half a cent on both sides of zero, and an amount beyond
\* the largest; rows without an owner, and with one.
MCOldPayments ==
    {MCRow("manual", "", 14, Null, TRUE, Null), MCRow(Null, "", -15, "u2", TRUE, "no"),
     MCRow("auto", "manual", 15, "u2", FALSE, "no"), MCRow("manual", "", 21, "u2", FALSE, "no")}

MCTells(s, n) == [subject |-> s, attachments |-> n]
MCRetold == {MCTells(0, 2), MCTells(2, 0), MCTells(2, 1)}

MCLog(m, s, n) == [message |-> m, tells |-> MCTells(s, n)]

\* Three rows of a message that tell different things, and two without a uid.
MCOldLogs ==
    {<<MCLog("m1", 0, 2), MCLog("m1", 1, n), MCLog("m1", s, 0)>> : n \in {0, 1}, s \in {0, 2}}
    \cup {<<MCLog("m2", 0, 0), MCLog("m2", 0, 0), Null>>, <<MCLog("m1", 1, 0), Null, Null>>}
=============================================================================
