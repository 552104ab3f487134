------------------------------- MODULE Startup -------------------------------
(* The start of the server over a database of an earlier version            *)
(* (cmd/server/main.go, internal/migrations, email_log_migrations.go,       *)
(* email_config_migrations.go, email_password_crypto.go): columns are       *)
(* added, the migrations run in a transaction each, duplicate e-mail logs   *)
(* are merged before their unique index is made, and passwords are          *)
(* encrypted with a key that may first have to be made.                     *)
(*                                                                          *)
(* The process may be killed between any two steps, and a statement may     *)
(* fail: it ends the start, except while logs are merged, where it is       *)
(* logged only.  Amounts are in thousandths, the float column being finer   *)
(* than cents; infinities are amounts out of range, and NaN, which SQLite   *)
(* stores as NULL, is no amount.  SBM_EMAIL_PASSWORD_KEY is not set, and    *)
(* nobody else touches the key file.                                        *)
EXTENDS Integers, FiniteSets, FiniteSetsExt

CONSTANTS
    PaymentIds,       \* rows of payments
    Sources,        \* what an assignment may say, "auto" among it
    Owners,         \* users there may be
    First,          \* the oldest of them
    Messages,       \* owner, mailbox and uid of e-mail logs
    Unnumbered,     \* those with uid 0, from before there were uids
    Logs,           \* ids of log rows, by their age
    Fields,         \* columns of a log row
    Counted,        \* those that are numbers: a larger one tells more
    Tellings,       \* what may stand in a column, 0 if it is empty
    Retold,         \* what a message may tell that is logged once more
    Score(_),       \* of a row that tells this
    MaxCents,       \* maxSafeCents
    Configs,        \* e-mail configurations
    Keys,           \* keys that may be made
    Null,
    OldPayments,    \* rows and tables an earlier version may have left
    OldLogs,
    MaxMishaps      \* bound on kills and failing statements

ASSUME SourcesAssumption == "auto" \in Sources /\ {Null, ""} \cap Sources = {}
ASSUME OwnersAssumption == First \in Owners /\ {Null, "no"} \cap Owners = {} /\ Null # "no"
ASSUME LogsAssumption == Logs \subseteq Nat /\ IsFiniteSet(Logs) /\ Null \notin Messages
ASSUME FieldsAssumption == Counted \subseteq Fields /\ 0 \in Tellings /\ Tellings \subseteq Nat
                           /\ Retold \subseteq [Fields -> Tellings]
ASSUME ScoreAssumption == \A t \in [Fields -> Tellings] : Score(t) \in Nat
ASSUME MoneyAssumption == MaxCents \in Nat
ASSUME KeysAssumption == {"plain", "empty", "bad", Null} \cap Keys = {} /\ Null # "empty"
ASSUME BoundsAssumption == MaxMishaps \in Nat

\* old, new: columns trip_assign_src and trip_assignment_source; text: there is
\* OCR text in the row; blob: the owner of its row of payment_ocr_blobs, or "no".
PaymentRow == [old: Sources \cup {Null}, new: Sources \cup {""}, amount: Int, cents: Int,
               owner: Owners \cup {Null}, text: BOOLEAN, blob: Owners \cup {Null, "no"}]
LogRow == [message: Messages, tells: [Fields -> Tellings]]

ASSUME OldRowsAssumption ==
    /\ OldPayments \subseteq PaymentRow
    /\ OldLogs \subseteq [Logs -> LogRow \cup {Null}] /\ Null \notin LogRow

VARIABLES
    pc,         \* where the start is, "down" or "serve"
    columns,    \* which of "old" and "new" the table payments has
    pay,        \* table payments
    users,      \* there are users
    applied,    \* table schema_migrations
    twins,      \* an invoice is linked twice, or two samples share a text
    logs,       \* table email_logs
    index,      \* its unique index is there
    groups,     \* duplicates this start has found and not yet merged
    hand,       \* the duplicate it merges, and whether its UPDATE took effect
    mail,       \* passwords: none, "plain", or encrypted with a key
    file,       \* the key file
    key,        \* the key in memory, "bad" after an error
    mishaps

startVars == <<pc, columns, pay, users, applied, twins, logs, index, groups, hand, mail, file, key, mishaps>>
ledger == <<columns, pay, users, applied, twins>>
mailLogs == <<logs, index, groups, hand>>
secrets == <<mail, file, key>>

Points == {"down", "schema", "versions", "legacy", "money", "find", "merge", "drop", "index",
           "encrypt", "create", "write", "listen", "serve"}
NoHand == [message |-> Null, keep |-> 0, ok |-> TRUE]

StartTypeOK ==
    /\ pc \in Points
    /\ columns \subseteq {"old", "new"}
    /\ pay \in [PaymentIds -> PaymentRow]
    /\ users \in BOOLEAN
    /\ applied \subseteq {1, 2, 3}
    /\ twins \in BOOLEAN
    /\ logs \in [Logs -> LogRow \cup {Null}]
    /\ index \in BOOLEAN
    /\ groups \subseteq Messages
    /\ hand \in [message: Messages \cup {Null}, keep: Nat, ok: BOOLEAN]
    /\ mail \in [Configs -> Keys \cup {"plain", Null}]
    /\ file \in Keys \cup {"empty", Null}
    /\ key \in Keys \cup {"bad", Null}
    /\ mishaps \in 0 .. MaxMishaps

\* What earlier versions, or a later one, may have left.
StartInit ==
    /\ pc = "down"
    /\ columns \in SUBSET {"old", "new"}
    /\ pay \in [PaymentIds -> OldPayments]
    /\ users \in BOOLEAN
    /\ applied \in {{}, {1, 2, 3}}
    /\ twins \in BOOLEAN
    /\ logs \in OldLogs
    /\ index = FALSE /\ groups = {} /\ hand = NoHand
    /\ mail \in [Configs -> {"plain", Null}]
    /\ file = Null /\ key = Null
    /\ mishaps = 0

------------------------------------------------------------------------------
Goes(from, to) == pc = from /\ pc' = to
Mishap == mishaps < MaxMishaps /\ mishaps' = mishaps + 1

Launch ==
    /\ Goes("down", "schema")
    /\ key' = Null
    /\ groups' = {} /\ hand' = NoHand
    /\ UNCHANGED <<ledger, logs, index, mail, file, mishaps>>

\* A kill, a signal, or the error of a step that returns one: the next start
\* begins anew.
Exit ==
    /\ pc' = "down"
    /\ UNCHANGED <<ledger, mailLogs, secrets>>

Killed == pc # "down" /\ Mishap /\ Exit
Stops  == pc = "serve" /\ Exit /\ UNCHANGED mishaps

\* AutoMigrate: the rows that are there get the default of a new column.
MigrateSchema ==
    /\ Goes("schema", "versions")
    /\ columns' = columns \cup {"new"}
    /\ pay' = IF "new" \in columns THEN pay ELSE [p \in PaymentIds |-> [pay[p] EXCEPT !.new = "auto"]]
    /\ UNCHANGED <<users, applied, twins, mailLogs, secrets, mishaps>>

\* A database of a later version is refused.
Latest == 2

Versions ==
    /\ pc = "versions"
    /\ pc' = CASE \E v \in applied : v > Latest -> "down"
               [] applied = {} -> "legacy"
               [] applied = {1} -> "money"
               [] OTHER -> "find"
    /\ UNCHANGED <<ledger, mailLogs, secrets, mishaps>>

\* A source that is empty is copied from the old column.
SourceOf(r) ==
    IF r.new # "" \/ "old" \notin columns THEN r.new
    ELSE IF r.old # Null THEN r.old ELSE "auto"

\* Rows without an owner go to the first user, those of an OCR text to the
\* owner of their payment.
OwnerOf(r) == IF r.owner = Null /\ users THEN First ELSE r.owner
BlobOwnerOf(r) == IF r.blob = Null /\ users THEN OwnerOf(r) ELSE r.blob

\* OCR text that has no row of its own yet gets one.
Legacy(r) ==
    [r EXCEPT !.new = SourceOf(r), !.owner = OwnerOf(r),
              !.blob = IF r.blob = "no" /\ r.text THEN OwnerOf(r) ELSE BlobOwnerOf(r)]

\* In one transaction; the unique indexes fail for rows that violate them.
MigrateLegacy ==
    /\ pc = "legacy"
    /\ IF twins
       THEN pc' = "down" /\ UNCHANGED <<pay, applied>>
       ELSE /\ pc' = "money"
            /\ pay' = [p \in PaymentIds |-> Legacy(pay[p])]
            /\ applied' = applied \cup {1}
    /\ UNCHANGED <<columns, users, twins, mailLogs, secrets, mishaps>>

\* Half a cent goes away from zero, and what cannot be told exactly in cents is
\* refused.
Representable(amount) == -(10 * MaxCents) <= amount /\ amount <= 10 * MaxCents
FromMajor(amount) == IF amount >= 0 THEN (amount + 5) \div 10 ELSE -((5 - amount) \div 10)
ToMajor(cents) == cents * 10

InCents(r) == [r EXCEPT !.amount = ToMajor(FromMajor(r.amount)), !.cents = FromMajor(r.amount)]
\* validateMoneyColumns, of the rows that were written.
Valid(r) == Representable(r.amount) /\ FromMajor(r.amount) = r.cents

\* Mutant: the amount that the cents were made from is kept.
MigrateMoney_centsOnly ==
    /\ pc = "money"
    /\ IF \A p \in PaymentIds : Representable(pay[p].amount)
       THEN /\ pc' = "find"
            /\ pay' = [p \in PaymentIds |-> [pay[p] EXCEPT !.cents = FromMajor(pay[p].amount)]]
            /\ applied' = applied \cup {2}
       ELSE pc' = "down" /\ UNCHANGED <<pay, applied>>
    /\ UNCHANGED <<columns, users, twins, mailLogs, secrets, mishaps>>

\* One amount that is refused, by the conversion or afterwards, fails the
\* transaction, and does so at every start.
MigrateMoney ==
    /\ pc = "money"
    /\ IF \A p \in PaymentIds : Representable(pay[p].amount) /\ Valid(InCents(pay[p]))
       THEN /\ pc' = "find"
            /\ pay' = [p \in PaymentIds |-> InCents(pay[p])]
            /\ applied' = applied \cup {2}
       ELSE pc' = "down" /\ UNCHANGED <<pay, applied>>
    /\ UNCHANGED <<columns, users, twins, mailLogs, secrets, mishaps>>

\* A statement of a migration fails, or the indexes do: nothing is kept.
MigrationFails ==
    /\ pc \in {"schema", "versions", "legacy", "money"}
    /\ Mishap /\ Exit

------------------------------------------------------------------------------
(* EnsureEmailLogUniqueIndex.                                              *)

KeptLogs == {l \in Logs : logs[l] # Null}
RowsOf(m) == {l \in KeptLogs : logs[l].message = m}
Duplicates == {m \in Messages : Cardinality(RowsOf(m)) > 1}

\* Rows without a uid are not told apart, and left alone.
FindDuplicates ==
    /\ Goes("find", "merge")
    /\ \/ groups' = Duplicates \ Unnumbered /\ UNCHANGED mishaps
       \/ Mishap /\ groups' = {}
    /\ UNCHANGED <<ledger, logs, index, hand, secrets>>

\* The rows of a duplicate cannot be read: it is left as it is.
PassesOver(m) ==
    /\ pc = "merge" /\ m \in groups
    /\ Mishap
    /\ groups' = groups \ {m}
    /\ UNCHANGED <<pc, ledger, logs, index, hand, secrets>>

\* The row that tells most, the younger one of two.
Best(m) ==
    CHOOSE l \in RowsOf(m) :
        \A k \in RowsOf(m) \ {l} :
            \/ Score(logs[k].tells) < Score(logs[l].tells)
            \/ Score(logs[k].tells) = Score(logs[l].tells) /\ k < l

\* An empty column is filled with what the youngest of the other rows says that
\* says anything, and a number is the largest one.  What else the others say is
\* not kept.
Told(m, f) == {logs[l].tells[f] : l \in RowsOf(m)} \ {0}
OtherRows(m, f) == {l \in RowsOf(m) \ {Best(m)} : logs[l].tells[f] # 0}

Merged(m) ==
    [f \in Fields |->
        IF f \in Counted THEN Max(Told(m, f) \cup {0})
        ELSE IF logs[Best(m)].tells[f] = 0 /\ OtherRows(m, f) # {} THEN logs[Max(OtherRows(m, f))].tells[f]
        ELSE logs[Best(m)].tells[f]]

\* Mutant: the best row is kept as it is.
MergeUpdate_bare(m) ==
    /\ pc = "merge" /\ m \in groups
    /\ hand' = [message |-> m, keep |-> Best(m), ok |-> TRUE]
    /\ UNCHANGED <<logs, mishaps>>
    /\ pc' = "drop"
    /\ UNCHANGED <<ledger, index, groups, secrets>>

\* If the UPDATE fails, the others are deleted all the same.
MergeUpdate(m) ==
    /\ pc = "merge" /\ m \in groups
    /\ \/ /\ logs' = [logs EXCEPT ![Best(m)].tells = Merged(m)]
          /\ hand' = [message |-> m, keep |-> Best(m), ok |-> TRUE]
          /\ UNCHANGED mishaps
       \/ /\ Mishap /\ Merged(m) # logs[Best(m)].tells
          /\ hand' = [message |-> m, keep |-> Best(m), ok |-> FALSE]
          /\ UNCHANGED logs
    /\ pc' = "drop"
    /\ UNCHANGED <<ledger, index, groups, secrets>>

MergeDelete ==
    /\ Goes("drop", "merge")
    /\ \/ /\ logs' = [l \in Logs |->
                        IF l \in RowsOf(hand.message) \ {hand.keep} THEN Null ELSE logs[l]]
          /\ UNCHANGED mishaps
       \/ Mishap /\ UNCHANGED logs
    /\ groups' = groups \ {hand.message}
    /\ hand' = NoHand
    /\ UNCHANGED <<ledger, index, secrets>>

MergeEnds ==
    /\ groups = {} /\ Goes("merge", "index")
    /\ UNCHANGED <<ledger, mailLogs, secrets, mishaps>>

\* Mutant: the error is returned, as those of the migrations are.
MakeIndex_strict ==
    /\ pc = "index"
    /\ IF Duplicates = {} THEN pc' = "encrypt" /\ index' = TRUE ELSE pc' = "down" /\ UNCHANGED index
    /\ UNCHANGED mishaps
    /\ UNCHANGED <<ledger, logs, groups, hand, secrets>>

\* Without it, if rows are in its way or the statement fails, the server starts
\* all the same.
MakeIndex ==
    /\ Goes("index", "encrypt")
    /\ \/ index' = (index \/ Duplicates = {}) /\ UNCHANGED mishaps
       \/ Mishap /\ UNCHANGED index
    /\ UNCHANGED <<ledger, logs, groups, hand, secrets>>

------------------------------------------------------------------------------
(* Passwords and their key.  The start asks for it and, later, a request    *)
(* that saves a configuration.                                              *)

Plain == {c \in Configs : mail[c] = "plain"}

\* getEmailPasswordKey, once in the life of a process.
LoadKey ==
    /\ key = Null /\ (pc = "serve" \/ (pc = "encrypt" /\ Plain # {}))
    /\ CASE file \in Keys -> key' = file /\ UNCHANGED pc
         [] file = "empty" -> key' = "bad" /\ UNCHANGED pc
         [] file = Null -> pc' = "create" /\ UNCHANGED key
    /\ UNCHANGED <<ledger, mailLogs, mail, file, mishaps>>

\* The start goes on with the passwords; once it serves, none is plain.
Resumes == IF Plain = {} THEN "serve" ELSE "encrypt"

\* WriteFile makes the file first, and fills it then.
CreateKeyFile ==
    /\ pc = "create"
    /\ \/ pc' = "write" /\ file' = "empty" /\ UNCHANGED <<key, mishaps>>
       \/ Mishap /\ pc' = Resumes /\ key' = "bad" /\ UNCHANGED file
    /\ UNCHANGED <<ledger, mailLogs, mail>>

\* Mutant: the key is used whether or not its file could be written.
WriteKeyFile_unsure ==
    /\ pc = "write"
    /\ \/ \E k \in Keys : k \notin {mail[c] : c \in Configs} /\ file' = k /\ key' = k /\ UNCHANGED mishaps
       \/ \E k \in Keys : Mishap /\ key' = k /\ UNCHANGED file
    /\ pc' = Resumes
    /\ UNCHANGED <<ledger, mailLogs, mail>>

\* The key is random.
WriteKeyFile ==
    /\ pc = "write"
    /\ \/ \E k \in Keys : k \notin {mail[c] : c \in Configs} /\ file' = k /\ key' = k /\ UNCHANGED mishaps
       \/ Mishap /\ key' = "bad" /\ UNCHANGED file
    /\ pc' = Resumes
    /\ UNCHANGED <<ledger, mailLogs, mail>>

\* One row after the other, and the first error ends the start.
EncryptLegacy(c) ==
    /\ pc = "encrypt" /\ c \in Plain /\ key # Null
    /\ IF key = "bad"
       THEN pc' = "down" /\ UNCHANGED <<mail, mishaps>>
       ELSE \/ mail' = [mail EXCEPT ![c] = key] /\ UNCHANGED <<pc, mishaps>>
            \/ Mishap /\ pc' = "down" /\ UNCHANGED mail
    /\ UNCHANGED <<ledger, mailLogs, file, key>>

EncryptEnds ==
    /\ Plain = {} /\ Goes("encrypt", "listen")
    /\ UNCHANGED <<ledger, mailLogs, secrets, mishaps>>

ListenAndServe ==
    /\ Goes("listen", "serve")
    /\ UNCHANGED <<ledger, mailLogs, secrets, mishaps>>

\* The port is taken.
ListenFails == pc = "listen" /\ Mishap /\ Exit

SaveConfig(c) ==
    /\ pc = "serve" /\ key \in Keys
    /\ mail' = [mail EXCEPT ![c] = key]
    /\ UNCHANGED <<pc, ledger, mailLogs, file, key, mishaps>>

\* Two fetches log one message, where no index prevents it.
LogTwice(m) ==
    /\ pc = "serve" /\ ~index
    /\ \E l \in Logs \ KeptLogs, t \in Retold :
         /\ RowsOf(m) # {} /\ \A k \in KeptLogs : k < l
         /\ logs' = [logs EXCEPT ![l] = [message |-> m, tells |-> t]]
    /\ UNCHANGED <<pc, ledger, index, groups, hand, secrets, mishaps>>

------------------------------------------------------------------------------
Step ==
    \/ Launch \/ MigrateSchema \/ Versions \/ MigrateLegacy \/ MigrateMoney
    \/ FindDuplicates \/ (\E m \in Messages : MergeUpdate(m)) \/ MergeDelete \/ MergeEnds \/ MakeIndex
    \/ LoadKey \/ CreateKeyFile \/ WriteKeyFile
    \/ (\E c \in Configs : EncryptLegacy(c)) \/ EncryptEnds \/ ListenAndServe

StartNext ==
    \/ Step \/ Killed \/ Stops \/ MigrationFails \/ ListenFails
    \/ \E c \in Configs : SaveConfig(c)
    \/ \E m \in Messages : LogTwice(m) \/ PassesOver(m)

\* The supervisor starts the process again, and the process goes on.
StartSpec == StartInit /\ [][StartNext]_startVars /\ WF_startVars(Step)

------------------------------------------------------------------------------
(* Properties.                                                             *)

\* A password that was encrypted can be read again after any sequence of kills
\* and errors: its key is the one in the key file, and no other key takes the
\* place of that one.
PasswordsStayReadable ==
    \A c \in Configs : mail[c] \in Keys => file = mail[c]

\* However often the process is killed while it merges duplicates, a column that
\* told something of a message keeps telling one of the things it told, a number
\* none that is smaller, and no text is written over in a row that stays.  Where
\* rows disagree, the others' word goes with them (only what is missing is
\* merged).  A merge whose UPDATE has failed is not held to this.
WhatWasToldIsTold ==
    [][\A m \in Messages, f \in Fields :
         \/ hand.message = m /\ ~hand.ok
         \/ /\ \A v \in Told(m, f) : \E w \in Told(m, f) \cap Told(m, f)' : f \in Counted => v <= w
            /\ \A l \in RowsOf(m) :
                 logs'[l] # Null /\ logs[l].tells[f] # 0 =>
                   \/ logs'[l].tells[f] = logs[l].tells[f]
                   \/ f \in Counted /\ logs'[l].tells[f] > logs[l].tells[f]]_startVars

\* Requests are served only when the migrations are applied and no password is
\* plain, every payment has an amount that agrees with its cents, a source if
\* there was an old one, and, if there were users, an owner as its OCR text has.
ServedIsComplete ==
    pc = "serve" =>
        /\ applied = {1, 2} /\ Plain = {}
        /\ \A p \in PaymentIds :
             /\ "old" \in columns => pay[p].new # ""
             /\ pay[p].amount = ToMajor(pay[p].cents)
             /\ pay[p].text => pay[p].blob # "no"
             /\ users => Null \notin {pay[p].owner, pay[p].blob}

\* The server comes up over the tables of an earlier version, but for a newer
\* database, rows the migrations cannot index, an amount they refuse, and a key
\* file that was left empty.
ComesUp ==
    (applied # {1, 2, 3} /\ ~twins /\ \A p \in PaymentIds : Representable(pay[p].amount))
        ~> (pc = "serve" \/ (file = "empty" /\ Plain # {}))

\* A decision that stands in the old column only is still there when requests
\* are served (migrations_test.go tests that it is moved to the new one).
DecisionsAreMoved ==
    \A p \in PaymentIds, s \in Sources :
        (columns = {"old"} /\ pay[p].old = s) => [](pc = "serve" => pay[p].new = s)
=============================================================================
