------------------------------ MODULE StartProofs ------------------------------
(* Proofs about what a start finds and what becomes of it: the tables of an *)
(* earlier version (Startup), for any such tables and any number of kills   *)
(* and failing statements, and the samples of the repository                *)
(* (RegressionSamples), for any records, files, rows, texts and marks in    *)
(* flight.                                                                  *)
EXTENDS Startup, RegressionSamples, FiniteSetTheorems, TLAPS

Assumptions == SourcesAssumption /\ OwnersAssumption /\ KeysAssumption /\ OldRowsAssumption

-----------------------------------------------------------------------------
(* The key and the passwords. *)

SecretTypes ==
    /\ mail \in [Configs -> Keys \cup {"plain", Null}]
    /\ file \in Keys \cup {"empty", Null}
    /\ key \in Keys \cup {"bad", Null}

\* The key in memory is the one in the file, and while there is none a process
\* is about to make it.
KeyIsFiled == key \in Keys => file = key
KeyIsMade ==
    /\ pc = "create" => file = Null /\ key = Null
    /\ pc = "write" => file = "empty" /\ key = Null

\* No password is plain any more when the server listens.
PlainIsGone == pc \in {"listen", "serve"} => Plain = {}

SecretInv == SecretTypes /\ KeyIsFiled /\ KeyIsMade /\ PasswordsStayReadable /\ PlainIsGone

LEMMA SecretInit == StartInit => SecretInv
BY KeysAssumption DEF StartInit, SecretInv, SecretTypes, KeyIsFiled, KeyIsMade, PasswordsStayReadable, PlainIsGone

\* Steps that leave the passwords, the file and, but for a launch, the key.
LEMMA SecretAside ==
    ASSUME SecretInv, UNCHANGED <<mail, file>>, key' = key \/ key' = Null,
           pc' \notin {"create", "write"}, pc' \in {"listen", "serve"} => Plain = {}
    PROVE  SecretInv'
BY KeysAssumption
   DEF SecretInv, SecretTypes, KeyIsFiled, KeyIsMade, PasswordsStayReadable, PlainIsGone, Plain

LEMMA SecretLoad ==
    ASSUME SecretInv, LoadKey
    PROVE  SecretInv'
<1>. USE KeysAssumption
<1>1. UNCHANGED mail /\ UNCHANGED file /\ key = Null BY DEF LoadKey
<1>2. CASE file \in Keys
  <2>1. key' = file /\ pc' = pc /\ pc \notin {"create", "write"} BY <1>2 DEF LoadKey
  <2>. QED BY <1>1, <1>2, <2>1
        DEF SecretInv, SecretTypes, KeyIsFiled, KeyIsMade, PasswordsStayReadable, PlainIsGone, Plain
<1>3. CASE file = "empty"
  <2>1. key' = "bad" /\ pc' = pc /\ pc \notin {"create", "write"} BY <1>3 DEF LoadKey
  <2>. QED BY <1>1, <1>3, <2>1
        DEF SecretInv, SecretTypes, KeyIsFiled, KeyIsMade, PasswordsStayReadable, PlainIsGone, Plain
<1>4. CASE file = Null /\ file # "empty"
  <2>1. key' = key /\ pc' = "create" BY <1>4 DEF LoadKey
  <2>. QED BY <1>1, <1>4, <2>1
        DEF SecretInv, SecretTypes, KeyIsFiled, KeyIsMade, PasswordsStayReadable, PlainIsGone, Plain
<1>. QED BY <1>2, <1>3, <1>4 DEF SecretInv, SecretTypes

\* The file is made and filled before the key is used.
LEMMA SecretMake ==
    ASSUME SecretInv, CreateKeyFile \/ WriteKeyFile
    PROVE  SecretInv'
<1>. USE KeysAssumption
<1>1. UNCHANGED mail /\ Plain' = Plain BY DEF CreateKeyFile, WriteKeyFile, Plain
<1>2. \A c \in Configs : mail[c] \notin Keys
  BY DEF SecretInv, KeyIsMade, PasswordsStayReadable, CreateKeyFile, WriteKeyFile
<1>3. PasswordsStayReadable' BY <1>1, <1>2 DEF PasswordsStayReadable
<1>4. SecretTypes' /\ KeyIsFiled'
  BY <1>1 DEF SecretInv, SecretTypes, KeyIsFiled, KeyIsMade, CreateKeyFile, WriteKeyFile
<1>5. pc' \in {"serve", "encrypt", "write"} /\ (pc' = "serve" => Plain = {})
  BY DEF CreateKeyFile, WriteKeyFile, Resumes
<1>6. pc' = "write" => file' = "empty" /\ key' = Null
  BY DEF SecretInv, KeyIsMade, CreateKeyFile, WriteKeyFile, Resumes
<1>7. KeyIsMade' /\ PlainIsGone' BY <1>1, <1>5, <1>6 DEF KeyIsMade, PlainIsGone
<1>. QED BY <1>3, <1>4, <1>7 DEF SecretInv

\* A password is written with the key in memory, which is the one in the file.
LEMMA SecretUse ==
    ASSUME SecretInv, NEW c \in Configs, EncryptLegacy(c) \/ SaveConfig(c)
    PROVE  SecretInv'
<1>. USE KeysAssumption
<1>1. UNCHANGED <<file, key>> BY DEF EncryptLegacy, SaveConfig
<1>2. pc \in {"encrypt", "serve"} /\ (pc' = pc \/ pc' = "down")
  BY DEF EncryptLegacy, SaveConfig
<1>3. mail' = mail \/ (key \in Keys /\ mail' = [mail EXCEPT ![c] = key])
  BY DEF EncryptLegacy, SaveConfig, SecretInv, SecretTypes
<1>4. SecretTypes' BY <1>1, <1>3 DEF SecretInv, SecretTypes
<1>5. PasswordsStayReadable'
  BY <1>1, <1>3 DEF SecretInv, SecretTypes, KeyIsFiled, PasswordsStayReadable
<1>6. \A d \in Configs : mail'[d] = "plain" => mail[d] = "plain"
  BY <1>3 DEF SecretInv, SecretTypes
<1>7. PlainIsGone' BY <1>2, <1>6 DEF SecretInv, PlainIsGone, Plain
<1>8. KeyIsFiled' /\ KeyIsMade' BY <1>1, <1>2 DEF SecretInv, KeyIsFiled, KeyIsMade
<1>. QED BY <1>4, <1>5, <1>7, <1>8 DEF SecretInv

LEMMA SecretNext == SecretInv /\ [StartNext]_startVars => SecretInv'
<1>. SUFFICES ASSUME SecretInv, [StartNext]_startVars PROVE SecretInv' OBVIOUS
<1>1. CASE Launch BY <1>1, SecretAside DEF Launch, Goes
<1>2. CASE MigrateSchema \/ Versions \/ MigrateLegacy \/ MigrateMoney
  BY <1>2, SecretAside DEF MigrateSchema, Versions, MigrateLegacy, MigrateMoney, Goes, secrets
<1>3. CASE FindDuplicates \/ MergeDelete \/ MergeEnds \/ MakeIndex
  BY <1>3, SecretAside DEF FindDuplicates, MergeDelete, MergeEnds, MakeIndex, Goes, secrets
<1>4. ASSUME NEW m \in Messages, MergeUpdate(m) PROVE SecretInv'
  BY <1>4, SecretAside DEF MergeUpdate, secrets
<1>5. CASE EncryptEnds \/ ListenAndServe
  BY <1>5, SecretAside DEF EncryptEnds, ListenAndServe, Goes, secrets, SecretInv, PlainIsGone
<1>6. CASE Killed \/ Stops \/ MigrationFails \/ ListenFails
  BY <1>6, SecretAside DEF Killed, Stops, MigrationFails, ListenFails, Exit, secrets
<1>7. ASSUME NEW m \in Messages, LogTwice(m) \/ PassesOver(m) PROVE SecretInv'
  BY <1>7, SecretAside DEF LogTwice, PassesOver, secrets, SecretInv, PlainIsGone
<1>8. CASE UNCHANGED startVars
  BY <1>8 DEF startVars, SecretInv, SecretTypes, KeyIsFiled, KeyIsMade, PasswordsStayReadable,
     PlainIsGone, Plain
<1>. QED BY <1>1, <1>2, <1>3, <1>4, <1>5, <1>6, <1>7, <1>8, SecretLoad, SecretMake, SecretUse
      DEF StartNext, Step

-----------------------------------------------------------------------------
(* The migrations and what they leave. *)

LedgerTypes ==
    /\ columns \subseteq {"old", "new"}
    /\ pay \in [PaymentIds -> PaymentRow]
    /\ users \in BOOLEAN
    /\ applied \in {{}, {1}, {1, 2}, {1, 2, 3}}

\* What the first migration and the second make of a row.
LegacyDone(r) ==
    /\ "old" \in columns => r.new # ""
    /\ r.text => r.blob # "no"
    /\ users => Null \notin {r.owner, r.blob}
MoneyDone(r) == r.amount = ToMajor(r.cents)

MigrationsAreDone ==
    /\ applied \in {{1}, {1, 2}} => \A p \in PaymentIds : LegacyDone(pay[p])
    /\ applied = {1, 2} => \A p \in PaymentIds : MoneyDone(pay[p])

\* Where the start is, it has applied what comes before.
Early == {"down", "schema", "versions"}
OrderIsKept ==
    /\ pc \in Points
    /\ pc = "legacy" => applied = {}
    /\ pc = "money" => applied = {1}
    /\ pc \notin Early \cup {"legacy", "money"} => applied = {1, 2}

LedgerInv == LedgerTypes /\ MigrationsAreDone /\ OrderIsKept

LEMMA LedgerInit == StartInit => LedgerInv
<1>. SUFFICES ASSUME StartInit PROVE LedgerInv OBVIOUS
<1>1. LedgerTypes BY OldRowsAssumption DEF StartInit, LedgerTypes
<1>2. 3 \in {1, 2, 3} /\ 3 \notin {1} /\ 3 \notin {1, 2} /\ 1 \notin {} OBVIOUS
<1>3. applied \notin {{1}, {1, 2}} BY <1>2 DEF StartInit
<1>4. OrderIsKept BY DEF StartInit, OrderIsKept, Points, Early
<1>. QED BY <1>1, <1>3, <1>4 DEF LedgerInv, MigrationsAreDone

\* Steps that leave the tables.
LEMMA LedgerAside ==
    ASSUME LedgerInv, UNCHANGED ledger,
           \/ pc' \in Early
           \/ pc' \in Points \ {"legacy", "money"} /\ pc \notin Early \cup {"legacy", "money"}
    PROVE  LedgerInv'
BY DEF LedgerInv, LedgerTypes, MigrationsAreDone, LegacyDone, MoneyDone, OrderIsKept, ledger, Early,
   Points

LEMMA SchemaOK ==
    ASSUME LedgerInv, MigrateSchema
    PROVE  LedgerInv'
<1>. USE SourcesAssumption
<1>1. /\ pc' = "versions" /\ UNCHANGED <<users, applied>> /\ columns' = columns \cup {"new"}
      /\ pay' = IF "new" \in columns THEN pay ELSE [p \in PaymentIds |-> [pay[p] EXCEPT !.new = "auto"]]
  BY DEF MigrateSchema, Goes
<1>2. \A p \in PaymentIds :
        /\ pay'[p] \in PaymentRow
        /\ pay'[p].new \in {pay[p].new, "auto"} /\ pay'[p].text = pay[p].text
        /\ pay'[p].blob = pay[p].blob /\ pay'[p].owner = pay[p].owner
        /\ pay'[p].amount = pay[p].amount /\ pay'[p].cents = pay[p].cents
  <2>1. CASE "new" \in columns BY <1>1, <2>1 DEF LedgerInv, LedgerTypes
  <2>2. CASE "new" \notin columns
    <3>. DEFINE Filled(r) == [r EXCEPT !.new = "auto"]
    <3>1. \A r \in PaymentRow :
            /\ Filled(r) \in PaymentRow /\ Filled(r).new = "auto" /\ Filled(r).text = r.text
            /\ Filled(r).blob = r.blob /\ Filled(r).owner = r.owner
            /\ Filled(r).amount = r.amount /\ Filled(r).cents = r.cents
      BY DEF PaymentRow
    <3>2. \A p \in PaymentIds : pay[p] \in PaymentRow /\ pay'[p] = Filled(pay[p])
      BY <1>1, <2>2 DEF LedgerInv, LedgerTypes
    <3>. HIDE DEF Filled
    <3>. QED BY <3>1, <3>2
  <2>. QED BY <2>1, <2>2
<1>3. pay' \in [PaymentIds -> PaymentRow] BY <1>1, <1>2 DEF LedgerInv, LedgerTypes
<1>4. LedgerTypes' BY <1>1, <1>3 DEF LedgerInv, LedgerTypes
<1>5. "auto" # "" OBVIOUS
<1>6. "old" \in columns' => "old" \in columns BY <1>1
<1>7. \A p \in PaymentIds : LegacyDone(pay[p]) => LegacyDone(pay[p])'
  BY <1>1, <1>2, <1>5, <1>6 DEF LegacyDone
<1>8. \A p \in PaymentIds : MoneyDone(pay[p]) => MoneyDone(pay[p])' BY <1>2 DEF MoneyDone, ToMajor
<1>9. MigrationsAreDone' BY <1>1, <1>7, <1>8 DEF LedgerInv, MigrationsAreDone
<1>10. OrderIsKept' BY <1>1 DEF OrderIsKept, Early, Points
<1>. QED BY <1>4, <1>9, <1>10 DEF LedgerInv

\* Which migration is next.
LEMMA VersionsOK ==
    ASSUME LedgerInv, Versions
    PROVE  LedgerInv'
<1>1. UNCHANGED ledger BY DEF Versions
<1>2. OrderIsKept'
  <2>1. CASE applied = {1, 2, 3}
    <3>1. \E v \in applied : v > Latest BY <2>1 DEF Latest
    <3>2. applied # {} /\ applied # {1}
      <4>1. 3 \in applied /\ 3 \notin {1} BY <2>1
      <4>. QED BY <4>1
    <3>3. pc' = "down" BY <3>1, <3>2 DEF Versions
    <3>. QED BY <3>3 DEF OrderIsKept, Points, Early
  <2>2. CASE applied # {1, 2, 3}
    <3>1. ~ \E v \in applied : v > Latest BY <2>2 DEF LedgerInv, LedgerTypes, Latest
    <3>2. pc' = IF applied = {} THEN "legacy" ELSE IF applied = {1} THEN "money" ELSE "find"
      <4>1. {} # {1} OBVIOUS
      <4>. QED BY <3>1, <4>1 DEF Versions
    <3>3. applied \in {{}, {1}, {1, 2}} BY <2>2 DEF LedgerInv, LedgerTypes
    <3>. QED BY <1>1, <3>2, <3>3 DEF OrderIsKept, Points, Early, ledger
  <2>. QED BY <2>1, <2>2
<1>. QED BY <1>1, <1>2 DEF LedgerInv, LedgerTypes, MigrationsAreDone, LegacyDone, MoneyDone, ledger

\* The first migration fills what the row lacks.
LEMMA LegacyFills ==
    ASSUME columns \subseteq {"old", "new"}, users \in BOOLEAN, NEW r \in PaymentRow
    PROVE  Legacy(r) \in PaymentRow /\ LegacyDone(Legacy(r))
<1>. USE SourcesAssumption, OwnersAssumption
<1>1. SourceOf(r) \in Sources \cup {""} /\ ("old" \in columns => SourceOf(r) # "")
  BY DEF SourceOf, PaymentRow
<1>2. OwnerOf(r) \in Owners \cup {Null} /\ (users => OwnerOf(r) # Null)
  BY DEF OwnerOf, PaymentRow
<1>3. BlobOwnerOf(r) \in Owners \cup {Null, "no"} /\ (users => BlobOwnerOf(r) # Null)
  BY <1>2 DEF BlobOwnerOf, PaymentRow
<1>4. r.blob # "no" => BlobOwnerOf(r) # "no" BY <1>2 DEF BlobOwnerOf
<1>. DEFINE blob == IF r.blob = "no" /\ r.text THEN OwnerOf(r) ELSE BlobOwnerOf(r)
<1>5. /\ blob \in Owners \cup {Null, "no"} /\ (users => blob # Null)
      /\ r.text => blob # "no"
  BY <1>2, <1>3, <1>4
<1>. HIDE DEF blob
<1>6. Legacy(r) = [r EXCEPT !.new = SourceOf(r), !.owner = OwnerOf(r), !.blob = blob]
  BY DEF Legacy, blob
<1>7. /\ Legacy(r) \in PaymentRow
      /\ Legacy(r).new = SourceOf(r) /\ Legacy(r).owner = OwnerOf(r)
      /\ Legacy(r).blob = blob /\ Legacy(r).text = r.text
  BY <1>1, <1>2, <1>5, <1>6 DEF PaymentRow
<1>. QED BY <1>1, <1>2, <1>5, <1>7 DEF LegacyDone

LEMMA LegacyOK ==
    ASSUME LedgerInv, MigrateLegacy
    PROVE  LedgerInv'
<1>1. UNCHANGED <<columns, users, twins>> /\ pc = "legacy" BY DEF MigrateLegacy
<1>2. CASE twins
  <2>1. UNCHANGED ledger /\ pc' = "down" BY <1>1, <1>2 DEF MigrateLegacy, ledger
  <2>. QED BY <2>1, LedgerAside DEF Early
<1>3. CASE ~twins
  <2>1. /\ pc' = "money" /\ pay' = [p \in PaymentIds |-> Legacy(pay[p])]
        /\ applied' = applied \cup {1}
    BY <1>3 DEF MigrateLegacy
  <2>2. applied = {} BY <1>1 DEF LedgerInv, OrderIsKept
  <2>3. applied' = {1} BY <2>1, <2>2
  <2>4. \A p \in PaymentIds : Legacy(pay[p]) \in PaymentRow /\ LegacyDone(Legacy(pay[p]))
    BY LegacyFills DEF LedgerInv, LedgerTypes
  <2>5. LedgerTypes' BY <1>1, <2>1, <2>3, <2>4 DEF LedgerInv, LedgerTypes
  <2>6. \A p \in PaymentIds : LegacyDone(pay[p])' BY <1>1, <2>1, <2>4 DEF LegacyDone
  <2>7. applied' # {1, 2} BY <2>3
  <2>8. MigrationsAreDone' BY <2>6, <2>7 DEF MigrationsAreDone
  <2>9. OrderIsKept' BY <2>1, <2>3 DEF OrderIsKept, Points, Early
  <2>. QED BY <2>5, <2>8, <2>9 DEF LedgerInv
<1>. QED BY <1>2, <1>3

LEMMA CentsAre ==
    /\ \A a \in Int : FromMajor(a) \in Int /\ ToMajor(FromMajor(a)) \in Int
    /\ \A r \in PaymentRow :
         LET x == InCents(r)
         IN  /\ x \in PaymentRow /\ x.amount = ToMajor(x.cents)
             /\ x.new = r.new /\ x.text = r.text /\ x.blob = r.blob /\ x.owner = r.owner
<1>1. \A a \in Int : FromMajor(a) \in Int /\ ToMajor(FromMajor(a)) \in Int BY DEF FromMajor, ToMajor
<1>2. ASSUME NEW r \in PaymentRow
      PROVE  LET x == InCents(r)
             IN  /\ x \in PaymentRow /\ x.amount = ToMajor(x.cents)
                 /\ x.new = r.new /\ x.text = r.text /\ x.blob = r.blob /\ x.owner = r.owner
  <2>1. r.amount \in Int BY DEF PaymentRow
  <2>2. FromMajor(r.amount) \in Int /\ ToMajor(FromMajor(r.amount)) \in Int BY <1>1, <2>1
  <2>. QED BY <2>2 DEF InCents, PaymentRow
<1>. QED BY <1>1, <1>2

LEMMA MoneyOK ==
    ASSUME LedgerInv, MigrateMoney
    PROVE  LedgerInv'
<1>1. /\ UNCHANGED <<columns, users, twins>> /\ pc = "money"
      /\ \/ /\ pc' = "find" /\ applied' = applied \cup {2}
            /\ pay' = [p \in PaymentIds |-> InCents(pay[p])]
         \/ pc' = "down" /\ UNCHANGED <<pay, applied>>
  BY DEF MigrateMoney
<1>2. CASE pc' = "down" /\ UNCHANGED <<pay, applied>>
  <2>1. UNCHANGED ledger BY <1>1, <1>2 DEF ledger
  <2>. QED BY <1>2, <2>1, LedgerAside DEF Early
<1>3. CASE /\ pc' = "find" /\ applied' = applied \cup {2}
           /\ pay' = [p \in PaymentIds |-> InCents(pay[p])]
  <2>1. applied = {1} BY <1>1 DEF LedgerInv, OrderIsKept
  <2>2. applied' = {1, 2} BY <1>3, <2>1
  <2>3. \A p \in PaymentIds : pay'[p] = InCents(pay[p]) /\ pay[p] \in PaymentRow
    BY <1>3 DEF LedgerInv, LedgerTypes
  <2>4. \A p \in PaymentIds :
          /\ pay'[p] \in PaymentRow /\ pay'[p].amount = ToMajor(pay'[p].cents)
          /\ pay'[p].new = pay[p].new /\ pay'[p].text = pay[p].text
          /\ pay'[p].blob = pay[p].blob /\ pay'[p].owner = pay[p].owner
    BY <2>3, CentsAre
  <2>5. LedgerTypes' BY <1>1, <1>3, <2>2, <2>4 DEF LedgerInv, LedgerTypes
  <2>6. \A p \in PaymentIds : LegacyDone(pay[p])'
    BY <1>1, <2>1, <2>4 DEF LedgerInv, MigrationsAreDone, LegacyDone
  <2>7. \A p \in PaymentIds : MoneyDone(pay[p])' BY <2>4 DEF MoneyDone, ToMajor
  <2>8. MigrationsAreDone' BY <2>6, <2>7 DEF MigrationsAreDone
  <2>9. OrderIsKept' BY <1>3, <2>2 DEF OrderIsKept, Points, Early
  <2>. QED BY <2>5, <2>8, <2>9 DEF LedgerInv
<1>. QED BY <1>1, <1>2, <1>3

LEMMA LedgerNext == SecretInv /\ LedgerInv /\ [StartNext]_startVars => LedgerInv'
<1>. SUFFICES ASSUME SecretInv, LedgerInv, [StartNext]_startVars PROVE LedgerInv' OBVIOUS
<1>. USE LedgerAside
<1>1. CASE Launch BY <1>1 DEF Launch, Goes, Early
<1>2. CASE FindDuplicates
  <2>1. UNCHANGED ledger /\ pc = "find" /\ pc' = "merge" BY <1>2 DEF FindDuplicates, Goes
  <2>. QED BY <2>1 DEF Early, Points
<1>3. ASSUME NEW m \in Messages, MergeUpdate(m) PROVE LedgerInv'
  <2>1. UNCHANGED ledger /\ pc = "merge" /\ pc' = "drop" BY <1>3 DEF MergeUpdate
  <2>. QED BY <2>1 DEF Early, Points
<1>4. CASE MergeDelete \/ MergeEnds \/ MakeIndex \/ EncryptEnds \/ ListenAndServe
  <2>1. /\ UNCHANGED ledger /\ pc \in {"drop", "merge", "index", "encrypt", "listen"}
        /\ pc' \in {"merge", "index", "encrypt", "listen", "serve"}
    BY <1>4 DEF MergeDelete, MergeEnds, MakeIndex, EncryptEnds, ListenAndServe, Goes
  <2>. QED BY <2>1 DEF Early, Points
<1>5. CASE LoadKey \/ CreateKeyFile \/ WriteKeyFile
  <2>1. /\ UNCHANGED ledger /\ pc \in {"serve", "encrypt", "create", "write"}
        /\ pc' \in {"serve", "encrypt", "create", "write"}
    BY <1>5 DEF SecretInv, SecretTypes, LoadKey, CreateKeyFile, WriteKeyFile, Resumes
  <2>. QED BY <2>1 DEF Early, Points
<1>6. ASSUME NEW c \in Configs, EncryptLegacy(c) \/ SaveConfig(c) PROVE LedgerInv'
  <2>1. /\ UNCHANGED ledger /\ pc \in {"encrypt", "serve"}
        /\ pc' \in {"down", "encrypt", "serve"}
    BY <1>6 DEF EncryptLegacy, SaveConfig
  <2>. QED BY <2>1 DEF Early, Points
<1>7. CASE Killed \/ Stops \/ MigrationFails \/ ListenFails
  <2>1. UNCHANGED ledger /\ pc' = "down" BY <1>7 DEF Killed, Stops, MigrationFails, ListenFails, Exit
  <2>. QED BY <2>1 DEF Early
<1>8. ASSUME NEW m \in Messages, LogTwice(m) \/ PassesOver(m) PROVE LedgerInv'
  <2>1. UNCHANGED ledger /\ pc \in {"serve", "merge"} /\ pc' = pc BY <1>8 DEF LogTwice, PassesOver
  <2>. QED BY <2>1 DEF Early, Points
<1>9. CASE UNCHANGED startVars
  BY <1>9 DEF startVars, LedgerInv, LedgerTypes, MigrationsAreDone, LegacyDone, MoneyDone, OrderIsKept
<1>. QED BY <1>1, <1>2, <1>3, <1>4, <1>5, <1>6, <1>7, <1>8, <1>9, SchemaOK, VersionsOK, LegacyOK,
         MoneyOK DEF StartNext, Step

-----------------------------------------------------------------------------
(* The merge of the logs. *)

\* k is a worse row than l: it tells less, or as much and is older.
Worse(k, l) ==
    \/ Score(logs[k].tells) < Score(logs[l].tells)
    \/ Score(logs[k].tells) = Score(logs[l].tells) /\ k < l

\* Above each row a set of better ones; one of these sets is the least.
LEMMA BestOfFinite ==
    ASSUME NEW S, IsFiniteSet(S), S # {}, NEW Below,
           \A x \in S : <<x, x>> \notin Below,
           \A x, y, z \in S : <<x, y>> \in Below /\ <<y, z>> \in Below => <<x, z>> \in Below
    PROVE  \E x \in S : \A y \in S : <<x, y>> \notin Below
<1>. DEFINE Above(x) == {y \in S : <<x, y>> \in Below}
            All == {Above(x) : x \in S}
<1>1. IsWellFoundedOn(StrictSubsetOrdering(S), FiniteSubsetsOf(S))
  BY FS_StrictSubsetOrderingWellFounded
<1>2. FiniteSubsetsOf(S) = SUBSET S BY FS_FiniteSubsetsOfFinite
<1>3. \A x \in S : Above(x) \in SUBSET S OBVIOUS
<1>. HIDE DEF Above
<1>4. All \subseteq FiniteSubsetsOf(S) /\ All # {} BY <1>2, <1>3
<1>. HIDE DEF All
<1>5. \E a \in All : \A b \in All : <<b, a>> \notin StrictSubsetOrdering(S) BY <1>1, <1>4, WFMin
<1>. USE DEF All
<1>6. PICK x \in S : \A y \in S : <<Above(y), Above(x)>> \notin StrictSubsetOrdering(S) BY <1>5
<1>. USE DEF Above
<1>7. ASSUME NEW y \in S, <<x, y>> \in Below PROVE FALSE
  <2>1. Above(y) \subseteq Above(x) BY <1>7
  <2>2. y \in Above(x) /\ y \notin Above(y) BY <1>7
  <2>. HIDE DEF Above
  <2>. QED BY <1>3, <1>6, <2>1, <2>2 DEF StrictSubsetOrdering
<1>. QED BY <1>7

LogTypes ==
    /\ logs \in [Logs -> LogRow \cup {Null}]
    /\ groups \subseteq Messages
    /\ hand.message \in Messages \cup {Null}

LEMMA RowsAre ==
    ASSUME LogTypes, NEW m
    PROVE  /\ RowsOf(m) \subseteq Logs /\ IsFiniteSet(RowsOf(m))
           /\ \A l \in RowsOf(m) : l \in Nat /\ logs[l] \in LogRow /\ logs[l].message = m
                                   /\ Score(logs[l].tells) \in Nat
                                   /\ \A f \in Fields : logs[l].tells[f] \in Tellings \cap Nat
<1>1. RowsOf(m) \subseteq Logs BY DEF RowsOf, KeptLogs
<1>2. IsFiniteSet(RowsOf(m)) BY <1>1, LogsAssumption, FS_Subset
<1>3. \A l \in RowsOf(m) : l \in Nat /\ logs[l] \in LogRow /\ logs[l].message = m
  BY <1>1, LogsAssumption DEF LogTypes, RowsOf, KeptLogs
<1>4. \A l \in RowsOf(m) : logs[l].tells \in [Fields -> Tellings] BY <1>3 DEF LogRow
<1>5. Tellings \subseteq Nat BY FieldsAssumption
<1>. QED BY <1>1, <1>2, <1>3, <1>4, <1>5, ScoreAssumption

LEMMA BestIs ==
    ASSUME LogTypes, NEW m, RowsOf(m) # {}
    PROVE  Best(m) \in RowsOf(m)
<1>. DEFINE S == RowsOf(m)
            Below == {p \in S \X S : Worse(p[1], p[2])}
<1>1. IsFiniteSet(S) /\ \A l \in S : l \in Nat /\ Score(logs[l].tells) \in Nat BY RowsAre
<1>. HIDE DEF S
<1>2. S # {} BY DEF S
<1>3. \A x, y \in S : <<x, y>> \in Below <=> Worse(x, y) OBVIOUS
<1>4. \A x \in S : ~Worse(x, x) BY <1>1 DEF Worse
<1>5. \A x, y, z \in S : Worse(x, y) /\ Worse(y, z) => Worse(x, z) BY <1>1 DEF Worse
<1>. HIDE DEF Below
<1>6. \E x \in S : \A y \in S : <<x, y>> \notin Below BY <1>1, <1>2, <1>3, <1>4, <1>5, BestOfFinite
<1>7. PICK x \in S : \A y \in S : ~Worse(x, y) BY <1>3, <1>6
<1>8. \A y \in S \ {x} : Worse(y, x) BY <1>1, <1>7 DEF Worse
<1>9. \E l \in RowsOf(m) : \A k \in RowsOf(m) \ {l} :
         \/ Score(logs[k].tells) < Score(logs[l].tells)
         \/ Score(logs[k].tells) = Score(logs[l].tells) /\ k < l
  BY <1>8 DEF S, Worse
<1>. QED BY <1>9 DEF Best

\* Of finitely many rows that say a number, one says the largest.
LEMMA MaxOfRows ==
    ASSUME NEW S, IsFiniteSet(S), S # {}, NEW g, \A x \in S : g[x] \in Nat
    PROVE  \E x \in S : \A y \in S : g[y] <= g[x]
<1>. DEFINE Below == {p \in S \X S : g[p[1]] < g[p[2]]}
<1>1. \A x, y \in S : <<x, y>> \in Below <=> g[x] < g[y] OBVIOUS
<1>. HIDE DEF Below
<1>2. \A x \in S : <<x, x>> \notin Below BY <1>1
<1>3. \A x, y, z \in S : <<x, y>> \in Below /\ <<y, z>> \in Below => <<x, z>> \in Below BY <1>1
<1>4. PICK x \in S : \A y \in S : <<x, y>> \notin Below BY <1>2, <1>3, BestOfFinite
<1>5. ASSUME NEW y \in S PROVE g[y] <= g[x]
  <2>1. ~(g[x] < g[y]) BY <1>1, <1>4
  <2>2. g[x] \in Nat /\ g[y] \in Nat OBVIOUS
  <2>. QED BY <2>1, <2>2
<1>. QED BY <1>5

\* What the merged row tells: a thing that was told, if anything was, and no
\* smaller a number.
LEMMA MergedIs ==
    ASSUME LogTypes, NEW m, RowsOf(m) # {}, NEW f \in Fields
    PROVE  /\ Merged(m)[f] \in Told(m, f) \cup {0}
           /\ Told(m, f) # {} => Merged(m)[f] # 0
           /\ f \in Counted => \A v \in Told(m, f) \cup {0} : v <= Merged(m)[f]
           /\ f \notin Counted /\ logs[Best(m)].tells[f] # 0 => Merged(m)[f] = logs[Best(m)].tells[f]
<1>. DEFINE g == [l \in RowsOf(m) |-> logs[l].tells[f]]
<1>1. Best(m) \in RowsOf(m) BY BestIs
<1>2. /\ IsFiniteSet(RowsOf(m))
      /\ \A l \in RowsOf(m) : l \in Nat /\ logs[l].tells[f] \in Nat
  BY RowsAre
<1>3. Told(m, f) \subseteq Nat /\ 0 \notin Told(m, f) BY <1>2 DEF Told
<1>4. \A l \in RowsOf(m) : logs[l].tells[f] \in Told(m, f) \cup {0} BY DEF Told
<1>5. \A v \in Told(m, f) : \E l \in RowsOf(m) : logs[l].tells[f] = v BY DEF Told
<1>6. CASE f \in Counted
  <2>1. Merged(m)[f] = Max(Told(m, f) \cup {0}) BY <1>6 DEF Merged
  <2>2. \A l \in RowsOf(m) : g[l] = logs[l].tells[f] OBVIOUS
  <2>. HIDE DEF g
  <2>3. \A l \in RowsOf(m) : g[l] \in Nat BY <1>2, <2>2
  <2>4. PICK x \in RowsOf(m) : \A y \in RowsOf(m) : g[y] <= g[x] BY <1>2, <2>3, MaxOfRows
  <2>5. g[x] \in Told(m, f) \cup {0} /\ g[x] \in Nat BY <1>4, <2>2, <2>3, <2>4
  <2>6. \A v \in Told(m, f) : v <= g[x] BY <1>5, <2>2, <2>4
  <2>7. \E w \in Told(m, f) \cup {0} : \A v \in Told(m, f) \cup {0} : w >= v
    <3>1. \A v \in Told(m, f) \cup {0} : v \in Nat BY <1>3
    <3>2. \A v \in Told(m, f) \cup {0} : g[x] >= v BY <2>5, <2>6, <3>1
    <3>. QED BY <2>5, <3>2
  <2>8. /\ Max(Told(m, f) \cup {0}) \in Told(m, f) \cup {0}
        /\ \A v \in Told(m, f) \cup {0} : Max(Told(m, f) \cup {0}) >= v
    BY <2>7 DEF Max
  <2>9. \A v \in Told(m, f) \cup {0} : v <= Merged(m)[f] BY <1>3, <2>1, <2>8
  <2>10. Told(m, f) # {} => Merged(m)[f] # 0 BY <1>3, <2>9
  <2>. QED BY <1>6, <2>1, <2>8, <2>9, <2>10
<1>7. CASE f \notin Counted /\ logs[Best(m)].tells[f] # 0
  <2>1. Merged(m)[f] = logs[Best(m)].tells[f] BY <1>7 DEF Merged
  <2>. QED BY <1>1, <1>4, <1>7, <2>1
<1>8. CASE f \notin Counted /\ logs[Best(m)].tells[f] = 0
  <2>1. CASE OtherRows(m, f) = {}
    <3>1. Merged(m)[f] = 0 BY <1>8, <2>1 DEF Merged
    <3>2. Told(m, f) = {} BY <1>1, <1>8, <2>1 DEF Told, OtherRows
    <3>. QED BY <1>8, <3>1, <3>2
  <2>2. CASE OtherRows(m, f) # {}
    <3>1. Merged(m)[f] = logs[Max(OtherRows(m, f))].tells[f] BY <1>8, <2>2 DEF Merged
    <3>. DEFINE id == [l \in OtherRows(m, f) |-> l]
    <3>2. OtherRows(m, f) \subseteq RowsOf(m) /\ \A l \in OtherRows(m, f) : logs[l].tells[f] # 0
      BY DEF OtherRows
    <3>3. IsFiniteSet(OtherRows(m, f)) BY <1>2, <3>2, FS_Subset
    <3>4. \A l \in OtherRows(m, f) : id[l] = l /\ l \in Nat BY <1>2, <3>2
    <3>. HIDE DEF id
    <3>5. PICK x \in OtherRows(m, f) : \A y \in OtherRows(m, f) : id[y] <= id[x]
      BY <2>2, <3>3, <3>4, MaxOfRows
    <3>6. \E l \in OtherRows(m, f) : \A k \in OtherRows(m, f) : l >= k BY <3>4, <3>5
    <3>7. Max(OtherRows(m, f)) \in OtherRows(m, f) BY <3>6 DEF Max
    <3>. QED BY <1>4, <1>8, <3>1, <3>2, <3>7
  <2>. QED BY <2>1, <2>2
<1>. QED BY <1>6, <1>7, <1>8

\* What was told of m keeps being told, and no row that stays loses a word.
KeepsWord(m) ==
    \A f \in Fields : \A v \in Told(m, f) :
        \E w \in Told(m, f) \cap Told(m, f)' : f \in Counted => v <= w
SparesRows(m) ==
    \A f \in Fields, l \in RowsOf(m) :
        logs'[l] # Null /\ logs[l].tells[f] # 0 =>
            \/ logs'[l].tells[f] = logs[l].tells[f]
            \/ f \in Counted /\ logs'[l].tells[f] > logs[l].tells[f]

\* Rows that stay as they are keep both.
LEMMA RowsStay ==
    ASSUME LogTypes, NEW m, \A l \in RowsOf(m) : logs'[l] = logs[l]
    PROVE  KeepsWord(m) /\ SparesRows(m) /\ RowsOf(m) \subseteq RowsOf(m)'
<1>1. RowsOf(m) \subseteq RowsOf(m)' BY DEF RowsOf, KeptLogs
<1>2. \A f : Told(m, f) \subseteq Told(m, f)' BY <1>1 DEF Told
<1>3. \A f \in Fields : \A v \in Told(m, f) : v <= v BY RowsAre DEF Told
<1>4. KeepsWord(m) BY <1>2, <1>3 DEF KeepsWord
<1>5. SparesRows(m) BY DEF SparesRows
<1>. QED BY <1>1, <1>4, <1>5

\* What is found as a duplicate has rows until it is merged, and the row that
\* is kept fills every column, with as large a number, before the others go.
GroupsAreThere == pc \in {"merge", "drop"} => \A m \in groups : RowsOf(m) # {}
Fills(l, m) ==
    \A f \in Fields : \A v \in Told(m, f) :
        logs[l].tells[f] # 0 /\ (f \in Counted => v <= logs[l].tells[f])
HandIsFull ==
    pc = "drop" /\ hand.ok => hand.keep \in RowsOf(hand.message) /\ Fills(hand.keep, hand.message)

MergeInv == LogTypes /\ GroupsAreThere /\ HandIsFull

LEMMA MergeInit == StartInit => MergeInv
BY OldRowsAssumption DEF StartInit, MergeInv, LogTypes, GroupsAreThere, HandIsFull, NoHand

LEMMA MergeAside ==
    ASSUME MergeInv, logs' = logs, pc' \notin {"merge", "drop"},
           UNCHANGED <<groups, hand>> \/ (groups' = {} /\ hand' = NoHand)
    PROVE  MergeInv'
BY DEF MergeInv, LogTypes, GroupsAreThere, HandIsFull, NoHand

LEMMA UpdateOK ==
    ASSUME MergeInv, NEW m \in Messages, MergeUpdate(m)
    PROVE  /\ MergeInv'
           /\ \A n \in Messages : KeepsWord(n) /\ SparesRows(n)
<1>1. LogTypes /\ RowsOf(m) # {} /\ GroupsAreThere BY DEF MergeInv, GroupsAreThere, MergeUpdate
<1>2. Best(m) \in RowsOf(m) /\ Best(m) \in Logs BY <1>1, BestIs, RowsAre
<1>3. /\ pc = "merge" /\ pc' = "drop" /\ groups' = groups /\ hand'.message = m
      /\ hand'.keep = Best(m)
      /\ \/ logs' = logs /\ ~hand'.ok
         \/ logs' = [logs EXCEPT ![Best(m)].tells = Merged(m)] /\ hand'.ok
  BY DEF MergeUpdate
<1>4. CASE logs' = logs /\ ~hand'.ok
  <2>1. \A n : RowsOf(n)' = RowsOf(n) BY <1>4 DEF RowsOf, KeptLogs
  <2>2. \A n \in Messages : KeepsWord(n) /\ SparesRows(n) BY <1>1, <1>4, RowsStay
  <2>. QED BY <1>1, <1>3, <1>4, <2>1, <2>2 DEF MergeInv, LogTypes, GroupsAreThere, HandIsFull
<1>5. CASE logs' = [logs EXCEPT ![Best(m)].tells = Merged(m)] /\ hand'.ok
  <2>1. Merged(m) \in [Fields -> Tellings]
    <3>1. \A f \in Fields : Merged(m)[f] \in Told(m, f) \cup {0} BY <1>1, MergedIs
    <3>2. \A f \in Fields : Told(m, f) \subseteq Tellings BY <1>1, RowsAre DEF Told
    <3>3. \A f \in Fields : Merged(m)[f] \in Tellings BY <3>1, <3>2, FieldsAssumption
    <3>4. Merged(m) = [f \in Fields |-> Merged(m)[f]] BY DEF Merged
    <3>. QED BY <3>3, <3>4
  <2>2. logs[Best(m)] \in LogRow BY <1>1, <1>2, RowsAre
  <2>3. /\ logs' \in [Logs -> LogRow \cup {Null}]
        /\ logs'[Best(m)] \in LogRow /\ logs'[Best(m)].message = logs[Best(m)].message
        /\ logs'[Best(m)].tells = Merged(m)
        /\ \A l \in Logs \ {Best(m)} : logs'[l] = logs[l]
    BY <1>1, <1>2, <1>5, <2>1, <2>2 DEF LogTypes, LogRow
  <2>4. logs'[Best(m)] # Null /\ logs[Best(m)] # Null BY <2>2, <2>3, OldRowsAssumption
  <2>5. \A n : RowsOf(n)' = RowsOf(n) BY <1>2, <2>3, <2>4 DEF RowsOf, KeptLogs
  <2>6. LogTypes' /\ GroupsAreThere' BY <1>1, <1>3, <2>3, <2>5 DEF LogTypes, GroupsAreThere
  <2>7. ASSUME NEW n \in Messages, n # m PROVE KeepsWord(n) /\ SparesRows(n)
    <3>1. \A l \in RowsOf(n) : logs'[l] = logs[l] BY <1>1, <1>2, <2>3, <2>7, RowsAre
    <3>. QED BY <1>1, <3>1, RowsStay
  <2>8. \A f \in Fields : Told(m, f)' \subseteq Told(m, f)
    <3>. SUFFICES ASSUME NEW f \in Fields, NEW l \in RowsOf(m), logs'[l].tells[f] # 0
                  PROVE  logs'[l].tells[f] \in Told(m, f)
      BY <2>5 DEF Told
    <3>1. l \in Logs BY <1>1, RowsAre
    <3>2. CASE l = Best(m) BY <1>1, <2>3, <3>2, MergedIs
    <3>3. CASE l # Best(m) BY <2>3, <3>1, <3>3 DEF Told
    <3>. QED BY <3>2, <3>3
  <2>9. \A f \in Fields : Told(m, f) # {} => Merged(m)[f] \in Told(m, f) \cap Told(m, f)'
    <3>. SUFFICES ASSUME NEW f \in Fields, Told(m, f) # {}
                  PROVE  Merged(m)[f] \in Told(m, f) \cap Told(m, f)'
      OBVIOUS
    <3>1. Merged(m)[f] \in Told(m, f) /\ Merged(m)[f] # 0 BY <1>1, MergedIs
    <3>2. Best(m) \in RowsOf(m)' /\ logs'[Best(m)].tells[f] = Merged(m)[f] BY <1>2, <2>3, <2>5
    <3>. QED BY <3>1, <3>2 DEF Told
  <2>10. KeepsWord(m)
    <3>. SUFFICES ASSUME NEW f \in Fields, NEW v \in Told(m, f)
                  PROVE  \E w \in Told(m, f) \cap Told(m, f)' : f \in Counted => v <= w
      BY DEF KeepsWord
    <3>1. f \in Counted => v <= Merged(m)[f] BY <1>1, MergedIs
    <3>. QED BY <2>9, <3>1
  <2>11. SparesRows(m)
    <3>. SUFFICES ASSUME NEW f \in Fields, NEW l \in RowsOf(m), logs[l].tells[f] # 0
                  PROVE  \/ logs'[l].tells[f] = logs[l].tells[f]
                         \/ f \in Counted /\ logs'[l].tells[f] > logs[l].tells[f]
      BY DEF SparesRows
    <3>1. l \in Logs /\ logs[l].tells[f] \in Nat BY <1>1, RowsAre
    <3>2. CASE l # Best(m) BY <2>3, <3>1, <3>2
    <3>3. CASE l = Best(m) /\ f \notin Counted BY <1>1, <2>3, <3>3, MergedIs
    <3>4. CASE l = Best(m) /\ f \in Counted
      <4>1. logs[l].tells[f] \in Told(m, f) BY DEF Told
      <4>2. logs[l].tells[f] <= Merged(m)[f] BY <1>1, <3>4, <4>1, MergedIs
      <4>3. Merged(m)[f] \in Nat BY <2>1, FieldsAssumption
      <4>4. logs'[l].tells[f] = Merged(m)[f] BY <2>3, <3>4
      <4>. QED BY <3>1, <3>4, <4>2, <4>3, <4>4
    <3>. QED BY <3>2, <3>3, <3>4
  <2>12. Fills(hand.keep, hand.message)'
    <3>1. ASSUME NEW f \in Fields, NEW v \in Told(m, f)'
          PROVE  logs'[Best(m)].tells[f] # 0 /\ (f \in Counted => v <= logs'[Best(m)].tells[f])
      <4>1. v \in Told(m, f) BY <2>8
      <4>2. Merged(m)[f] # 0 /\ (f \in Counted => v <= Merged(m)[f]) BY <1>1, <4>1, MergedIs
      <4>. QED BY <2>3, <4>2
    <3>2. \A f : Told(hand.message, f)' = Told(m, f)' BY <1>3 DEF Told, RowsOf, KeptLogs
    <3>. QED BY <1>3, <3>1, <3>2 DEF Fills
  <2>13. HandIsFull' BY <1>2, <1>3, <2>5, <2>12 DEF HandIsFull
  <2>. QED BY <2>6, <2>7, <2>10, <2>11, <2>13 DEF MergeInv
<1>. QED BY <1>3, <1>4, <1>5

LEMMA DeleteOK ==
    ASSUME MergeInv, MergeDelete
    PROVE  /\ MergeInv'
           /\ \A n \in Messages : (KeepsWord(n) /\ SparesRows(n)) \/ (hand.message = n /\ ~hand.ok)
<1>. DEFINE gone == RowsOf(hand.message) \ {hand.keep}
<1>1. LogTypes /\ GroupsAreThere /\ HandIsFull BY DEF MergeInv
<1>2. /\ pc = "drop" /\ pc' = "merge" /\ hand' = NoHand /\ groups' = groups \ {hand.message}
      /\ logs' = logs \/ logs' = [l \in Logs |-> IF l \in gone THEN Null ELSE logs[l]]
  BY DEF MergeDelete, Goes
<1>3. logs' \in [Logs -> LogRow \cup {Null}] BY <1>1, <1>2 DEF LogTypes
<1>4. \A l \in Logs : logs'[l] = logs[l] \/ logs'[l] = Null BY <1>2
<1>5. \A n : n # hand.message => \A l \in RowsOf(n) : logs'[l] = logs[l] BY <1>1, <1>2, RowsAre
<1>6. \A n : n # hand.message => KeepsWord(n) /\ SparesRows(n) /\ RowsOf(n)' = RowsOf(n)
  <2>. SUFFICES ASSUME NEW n, n # hand.message
                PROVE  KeepsWord(n) /\ SparesRows(n) /\ RowsOf(n)' = RowsOf(n)
    OBVIOUS
  <2>1. RowsOf(n)' \subseteq RowsOf(n) BY <1>4 DEF RowsOf, KeptLogs
  <2>. QED BY <1>1, <1>5, <2>1, RowsStay
<1>7. MergeInv'
  <2>1. LogTypes' BY <1>1, <1>2, <1>3 DEF LogTypes, NoHand
  <2>2. GroupsAreThere' BY <1>1, <1>2, <1>6 DEF GroupsAreThere
  <2>. QED BY <1>2, <2>1, <2>2 DEF MergeInv, HandIsFull
<1>8. ASSUME NEW n \in Messages, n = hand.message, hand.ok PROVE KeepsWord(n) /\ SparesRows(n)
  <2>1. hand.keep \in RowsOf(n) /\ Fills(hand.keep, n) BY <1>1, <1>2, <1>8 DEF HandIsFull
  <2>2. PICK keep \in RowsOf(n) : keep = hand.keep BY <2>1
  <2>3. keep \in Logs /\ logs'[keep] = logs[keep] BY <1>1, <1>2, <2>2, RowsAre
  <2>4. keep \in RowsOf(n)' BY <2>3 DEF RowsOf, KeptLogs
  <2>5. KeepsWord(n)
    <3>. SUFFICES ASSUME NEW f \in Fields, NEW v \in Told(n, f)
                  PROVE  \E w \in Told(n, f) \cap Told(n, f)' : f \in Counted => v <= w
      BY DEF KeepsWord
    <3>1. logs[keep].tells[f] # 0 /\ (f \in Counted => v <= logs[keep].tells[f])
      BY <2>1, <2>2 DEF Fills
    <3>2. logs[keep].tells[f] \in Told(n, f) \cap Told(n, f)' BY <2>3, <2>4, <3>1 DEF Told
    <3>. QED BY <3>1, <3>2
  <2>6. SparesRows(n)
    <3>1. \A l \in RowsOf(n) : logs'[l] # Null => logs'[l] = logs[l] BY <1>1, <1>4, RowsAre
    <3>. QED BY <3>1 DEF SparesRows
  <2>. QED BY <2>5, <2>6
<1>. QED BY <1>6, <1>7, <1>8

LEMMA TwiceOK ==
    ASSUME MergeInv, NEW m \in Messages, LogTwice(m)
    PROVE  /\ MergeInv'
           /\ \A n \in Messages : KeepsWord(n) /\ SparesRows(n)
<1>1. LogTypes BY DEF MergeInv
<1>2. PICK l \in Logs \ KeptLogs, t \in Retold :
        logs' = [logs EXCEPT ![l] = [message |-> m, tells |-> t]]
  BY DEF LogTwice
<1>3. pc' = "serve" /\ UNCHANGED <<groups, hand>> BY DEF LogTwice
<1>4. logs' \in [Logs -> LogRow \cup {Null}] BY <1>1, <1>2, FieldsAssumption DEF LogTypes, LogRow
<1>5. \A n : \A k \in RowsOf(n) : logs'[k] = logs[k] BY <1>1, <1>2 DEF LogTypes, RowsOf, KeptLogs
<1>6. \A n \in Messages : KeepsWord(n) /\ SparesRows(n) BY <1>1, <1>5, RowsStay
<1>. QED BY <1>1, <1>3, <1>4, <1>6 DEF MergeInv, LogTypes, GroupsAreThere, HandIsFull

\* A step keeps what is told, and the invariant.
LEMMA MergeNext ==
    ASSUME SecretInv, MergeInv, [StartNext]_startVars
    PROVE  /\ MergeInv'
           /\ \A n \in Messages : (KeepsWord(n) /\ SparesRows(n)) \/ (hand.message = n /\ ~hand.ok)
<1>. DEFINE Same == \A n \in Messages : KeepsWord(n) /\ SparesRows(n)
<1>0. LogTypes BY DEF MergeInv
<1>1. logs' = logs => Same /\ \A n : RowsOf(n)' = RowsOf(n)
  <2>. SUFFICES ASSUME logs' = logs PROVE Same /\ \A n : RowsOf(n)' = RowsOf(n) OBVIOUS
  <2>1. \A n : KeepsWord(n) /\ SparesRows(n) BY <1>0, RowsStay
  <2>2. \A n : RowsOf(n)' = RowsOf(n) BY DEF RowsOf, KeptLogs
  <2>. QED BY <2>1, <2>2
<1>. HIDE DEF Same
<1>2. CASE Launch \/ MigrateSchema \/ Versions \/ MigrateLegacy \/ MigrateMoney \/ MakeIndex
            \/ EncryptEnds \/ ListenAndServe \/ Killed \/ Stops \/ MigrationFails \/ ListenFails \/ MergeEnds
  <2>1. /\ logs' = logs /\ pc' \notin {"merge", "drop"}
        /\ UNCHANGED <<groups, hand>> \/ (groups' = {} /\ hand' = NoHand)
    BY <1>2 DEF Launch, MigrateSchema, Versions, MigrateLegacy, MigrateMoney, MakeIndex, EncryptEnds,
       ListenAndServe, Killed, Stops, MigrationFails, ListenFails, MergeEnds, Exit, Goes, mailLogs
  <2>. QED BY <1>1, <2>1, MergeAside DEF Same
<1>3. CASE LoadKey \/ CreateKeyFile \/ WriteKeyFile
           \/ \E c \in Configs : EncryptLegacy(c) \/ SaveConfig(c)
  <2>1. /\ logs' = logs /\ UNCHANGED <<groups, hand>> /\ pc' \notin {"merge", "drop"}
    BY <1>3 DEF SecretInv, SecretTypes, LoadKey, CreateKeyFile, WriteKeyFile, EncryptLegacy,
       SaveConfig, Resumes, mailLogs
  <2>. QED BY <1>1, <2>1, MergeAside DEF Same
<1>4. CASE FindDuplicates
  <2>1. logs' = logs /\ hand' = hand /\ pc' = "merge" /\ groups' \subseteq Duplicates
    BY <1>4 DEF FindDuplicates, Goes
  <2>2. \A n \in Duplicates : n \in Messages /\ RowsOf(n) # {} BY FS_EmptySet DEF Duplicates
  <2>3. MergeInv' BY <1>1, <2>1, <2>2 DEF MergeInv, LogTypes, GroupsAreThere, HandIsFull
  <2>. QED BY <1>1, <2>1, <2>3 DEF Same
<1>5. ASSUME NEW m \in Messages, PassesOver(m) PROVE MergeInv' /\ Same
  <2>1. logs' = logs /\ hand' = hand /\ pc' = "merge" /\ pc = "merge" /\ groups' \subseteq groups
    BY <1>5 DEF PassesOver
  <2>2. MergeInv' BY <1>1, <2>1 DEF MergeInv, LogTypes, GroupsAreThere, HandIsFull
  <2>. QED BY <1>1, <2>1, <2>2
<1>6. CASE UNCHANGED startVars
  <2>1. UNCHANGED <<logs, groups, hand, pc>> BY <1>6 DEF startVars
  <2>2. MergeInv' BY <1>1, <2>1 DEF MergeInv, LogTypes, GroupsAreThere, HandIsFull, Fills, Told
  <2>. QED BY <1>1, <2>1, <2>2 DEF Same
<1>. QED BY <1>2, <1>3, <1>4, <1>5, <1>6, UpdateOK, DeleteOK, TwiceOK DEF StartNext, Step, Same

-----------------------------------------------------------------------------
(* Theorems *)

\* A key is in its file before it encrypts anything, so no kill or error of the
\* start, and no later request, leaves a password nobody can read.
THEOREM NoPasswordIsLost == StartSpec => []PasswordsStayReadable
<1>1. SecretInv => PasswordsStayReadable BY DEF SecretInv
<1>2. StartSpec => StartInit /\ [][StartNext]_startVars BY PTL DEF StartSpec
<1>. QED BY <1>1, <1>2, SecretInit, SecretNext, PTL

\* What the migrations and the encryption promise holds whenever requests are
\* served, however often the start was cut off.
THEOREM NothingHalfDoneIsServed == StartSpec => []ServedIsComplete
<1>1. SecretInv /\ LedgerInv => ServedIsComplete
  <2>. SUFFICES ASSUME SecretInv, LedgerInv, pc = "serve" PROVE ServedIsComplete
    BY DEF ServedIsComplete
  <2>1. applied = {1, 2} BY DEF LedgerInv, OrderIsKept, Early
  <2>2. Plain = {} BY DEF SecretInv, PlainIsGone
  <2>. QED BY <2>1, <2>2 DEF LedgerInv, MigrationsAreDone, LegacyDone, MoneyDone, ServedIsComplete
<1>2. StartSpec => StartInit /\ [][StartNext]_startVars BY PTL DEF StartSpec
<1>. QED BY <1>1, <1>2, SecretInit, SecretNext, LedgerInit, LedgerNext, PTL

\* Amounts are rounded to the nearest cent, alike on both sides of zero, the
\* cents of an amount that is accepted are in range, and what is rounded stays
\* as it is: the migration of money that is run again, or over rows in cents,
\* changes nothing, and its validation refuses nothing the conversion has
\* written (MigrateMoney).  Amounts are exact here; beyond 7 * 10^13 a float is
\* coarser than cents.
THEOREM RoundingIsStable ==
    \A a \in Int :
        /\ FromMajor(ToMajor(FromMajor(a))) = FromMajor(a)
        /\ a - 5 <= ToMajor(FromMajor(a)) /\ ToMajor(FromMajor(a)) <= a + 5
        /\ FromMajor(-a) = -FromMajor(a)
        /\ Representable(a) => /\ FromMajor(a) \in -MaxCents .. MaxCents
                               /\ Representable(ToMajor(FromMajor(a)))
<1>. SUFFICES ASSUME NEW a \in Int
     PROVE  /\ FromMajor(ToMajor(FromMajor(a))) = FromMajor(a)
            /\ a - 5 <= ToMajor(FromMajor(a)) /\ ToMajor(FromMajor(a)) <= a + 5
            /\ FromMajor(-a) = -FromMajor(a)
            /\ Representable(a) => /\ FromMajor(a) \in -MaxCents .. MaxCents
                                   /\ Representable(ToMajor(FromMajor(a)))
  OBVIOUS
<1>1. \A c \in Int : FromMajor(ToMajor(c)) = c BY DEF FromMajor, ToMajor
<1>2. FromMajor(a) \in Int BY CentsAre
<1>3. a - 5 <= ToMajor(FromMajor(a)) /\ ToMajor(FromMajor(a)) <= a + 5 BY DEF FromMajor, ToMajor
<1>4. FromMajor(-a) = -FromMajor(a) BY DEF FromMajor
<1>5. ASSUME Representable(a)
      PROVE  FromMajor(a) \in -MaxCents .. MaxCents /\ Representable(ToMajor(FromMajor(a)))
  <2>1. MaxCents \in Nat BY MoneyAssumption
  <2>2. -(10 * MaxCents) <= a /\ a <= 10 * MaxCents BY <1>5 DEF Representable
  <2>3. -MaxCents <= FromMajor(a) /\ FromMajor(a) <= MaxCents
    BY <1>2, <1>3, <2>1, <2>2 DEF ToMajor
  <2>. QED BY <1>2, <2>1, <2>3 DEF ToMajor, Representable
<1>. QED BY <1>1, <1>2, <1>3, <1>4, <1>5

\* mergeDuplicateEmailLogs deletes a row only when each column it fills is filled
\* in the row that is kept, which keeps what it told, but for one whose UPDATE
\* has failed.
THEOREM MergedRowsFillIn == StartSpec => WhatWasToldIsTold
<1>1. SecretInv /\ MergeInv /\ [StartNext]_startVars =>
        [\A m \in Messages, f \in Fields :
           \/ hand.message = m /\ ~hand.ok
           \/ /\ \A v \in Told(m, f) : \E w \in Told(m, f) \cap Told(m, f)' : f \in Counted => v <= w
              /\ \A l \in RowsOf(m) :
                   logs'[l] # Null /\ logs[l].tells[f] # 0 =>
                     \/ logs'[l].tells[f] = logs[l].tells[f]
                     \/ f \in Counted /\ logs'[l].tells[f] > logs[l].tells[f]]_startVars
  BY MergeNext DEF KeepsWord, SparesRows
<1>2. SecretInv /\ MergeInv /\ [StartNext]_startVars => MergeInv' BY MergeNext
<1>3. StartSpec => StartInit /\ [][StartNext]_startVars BY PTL DEF StartSpec
<1>. QED BY <1>1, <1>2, <1>3, SecretInit, SecretNext, MergeInit, PTL DEF WhatWasToldIsTold

-----------------------------------------------------------------------------
(* The samples of the repository. *)

\* The hash of a sample is that of the text before anything was hidden; a file
\* without a hash is not redacted.
Honest(x) == x.hash = Raw(x.text.of)
HonestFile(p) == IF p.hash = None THEN p.text = Raw(p.text.of) ELSE Honest(p)

SamplesHonest == \A s \in Kept : Honest(samples[s])
FilesHonest   == \A f \in Files : repo[f] # None => HonestFile(repo[f])

\* A mark past its first step has a sample in hand.
MarksHonest ==
    \A c \in Clients : req[c].pc # "idle" => req[c].new \in Sample /\ Honest(req[c].new)

\* The import has only files left that are there.
TodoIsThere ==
    /\ phase # "import" => todo = {}
    /\ \A f \in todo : repo[f] # None

IInv == TypeOK /\ SamplesHonest /\ FilesHonest /\ MarksHonest /\ TodoIsThere

\* Of one kind, no two samples have one hash.
HashIsOfOne ==
    \A s, t \in Kept : samples[s].kind = samples[t].kind /\ samples[s].hash = samples[t].hash => s = t

\* Nobody marks while the server does not serve.
MarksAreServed == phase # "serve" => \A c \in Clients : req[c].pc = "idle"

\* The files that the import has reached, and that they come first.
Reached == {f \in Files : repo[f] # None /\ f \notin todo}
InOrder ==
    /\ \A f \in Reached, g \in todo : f < g
    /\ \A f \in Files : errs[f] # "no" => f \in Reached

SameText(f, g) == repo[f].kind = repo[g].kind /\ HashOf(repo[f]) = HashOf(repo[g])

\* f has its sample, or a later file that was reached has taken it over.
Served(f) ==
    \E s \in Kept, g \in Reached :
        f <= g /\ samples[s] = FromFile(g) /\ SameText(f, g)

\* The sample of another text that stands in the way of f.
Refused(f) ==
    \E s \in Kept :
        samples[s].source \in Files /\ f <= samples[s].source /\ samples[s].hash # HashOf(repo[f])

Mirrored ==
    phase \in {"import", "ready"} =>
        /\ InOrder
        /\ \A f \in Reached : errs[f] = "no" => Served(f)
        /\ \A f \in Files : errs[f] = "conflict" => Refused(f)

\* When the import has ended, it has reached every file.
AllReached == phase = "ready" => todo = {}

MirrorInv == IInv /\ HashIsOfOne /\ MarksAreServed /\ Mirrored /\ AllReached

-----------------------------------------------------------------------------
LEMMA InitOK == Init => IInv
BY DEF Init, IInv, TypeOK, SamplesHonest, FilesHonest, MarksHonest, TodoIsThere, Kept, NoReq, Request

LEMMA RawIsText == ASSUME NEW t \in Texts PROVE Raw(t) \in Text /\ Raw(t).of = t
BY DEF Raw, Text

\* What the import makes of a file.
LEMMA FromFileOK ==
    ASSUME IInv, NEW f \in Files, repo[f] # None
    PROVE  FromFile(f) \in Sample /\ Honest(FromFile(f))
<1>1. repo[f] \in Payload /\ HonestFile(repo[f]) BY DEF IInv, TypeOK, FilesHonest
<1>2. HashOf(repo[f]) \in Text /\ HashOf(repo[f]) = Raw(repo[f].text.of)
  BY <1>1 DEF HashOf, Payload, HonestFile, Honest
<1>. QED BY <1>1, <1>2 DEF FromFile, Sample, Payload, Honest, Records

\* The table is changed by one honest row, or rows go.
LEMMA WrittenOK ==
    ASSUME IInv, NEW row \in Sample, Honest(row),
           samples' = samples \/ \E s \in Rows : samples' = [samples EXCEPT ![s] = row]
    PROVE  samples' \in [Rows -> Sample \cup {None}] /\ SamplesHonest'
BY DEF IInv, TypeOK, SamplesHonest, Kept

LEMMA ImportOK ==
    ASSUME IInv, NEW f \in Files, ImportFile(f)
    PROVE  IInv'
<1>1. repo[f] # None BY DEF ImportFile, IInv, TodoIsThere
<1>2. FromFile(f) \in Sample /\ Honest(FromFile(f)) BY <1>1, FromFileOK
<1>3. /\ samples' = samples \/ \E s \in Rows : samples' = [samples EXCEPT ![s] = FromFile(f)]
      /\ errs' \in [Files -> {"no", "conflict", "fault"}]
  BY DEF ImportFile, Inserted, Promoted, ByHash, Kept, IInv, TypeOK
<1>4. samples' \in [Rows -> Sample \cup {None}] /\ SamplesHonest' BY <1>2, <1>3, WrittenOK
<1>5. todo' \subseteq todo /\ phase = "import" /\ UNCHANGED <<records, repo, phase, req>>
  BY DEF ImportFile
<1>6. TypeOK' BY <1>3, <1>4, <1>5 DEF IInv, TypeOK
<1>. QED BY <1>4, <1>5, <1>6 DEF IInv, FilesHonest, MarksHonest, TodoIsThere

\* Start, stop, and an import that goes on or ends.
LEMMA LifeOK ==
    ASSUME IInv, Start \/ Stop \/ ImportEnds \/ Serve \/ \E f \in Files : ImportFails(f)
    PROVE  IInv'
<1>1. UNCHANGED <<records, samples, repo>>
  BY DEF Start, Stop, ImportEnds, Serve, ImportFails
<1>2. \A c \in Clients : req'[c] = req[c] \/ req'[c] = NoReq
  BY DEF Start, Stop, ImportEnds, Serve, ImportFails
<1>3. TypeOK' /\ TodoIsThere'
  BY DEF IInv, TypeOK, TodoIsThere, Start, Stop, ImportEnds, Serve, ImportFails, NoReq, Request
<1>. QED BY <1>1, <1>2, <1>3
      DEF IInv, SamplesHonest, Kept, FilesHonest, MarksHonest, NoReq

LEMMA EditOK ==
    ASSUME IInv, NEW r \in Records, EditRecord(r)
    PROVE  IInv'
<1>1. records' \in [Records -> [text: Texts, value: Values]] BY DEF EditRecord, IInv, TypeOK
<1>2. UNCHANGED <<samples, repo, phase, todo, errs, req>> BY DEF EditRecord
<1>. QED BY <1>1, <1>2 DEF IInv, TypeOK, SamplesHonest, Kept, FilesHonest, MarksHonest, TodoIsThere

\* A request changes what it has in hand.
LEMMA InHandOK ==
    ASSUME IInv, NEW c \in Clients, NEW q \in Request, req' = [req EXCEPT ![c] = q],
           q.pc # "idle" => q.new \in Sample /\ Honest(q.new),
           UNCHANGED <<records, repo, phase, todo, errs>>,
           samples' \in [Rows -> Sample \cup {None}], SamplesHonest'
    PROVE  IInv'
<1>1. TypeOK' BY DEF IInv, TypeOK
<1>2. MarksHonest' BY DEF IInv, TypeOK, MarksHonest
<1>. QED BY <1>1, <1>2 DEF IInv, FilesHonest, TodoIsThere

LEMMA MarkReadsOK ==
    ASSUME IInv, NEW c \in Clients, NEW r \in Records, MarkReads(c, r)
    PROVE  IInv'
<1>. DEFINE text == Raw(records[r].text)
            new == [kind |-> KindOf(r), origin |-> "ui", source |-> r, text |-> text,
                    hash |-> text, value |-> records[r].value]
            q == [pc |-> FirstLook(r), found |-> None, new |-> new]
<1>1. records[r].text \in Texts /\ records[r].value \in Values BY DEF IInv, TypeOK
<1>2. text \in Text /\ text.of = records[r].text BY <1>1, RawIsText
<1>. HIDE DEF text
<1>3. new \in Sample /\ new.hash = text /\ new.text = text BY <1>1, <1>2 DEF Sample, KindOf, Kinds
<1>4. Honest(new)
  <2>1. Raw(text.of) = text BY <1>2 DEF text
  <2>. QED BY <1>3, <2>1 DEF Honest
<1>. HIDE DEF new
<1>5. q \in Request /\ q.new = new BY <1>3 DEF Request, FirstLook
<1>6. req' = [req EXCEPT ![c] = q] /\ UNCHANGED <<records, samples, repo, phase, todo, errs>>
  BY DEF MarkReads, new, text
<1>. HIDE DEF q
<1>. QED BY <1>3, <1>4, <1>5, <1>6, InHandOK DEF IInv, TypeOK, SamplesHonest, Kept

LEMMA LooksOK ==
    ASSUME IInv, NEW c \in Clients, MarkByHash(c) \/ MarkBySource(c)
    PROVE  IInv'
<1>1. req[c] \in Request /\ req[c].pc # "idle" BY DEF IInv, TypeOK, MarkByHash, MarkBySource
<1>2. req[c].new \in Sample /\ Honest(req[c].new) BY <1>1 DEF IInv, MarksHonest
<1>3. PICK q \in Request : req' = [req EXCEPT ![c] = q] /\ q.new = req[c].new
  <2>1. ASSUME NEW s \in Rows, req' = [req EXCEPT ![c].pc = "write", ![c].found = s]
        PROVE  \E q \in Request : req' = [req EXCEPT ![c] = q] /\ q.new = req[c].new
    <3>. DEFINE q == [[req[c] EXCEPT !.pc = "write"] EXCEPT !.found = s]
    <3>1. q \in Request /\ q.new = req[c].new BY <1>1 DEF Request
    <3>2. req' = [req EXCEPT ![c] = q] BY <1>1, <2>1 DEF IInv, TypeOK
    <3>. QED BY <3>1, <3>2
  <2>2. ASSUME NEW step \in {"source", "write"}, req' = [req EXCEPT ![c].pc = step]
        PROVE  \E q \in Request : req' = [req EXCEPT ![c] = q] /\ q.new = req[c].new
    <3>. DEFINE q == [req[c] EXCEPT !.pc = step]
    <3>1. q \in Request /\ q.new = req[c].new BY <1>1 DEF Request
    <3>. QED BY <2>2, <3>1
  <2>. QED BY <2>1, <2>2 DEF MarkByHash, MarkBySource, Looks, ByHash, BySource, Kept
<1>4. UNCHANGED <<records, samples, repo, phase, todo, errs>>
  BY DEF MarkByHash, MarkBySource, Looks
<1>. QED BY <1>2, <1>3, <1>4, InHandOK DEF IInv, TypeOK, SamplesHonest, Kept

LEMMA MarkWritesOK ==
    ASSUME IInv, NEW c \in Clients, MarkUpdates(c) \/ MarkInserts(c)
    PROVE  IInv'
<1>1. req[c].new \in Sample /\ Honest(req[c].new)
  BY DEF IInv, MarksHonest, MarkUpdates, MarkInserts
<1>2. NoReq \in Request /\ NoReq.pc = "idle" BY DEF NoReq, Request
<1>3. req' = [req EXCEPT ![c] = NoReq] /\ UNCHANGED <<records, repo, phase, todo, errs>>
  BY DEF MarkUpdates, MarkInserts
<1>4. PICK row \in Sample :
        /\ Honest(row)
        /\ samples' = samples \/ \E s \in Rows : samples' = [samples EXCEPT ![s] = row]
  <2>1. CASE MarkInserts(c) BY <1>1, <2>1 DEF MarkInserts, Inserted, Kept
  <2>2. CASE MarkUpdates(c)
    <3>. DEFINE s == req[c].found
                row == Remarked(s, req[c].new)
    <3>1. CASE s \in Kept
      <4>1. s \in Rows /\ samples[s] \in Sample BY <3>1 DEF IInv, TypeOK, Kept
      <4>2. row \in Sample /\ row.hash = req[c].new.hash /\ row.text = req[c].new.text
        BY <1>1, <4>1 DEF Remarked, Sample
      <4>3. Honest(row) BY <1>1, <4>2 DEF Honest
      <4>4. samples' = samples \/ samples' = [samples EXCEPT ![s] = row]
        BY <2>2 DEF MarkUpdates
      <4>. HIDE DEF row
      <4>. QED BY <4>1, <4>2, <4>3, <4>4
    <3>2. CASE s \notin Kept BY <1>1, <2>2, <3>2 DEF MarkUpdates
    <3>. QED BY <3>1, <3>2
  <2>. QED BY <2>1, <2>2
<1>5. samples' \in [Rows -> Sample \cup {None}] /\ SamplesHonest' BY <1>4, WrittenOK
<1>. QED BY <1>2, <1>3, <1>5, InHandOK

LEMMA DeletionOK ==
    ASSUME IInv, (\E s \in Rows : Delete(s)) \/ (\E ids \in SUBSET Rows : BulkDelete(ids))
    PROVE  IInv'
<1>1. UNCHANGED <<records, repo, phase, todo, errs, req>> BY DEF Delete, BulkDelete
<1>2. samples' \in [Rows -> Sample \cup {None}] BY DEF Delete, BulkDelete, IInv, TypeOK
<1>3. \A s \in Rows : samples'[s] = samples[s] \/ samples'[s] = None
  BY DEF Delete, BulkDelete, IInv, TypeOK
<1>4. SamplesHonest' BY <1>3 DEF IInv, SamplesHonest, Kept
<1>. QED BY <1>1, <1>2, <1>4 DEF IInv, TypeOK, FilesHonest, MarksHonest, TodoIsThere

\* A file of the repository is written or removed.
LEMMA FileOK ==
    ASSUME IInv, NEW f \in Files, NEW p \in Payload \cup {None}, p # None => HonestFile(p),
           repo' = [repo EXCEPT ![f] = p], phase # "import",
           UNCHANGED <<records, samples, phase, todo, errs, req>>
    PROVE  IInv'
<1>1. TypeOK' BY DEF IInv, TypeOK
<1>2. FilesHonest' BY DEF IInv, TypeOK, FilesHonest
<1>3. todo' = {} BY DEF IInv, TodoIsThere
<1>. QED BY <1>1, <1>2, <1>3 DEF IInv, SamplesHonest, Kept, MarksHonest, TodoIsThere

LEMMA ExportOK ==
    ASSUME IInv, NEW f \in Files,
           \/ \E s \in Rows : ExportZip(s, f)
           \/ \E r \in Records : ExportCommand(r, f)
           \/ Removed(f)
    PROVE  IInv'
<1>1. CASE Removed(f) BY <1>1, FileOK DEF Removed, Committing
<1>2. ASSUME NEW s \in Rows, ExportZip(s, f) PROVE IInv'
  <2>1. PICK redact \in BOOLEAN : repo' = [repo EXCEPT ![f] = Exported(samples[s], redact)]
    BY <1>2 DEF ExportZip
  <2>. DEFINE row == samples[s]
              p == Exported(row, redact)
  <2>2. row \in Sample /\ Honest(row) BY <1>2 DEF ExportZip, IInv, TypeOK, SamplesHonest, Kept
  <2>. HIDE DEF row
  <2>3. Redacted(row.text) \in Text /\ Redacted(row.text).of = row.text.of
    BY <2>2 DEF Redacted, Text, Sample
  <2>4. p \in Payload /\ p.hash = row.hash /\ p.text.of = row.text.of
    BY <2>2, <2>3 DEF Exported, Payload, Sample
  <2>5. Honest(p) BY <2>2, <2>4 DEF Honest
  <2>6. row.hash \in Text BY <2>2 DEF Sample
  <2>7. p.hash # None
    BY <2>4, <2>6, NoneAssumption
  <2>8. HonestFile(p) BY <2>5, <2>7 DEF HonestFile
  <2>9. repo' = [repo EXCEPT ![f] = p] BY <2>1 DEF row
  <2>. HIDE DEF p
  <2>. QED BY <1>2, <2>4, <2>8, <2>9, FileOK DEF ExportZip
<1>3. ASSUME NEW r \in Records, ExportCommand(r, f) PROVE IInv'
  <2>1. PICK v \in Values :
          repo' = [repo EXCEPT ![f] = [kind |-> KindOf(r), text |-> Raw(records[r].text),
                                       hash |-> None, value |-> v]]
    BY <1>3 DEF ExportCommand
  <2>. DEFINE text == Raw(records[r].text)
              p == [kind |-> KindOf(r), text |-> text, hash |-> None, value |-> v]
  <2>2. text \in Text /\ text.of = records[r].text BY RawIsText DEF IInv, TypeOK
  <2>3. Raw(text.of) = text BY <2>2
  <2>4. repo' = [repo EXCEPT ![f] = p] BY <2>1
  <2>. HIDE DEF text
  <2>5. p \in Payload BY <2>2 DEF Payload, KindOf, Kinds
  <2>6. HonestFile(p) BY <2>3 DEF HonestFile
  <2>. HIDE DEF p
  <2>. QED BY <1>3, <2>4, <2>5, <2>6, FileOK DEF ExportCommand, Committing
<1>. QED BY <1>1, <1>2, <1>3

LEMMA NextOK == IInv /\ [Next]_vars => IInv'
<1>. SUFFICES ASSUME IInv, [Next]_vars PROVE IInv' OBVIOUS
<1>1. CASE Lifecycle BY <1>1, LifeOK, ImportOK, ExportOK DEF Lifecycle
<1>2. CASE Marking BY <1>2, MarkReadsOK, LooksOK, MarkWritesOK DEF Marking
<1>3. CASE Others BY <1>3, EditOK, DeletionOK, ExportOK DEF Others
<1>4. CASE UNCHANGED vars
  BY <1>4 DEF vars, IInv, TypeOK, SamplesHonest, Kept, FilesHonest, MarksHonest, TodoIsThere
<1>. QED BY <1>1, <1>2, <1>3, <1>4 DEF Next

-----------------------------------------------------------------------------
(* The import, file by file. *)

\* What a statement does to the table: one row is written that no index
\* refuses, or rows go.
TableStep ==
    \/ \E s \in Rows, x \in Sample : samples' = [samples EXCEPT ![s] = x] /\ Unique(x, s)
    \/ \A s \in Rows : samples'[s] \in {samples[s], None}

LEMMA InsertedOK ==
    ASSUME TypeOK, NEW x \in Sample, Inserted(x)
    PROVE  TableStep
BY NoneAssumption DEF Inserted, Unique, ByHash, BySource, Kept, TableStep

LEMMA TableOK == ASSUME IInv, [Next]_vars PROVE TableStep
<1>0. TypeOK BY DEF IInv
<1>1. ASSUME NEW f \in Files, ImportFile(f) PROVE TableStep
  <2>1. FromFile(f) \in Sample BY <1>1, FromFileOK DEF ImportFile, IInv, TodoIsThere
  <2>2. \/ Inserted(FromFile(f)) \/ UNCHANGED samples
        \/ \E s \in Rows : samples' = [samples EXCEPT ![s] = FromFile(f)] /\ Unique(FromFile(f), s)
    BY <1>1 DEF ImportFile, Promoted, ByHash, Kept
  <2>. QED BY <1>0, <2>1, <2>2, InsertedOK DEF TableStep
<1>2. ASSUME NEW c \in Clients, MarkInserts(c) PROVE TableStep
  BY <1>0, <1>2, InsertedOK DEF MarkInserts, IInv, MarksHonest
<1>3. ASSUME NEW c \in Clients, MarkUpdates(c) PROVE TableStep
  <2>. DEFINE s == req[c].found
              x == Remarked(s, req[c].new)
  <2>1. CASE s \in Kept /\ Unique(x, s)
    <3>1. s \in Rows /\ samples[s] \in Sample /\ req[c].new \in Sample
      BY <1>3, <2>1 DEF IInv, TypeOK, Kept, MarkUpdates, MarksHonest
    <3>2. x \in Sample BY <3>1 DEF Remarked, Sample
    <3>3. samples' = [samples EXCEPT ![s] = x] BY <1>3, <2>1 DEF MarkUpdates
    <3>. HIDE DEF x
    <3>. QED BY <2>1, <3>1, <3>2, <3>3 DEF TableStep
  <2>2. CASE ~(s \in Kept /\ Unique(x, s)) BY <1>3, <2>2 DEF MarkUpdates, TableStep
  <2>. QED BY <2>1, <2>2
<1>4. ASSUME UNCHANGED samples PROVE TableStep BY <1>4 DEF TableStep
<1>5. ASSUME NEW s \in Rows, Delete(s) PROVE TableStep BY <1>0, <1>5 DEF Delete, TableStep, TypeOK
<1>6. ASSUME NEW ids \in SUBSET Rows, BulkDelete(ids) PROVE TableStep BY <1>6 DEF BulkDelete, TableStep
<1>7. CASE Lifecycle
  BY <1>1, <1>4, <1>7 DEF Lifecycle, Start, Stop, ImportEnds, Serve, Removed, ImportFails
<1>8. CASE Marking
  BY <1>2, <1>3, <1>4, <1>8 DEF Marking, MarkReads, MarkByHash, MarkBySource, Looks
<1>9. CASE Others BY <1>4, <1>5, <1>6, <1>9 DEF Others, EditRecord, ExportCommand, ExportZip
<1>. QED BY <1>4, <1>7, <1>8, <1>9 DEF Next, vars

LEMMA HashOK ==
    ASSUME TypeOK, HashIsOfOne, TableStep
    PROVE  HashIsOfOne'
<1>1. CASE \A s \in Rows : samples'[s] \in {samples[s], None}
  BY <1>1 DEF HashIsOfOne, Kept
<1>2. ASSUME NEW s \in Rows, NEW x \in Sample,
             samples' = [samples EXCEPT ![s] = x], Unique(x, s)
      PROVE  HashIsOfOne'
  <2>1. \A t \in Kept \ {s} : ~(samples[t].kind = x.kind /\ samples[t].hash = x.hash)
    BY <1>2 DEF Unique, ByHash
  <2>2. samples'[s] = x /\ \A t \in Rows \ {s} : samples'[t] = samples[t] BY <1>2 DEF TypeOK
  <2>3. \A t \in Kept' : t # s => t \in Kept \ {s} /\ samples'[t] = samples[t] BY <2>2 DEF Kept
  <2>. QED BY <2>1, <2>2, <2>3 DEF HashIsOfOne
<1>. QED BY <1>1, <1>2 DEF TableStep

\* What Mirrored speaks of stays as it is.
LEMMA MirroredStays ==
    ASSUME Mirrored, UNCHANGED <<samples, repo, todo, errs>>,
           phase' \in {"import", "ready"} => phase \in {"import", "ready"}
    PROVE  Mirrored'
BY DEF Mirrored, InOrder, Reached, Served, Refused, SameText, FromFile, Kept, HashOf

LEMMA StartMirrors == ASSUME IInv, Start PROVE Mirrored'
<1>1. Reached' = {} BY DEF Start, Reached
<1>2. \A f \in Files : errs'[f] = "no" BY DEF Start
<1>. QED BY <1>1, <1>2 DEF Mirrored, InOrder

\* One more file is reached, all others being as they were.
LEMMA ReachedNext ==
    ASSUME MirrorInv, NEW h \in Files, phase = "import", h \in todo, \A g \in todo : h <= g,
           todo' = todo \ {h}, repo' = repo, NEW e \in {"no", "conflict", "fault"},
           errs' = [errs EXCEPT ![h] = e]
    PROVE  /\ Reached' = Reached \cup {h}
           /\ InOrder'
           /\ \A f \in Reached' : f <= h
           /\ errs'[h] = e
           /\ \A f \in Reached : f \in Files /\ f # h /\ errs'[f] = errs[f]
           /\ \A f \in Files : f # h => errs'[f] = errs[f]
<1>1. repo[h] # None /\ errs \in [Files -> {"no", "conflict", "fault"}] /\ todo \subseteq Files
  BY DEF MirrorInv, IInv, TypeOK, TodoIsThere
<1>2. Reached' = Reached \cup {h} BY <1>1 DEF Reached
<1>3. InOrder BY DEF MirrorInv, Mirrored
<1>4. \A f \in Reached : f < h BY <1>3 DEF InOrder
<1>5. \A g \in todo \ {h} : h < g BY <1>1, FilesAssumption
<1>6. \A f \in Reached : f \in Files BY DEF Reached
<1>7. InOrder'
  BY <1>1, <1>2, <1>3, <1>4, <1>5 DEF InOrder
<1>8. \A f \in Reached : f <= h
  <2>1. \A f, g \in Nat : f < g => f <= g OBVIOUS
  <2>. QED BY <1>4, <1>6, <2>1, FilesAssumption
<1>9. h <= h BY FilesAssumption
<1>10. \A f \in Reached' : f <= h BY <1>2, <1>8, <1>9
<1>11. \A f \in Reached : f # h BY <1>1, <1>6 DEF Reached
<1>12. errs'[h] = e /\ \A f \in Files : f # h => errs'[f] = errs[f] BY <1>1
<1>. QED BY <1>2, <1>6, <1>7, <1>10, <1>11, <1>12

LEMMA FailMirrors ==
    ASSUME MirrorInv, NEW h \in Files, ImportFails(h)
    PROVE  Mirrored'
<1>1. /\ Reached' = Reached \cup {h} /\ InOrder' /\ errs'[h] = "fault"
      /\ \A f \in Reached : f \in Files /\ f # h /\ errs'[f] = errs[f]
      /\ \A f \in Files : f # h => errs'[f] = errs[f]
  BY ReachedNext DEF ImportFails
<1>2. \A f \in Reached : Served(f) => Served(f)'
  BY <1>1 DEF ImportFails, Served, SameText, FromFile, Kept, HashOf
<1>3. \A f \in Files : Refused(f) => Refused(f)'
  BY DEF ImportFails, Refused, Kept, HashOf
<1>4. phase = "import" BY DEF ImportFails
<1>. QED BY <1>1, <1>2, <1>3, <1>4 DEF Mirrored, MirrorInv

\* A sample is written for h, where there was none or one of the same text: who
\* had a sample, has it still, and who was refused, is.
LEMMA WriteMirrors ==
    ASSUME MirrorInv, NEW h \in Files, phase = "import", h \in todo, \A g \in todo : h <= g,
           todo' = todo \ {h}, UNCHANGED <<repo, phase, errs>>,
           NEW s \in Rows, samples' = [samples EXCEPT ![s] = FromFile(h)],
           s \in Kept => samples[s].kind = repo[h].kind /\ samples[s].hash = HashOf(repo[h])
    PROVE  Mirrored'
<1>0. TypeOK /\ repo[h] # None /\ Mirrored /\ errs[h] = "no"
  BY DEF MirrorInv, IInv, TypeOK, TodoIsThere, Mirrored, InOrder, Reached
<1>1. /\ Reached' = Reached \cup {h} /\ InOrder' /\ \A f \in Reached' : f <= h
      /\ \A f \in Files : f # h => errs'[f] = errs[f]
  <2>1. errs' = [errs EXCEPT ![h] = "no"] BY <1>0 DEF TypeOK
  <2>. QED BY <2>1, ReachedNext
<1>2. /\ s \in Kept' /\ samples'[s] = FromFile(h)
      /\ \A t \in Rows \ {s} : samples'[t] = samples[t]
      /\ FromFile(h).source = h /\ FromFile(h).hash = HashOf(repo[h])
      /\ FromFile(h).kind = repo[h].kind
  <2>1. FromFile(h) \in Sample BY <1>0, FromFileOK DEF MirrorInv
  <2>2. FromFile(h) # None BY <2>1, RowAssumption
  <2>. QED BY <1>0, <2>2 DEF TypeOK, Kept, FromFile
<1>3. \A t \in Kept : t # s => t \in Kept' BY <1>2 DEF Kept
<1>4. FromFile(h)' = FromFile(h) /\ \A f \in Files : FromFile(f)' = FromFile(f)
  BY DEF FromFile, HashOf
<1>5. \A f, g \in Files : SameText(f, g)' = SameText(f, g) BY DEF SameText, HashOf
<1>6. ASSUME NEW f \in Reached', errs'[f] = "no" PROVE Served(f)'
  <2>1. CASE f = h
    <3>1. h <= h BY FilesAssumption
    <3>. QED BY <1>1, <1>2, <1>4, <2>1, <3>1 DEF Served, SameText
  <2>2. CASE f # h
    <3>1. f \in Reached /\ f \in Files /\ Served(f) BY <1>0, <1>1, <1>6, <2>2 DEF Mirrored, Reached
    <3>2. PICK t \in Kept, g \in Reached : f <= g /\ samples[t] = FromFile(g) /\ SameText(f, g)
      BY <3>1 DEF Served
    <3>3. g \in Files /\ g \in Reached' BY <1>1 DEF Reached
    <3>4. CASE t # s BY <1>2, <1>3, <1>4, <1>5, <3>1, <3>2, <3>3, <3>4 DEF Served, Kept
    <3>5. CASE t = s
      <4>1. FromFile(g).kind = repo[g].kind /\ FromFile(g).hash = HashOf(repo[g]) BY DEF FromFile
      <4>2. SameText(f, h) BY <3>2, <3>5, <4>1 DEF SameText
      <4>3. h \in Reached' /\ f <= h BY <1>1, <1>6
      <4>. QED BY <1>2, <1>4, <1>5, <3>1, <4>2, <4>3 DEF Served
    <3>. QED BY <3>4, <3>5
  <2>. QED BY <2>1, <2>2
<1>7. ASSUME NEW f \in Files, errs'[f] = "conflict" PROVE Refused(f)'
  <2>1. f # h /\ errs[f] = "conflict" BY <1>0, <1>7
  <2>2. f \in Reached' BY <1>1, <1>7 DEF InOrder
  <2>3. PICK t \in Kept : /\ samples[t].source \in Files /\ f <= samples[t].source
                          /\ samples[t].hash # HashOf(repo[f])
    BY <1>0, <2>1 DEF Mirrored, Refused
  <2>4. CASE t # s BY <1>2, <1>3, <2>3, <2>4 DEF Refused, Kept, HashOf
  <2>5. CASE t = s BY <1>1, <1>2, <2>2, <2>3, <2>5 DEF Refused, HashOf
  <2>. QED BY <2>4, <2>5
<1>. QED BY <1>1, <1>6, <1>7 DEF Mirrored

\* An index refuses h, because of a sample of another text under its path.
LEMMA ConflictMirrors ==
    ASSUME MirrorInv, NEW h \in Files, phase = "import", h \in todo, \A g \in todo : h <= g,
           todo' = todo \ {h}, UNCHANGED <<repo, phase, samples>>,
           errs' = [errs EXCEPT ![h] = "conflict"],
           NEW s \in Kept, samples[s].source = h, samples[s].hash # HashOf(repo[h])
    PROVE  Mirrored'
<1>1. /\ Reached' = Reached \cup {h} /\ InOrder' /\ errs'[h] = "conflict"
      /\ \A f \in Reached : f \in Files /\ f # h /\ errs'[f] = errs[f]
      /\ \A f \in Files : f # h => errs'[f] = errs[f]
  BY ReachedNext
<1>2. \A f \in Reached : Served(f) => Served(f)'
  BY <1>1 DEF Served, SameText, FromFile, Kept, HashOf
<1>3. \A f \in Files : Refused(f) => Refused(f)' BY DEF Refused, Kept, HashOf
<1>4. Refused(h)'
  <2>1. h <= h BY FilesAssumption
  <2>. QED BY <2>1 DEF Refused, Kept, HashOf
<1>. QED BY <1>1, <1>2, <1>3, <1>4 DEF Mirrored, MirrorInv

LEMMA ImportMirrors ==
    ASSUME MirrorInv, NEW h \in Files, ImportFile(h)
    PROVE  Mirrored'
<1>. DEFINE x == FromFile(h)
<1>1. /\ phase = "import" /\ h \in todo /\ todo' = todo \ {h} /\ \A g \in todo : h <= g
      /\ UNCHANGED <<repo, phase>>
  BY DEF ImportFile
<1>2. x.source = h /\ x.kind = repo[h].kind /\ x.hash = HashOf(repo[h]) BY DEF FromFile
<1>3. errs \in [Files -> {"no", "conflict", "fault"}] /\ errs[h] = "no" /\ HashIsOfOne
  BY <1>1 DEF MirrorInv, IInv, TypeOK, Mirrored, InOrder, Reached
<1>4. \/ /\ ByHash(x.kind, x.hash) = {} /\ Inserted(x)
         /\ errs' = [errs EXCEPT ![h] = IF Unique(x, None) THEN "no" ELSE "conflict"]
      \/ \E s \in ByHash(x.kind, x.hash) :
            IF Unique(x, s) THEN samples' = [samples EXCEPT ![s] = x] /\ UNCHANGED errs
                            ELSE errs' = [errs EXCEPT ![h] = "conflict"] /\ UNCHANGED samples
  BY DEF ImportFile, Promoted
<1>. HIDE DEF x
<1>5. CASE /\ ByHash(x.kind, x.hash) = {} /\ Inserted(x)
           /\ errs' = [errs EXCEPT ![h] = IF Unique(x, None) THEN "no" ELSE "conflict"]
  <2>1. CASE Unique(x, None)
    <3>1. UNCHANGED errs BY <1>3, <1>5, <2>1
    <3>2. PICK s \in Rows \ Kept : samples' = [samples EXCEPT ![s] = x] BY <1>5, <2>1 DEF Inserted
    <3>. QED BY <1>1, <3>1, <3>2, WriteMirrors DEF x
  <2>2. CASE ~Unique(x, None)
    <3>1. PICK s \in Kept : samples[s].source = h /\ samples[s].kind = x.kind
      BY <1>2, <1>5, <2>2 DEF Unique, BySource
    <3>2. samples[s].hash # HashOf(repo[h]) BY <1>2, <1>5, <3>1 DEF ByHash
    <3>3. UNCHANGED samples /\ errs' = [errs EXCEPT ![h] = "conflict"] BY <1>5, <2>2 DEF Inserted
    <3>. QED BY <1>1, <3>1, <3>2, <3>3, ConflictMirrors
  <2>. QED BY <2>1, <2>2
<1>6. ASSUME NEW s \in ByHash(x.kind, x.hash),
             IF Unique(x, s) THEN samples' = [samples EXCEPT ![s] = x] /\ UNCHANGED errs
                             ELSE errs' = [errs EXCEPT ![h] = "conflict"] /\ UNCHANGED samples
      PROVE  Mirrored'
  <2>1. s \in Kept /\ s \in Rows /\ samples[s].kind = x.kind /\ samples[s].hash = x.hash
    BY DEF ByHash, Kept
  <2>2. CASE Unique(x, s) BY <1>1, <1>2, <1>6, <2>1, <2>2, WriteMirrors DEF x
  <2>3. CASE ~Unique(x, s)
    <3>1. PICK t \in Kept : /\ t # s /\ samples[t].kind = x.kind
                            /\ samples[t].source = h \/ samples[t].hash = x.hash
      BY <1>2, <2>3 DEF Unique, BySource, ByHash
    <3>2. samples[t].hash # x.hash BY <1>3, <2>1, <3>1 DEF HashIsOfOne
    <3>. QED BY <1>1, <1>2, <1>6, <2>3, <3>1, <3>2, ConflictMirrors
  <2>. QED BY <2>2, <2>3
<1>. QED BY <1>4, <1>5, <1>6

LEMMA MirrorNext == MirrorInv /\ [Next]_vars => MirrorInv'
<1>. SUFFICES ASSUME MirrorInv, [Next]_vars PROVE MirrorInv' OBVIOUS
<1>1. IInv' BY NextOK DEF MirrorInv
<1>2. HashIsOfOne' BY TableOK, HashOK DEF MirrorInv, IInv
<1>3. MarksAreServed' /\ AllReached'
  <2>1. MarksAreServed /\ AllReached /\ req \in [Clients -> Request]
    BY DEF MirrorInv, IInv, TypeOK
  <2>2. CASE Lifecycle
    BY <2>1, <2>2 DEF MarksAreServed, AllReached, Lifecycle, Start, Stop, ImportEnds, Serve,
                      Removed, ImportFile, ImportFails, Committing, NoReq
  <2>3. CASE Marking
    <3>1. phase = "serve" /\ UNCHANGED phase
      BY <2>1, <2>3 DEF MarksAreServed, Marking, MarkReads, MarkByHash, MarkBySource, Looks,
                        MarkUpdates, MarkInserts
    <3>. QED BY <3>1 DEF MarksAreServed, AllReached
  <2>4. CASE Others
    BY <2>1, <2>4 DEF MarksAreServed, AllReached, Others, EditRecord, Delete, ExportCommand,
                      ExportZip, BulkDelete, Committing
  <2>5. CASE UNCHANGED vars BY <2>1, <2>5 DEF vars, MarksAreServed, AllReached
  <2>. QED BY <2>2, <2>3, <2>4, <2>5 DEF Next
<1>4. Mirrored'
  <2>1. phase' \in {"down", "serve"} => Mirrored' BY DEF Mirrored
  <2>2. IInv /\ Mirrored /\ MarksAreServed BY DEF MirrorInv
  <2>3. CASE Lifecycle
    <3>1. CASE Start BY <2>2, <3>1, StartMirrors
    <3>2. CASE Stop \/ Serve BY <2>1, <3>2 DEF Stop, Serve
    <3>3. CASE ImportEnds BY <2>2, <3>3, MirroredStays DEF ImportEnds
    <3>4. ASSUME NEW f \in Files, Removed(f) PROVE Mirrored'
      BY <2>1, <3>4 DEF Removed, Committing
    <3>. QED BY <2>3, <3>1, <3>2, <3>3, <3>4, ImportMirrors, FailMirrors DEF Lifecycle
  <2>4. CASE Marking
    <3>1. phase' = "serve"
      BY <2>2, <2>4 DEF MarksAreServed, Marking, MarkReads, MarkByHash, MarkBySource, Looks,
                        MarkUpdates, MarkInserts
    <3>. QED BY <2>1, <3>1
  <2>5. CASE Others
    <3>1. phase' \in {"down", "serve"}
      BY <2>5 DEF Others, EditRecord, Delete, ExportCommand, ExportZip, BulkDelete, Committing
    <3>. QED BY <2>1, <3>1
  <2>6. CASE UNCHANGED vars BY <2>2, <2>6, MirroredStays DEF vars
  <2>. QED BY <2>3, <2>4, <2>5, <2>6 DEF Next
<1>. QED BY <1>1, <1>2, <1>3, <1>4 DEF MirrorInv

-----------------------------------------------------------------------------
(* Theorems *)

\* Records, samples, files and marks of RegressionSamples keep their types.
THEOREM SamplesTypeCorrect == Spec => []TypeOK
<1>1. IInv => TypeOK BY DEF IInv
<1>. QED BY <1>1, InitOK, NextOK, PTL DEF Spec

\* A sample is found by the text it was made from, redacted or not, whichever
\* way it came into the table.
THEOREM FoundByItsText == Spec => []HashesAreOfOriginals
<1>1. IInv => HashesAreOfOriginals BY DEF IInv, SamplesHonest, Honest, HashesAreOfOriginals
<1>. QED BY <1>1, InitOK, NextOK, PTL DEF Spec

\* Whatever came before, an import that ends leaves of every file it reported no
\* error of the sample of its text, and was refused a file only for a sample
\* that an earlier build, or a later file of this one, has under a path.
THEOREM ImportMirrorsRepo == Spec => []RepoIsMirrored
<1>1. ASSUME Init PROVE MirrorInv
  <2>1. Kept = {} /\ phase = "down" /\ \A c \in Clients : req[c].pc = "idle"
    BY <1>1 DEF Init, Kept, NoReq
  <2>. QED BY <1>1, <2>1, InitOK DEF MirrorInv, HashIsOfOne, MarksAreServed, Mirrored, AllReached
<1>2. ASSUME MirrorInv, phase = "ready" PROVE RepoIsMirrored
  <2>1. Mirrored /\ todo = {} BY <1>2 DEF MirrorInv, AllReached
  <2>2. \A f \in Files : repo[f] # None <=> f \in Reached BY <2>1 DEF Reached
  <2>. QED BY <1>2, <2>1, <2>2 DEF Mirrored, Served, Refused, SameText, Reached, RepoIsMirrored
<1>3. MirrorInv => RepoIsMirrored BY <1>2 DEF RepoIsMirrored
<1>. QED BY <1>1, <1>3, MirrorNext, PTL DEF Spec
=============================================================================
