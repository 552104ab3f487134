--------------------------- MODULE RegressionSamples ---------------------------
(******************************************************************************)
(* Regression samples (services/regression_samples.go, its handlers,          *)
(* app.importRegressionSamples, cmd/regression_export).  The administrator    *)
(* marks a record, its recognised text and its corrected values become a      *)
(* sample, samples are exported and committed to the repository, and every    *)
(* start of the server imports the files of the repository it was built with. *)
(*                                                                            *)
(* A text is named, and what is hidden of it when it is redacted is a flag.   *)
(* The hash of a text is the text.  Every statement of a mark is a step; the  *)
(* import runs before requests are served.  Rows older than the column        *)
(* raw_hash get their hash in the first import, before the states of here;    *)
(* names, quality warnings and paths inside the archive are left out.         *)
(******************************************************************************)
EXTENDS Naturals, FiniteSets

CONSTANTS
    Payments, Invoices,     \* ids of confirmed records
    Texts,                  \* what is recognised
    Values,                 \* what should be parsed from it
    Files,                  \* paths of the repository, in the order of WalkDir
    Rows,                   \* ids of samples
    Clients,                \* marks in flight
    None

ASSUME FilesAssumption == Files \subseteq Nat

\* red: what should be hidden of it is.
Text == [of: Texts, red: BOOLEAN]

ASSUME NoneAssumption ==
    None \notin Payments \cup Invoices \cup Files \cup Rows \cup Text

Records == Payments \cup Invoices

VARIABLES
    records,    \* text and values of the confirmed records
    samples,    \* table regression_samples
    repo,       \* the files of the repository
    phase,      \* of the server
    todo,       \* files the import has not reached
    errs,       \* what the import has reported of each file
    req         \* marks in flight

vars == <<records, samples, repo, phase, todo, errs, req>>

Kinds   == {"payment_screenshot", "invoice"}
Payload == [kind: Kinds, text: Text, hash: Text \cup {None}, value: Values]
Sample  == [kind: Kinds, origin: {"ui", "repo"}, source: Records \cup Files,
            text: Text, hash: Text, value: Values]

ASSUME RowAssumption == None \notin Sample

Request == [pc: {"idle", "hash", "source", "write"}, new: Sample \cup {None}, found: Rows \cup {None}]
NoReq   == [pc |-> "idle", new |-> None, found |-> None]

TypeOK ==
    /\ records \in [Records -> [text: Texts, value: Values]]
    /\ samples \in [Rows -> Sample \cup {None}]
    /\ repo \in [Files -> Payload \cup {None}]
    /\ phase \in {"down", "import", "ready", "serve"}
    /\ todo \subseteq Files
    /\ errs \in [Files -> {"no", "conflict", "fault"}]
    /\ req \in [Clients -> Request]

Init ==
    /\ records \in [Records -> [text: Texts, value: Values]]
    /\ samples = [s \in Rows |-> None]
    /\ repo = [f \in Files |-> None]
    /\ phase = "down" /\ todo = {} /\ errs = [f \in Files |-> "no"]
    /\ req = [c \in Clients |-> NoReq]

------------------------------------------------------------------------------
Raw(t) == [of |-> t, red |-> FALSE]
KindOf(r) == IF r \in Payments THEN "payment_screenshot" ELSE "invoice"

Kept == {s \in Rows : samples[s] # None}
ByHash(kind, hash) == {s \in Kept : samples[s].kind = kind /\ samples[s].hash = hash}
BySource(kind, source) == {s \in Kept : samples[s].kind = kind /\ samples[s].source = source}

\* The unique indexes on (source, kind) and on (kind, raw_hash): no other row
\* than s may have them.
Unique(row, s) ==
    BySource(row.kind, row.source) \cup ByHash(row.kind, row.hash) \subseteq {s}

\* INSERT, or its refusal by an index.
Inserted(row) ==
    IF Unique(row, None)
    THEN \E s \in Rows \ Kept : samples' = [samples EXCEPT ![s] = row]
    ELSE UNCHANGED samples

------------------------------------------------------------------------------
(* Start, stop, and what goes on outside.                                   *)

Start ==
    /\ phase = "down"
    /\ phase' = "import"
    /\ todo' = {f \in Files : repo[f] # None}
    /\ errs' = [f \in Files |-> "no"]
    /\ UNCHANGED <<records, samples, repo, req>>

\* Also a crash, at any moment.
Stop ==
    /\ phase # "down"
    /\ phase' = "down" /\ todo' = {}
    /\ errs' = [f \in Files |-> "no"]
    /\ req' = [c \in Clients |-> NoReq]
    /\ UNCHANGED <<records, samples, repo>>

\* A file without raw_hash gets that of its text.
HashOf(p) == IF p.hash = None THEN p.text ELSE p.hash

FromFile(f) == [kind |-> repo[f].kind, origin |-> "repo", source |-> f, text |-> repo[f].text,
                hash |-> HashOf(repo[f]), value |-> repo[f].value]

\* Mutant: a sample that is there already keeps its origin and its source.
Promoted_kept(f, s) == [FromFile(f) EXCEPT !.origin = samples[s].origin, !.source = samples[s].source]

Promoted(f, s) == FromFile(f)

\* An error of one file is reported and the next one is read.
ImportFile(f) ==
    /\ phase = "import" /\ f \in todo /\ \A g \in todo : f <= g
    /\ todo' = todo \ {f}
    /\ LET row  == FromFile(f)
           hits == ByHash(row.kind, row.hash)
       IN  \/ /\ hits = {}
              /\ Inserted(row)
              /\ errs' = [errs EXCEPT ![f] = IF Unique(row, None) THEN "no" ELSE "conflict"]
           \/ \E s \in hits :
                LET new == Promoted(f, s) IN
                IF Unique(new, s)
                THEN samples' = [samples EXCEPT ![s] = new] /\ UNCHANGED errs
                ELSE errs' = [errs EXCEPT ![f] = "conflict"] /\ UNCHANGED samples
    /\ UNCHANGED <<records, repo, phase, req>>

\* The file cannot be read, or a statement fails.
ImportFails(f) ==
    /\ phase = "import" /\ f \in todo /\ \A g \in todo : f <= g
    /\ todo' = todo \ {f}
    /\ errs' = [errs EXCEPT ![f] = "fault"]
    /\ UNCHANGED <<records, samples, repo, phase, req>>

ImportEnds ==
    /\ phase = "import" /\ todo = {}
    /\ phase' = "ready"
    /\ UNCHANGED <<records, samples, repo, todo, errs, req>>

\* The result of the import is logged.
Serve ==
    /\ phase = "ready"
    /\ phase' = "serve"
    /\ errs' = [f \in Files |-> "no"]
    /\ UNCHANGED <<records, samples, repo, todo, req>>

\* A record is corrected, or recognised again.
EditRecord(r) ==
    /\ phase = "serve"
    /\ \E t \in Texts, v \in Values : records' = [records EXCEPT ![r] = [text |-> t, value |-> v]]
    /\ UNCHANGED <<samples, repo, phase, todo, errs, req>>

------------------------------------------------------------------------------
(* CreateOrUpdateFromPayment and CreateOrUpdateFromInvoice.                 *)

\* Only invoices are looked up by the hash of their text.
FirstLook(r) == IF r \in Payments THEN "source" ELSE "hash"

MarkReads(c, r) ==
    /\ phase = "serve" /\ req[c].pc = "idle"
    /\ LET text == Raw(records[r].text) IN
       req' = [req EXCEPT ![c] =
         [pc |-> FirstLook(r), found |-> None,
          new |-> [kind |-> KindOf(r), origin |-> "ui", source |-> r, text |-> text,
                   hash |-> text, value |-> records[r].value]]]
    /\ UNCHANGED <<records, samples, repo, phase, todo, errs>>

\* The row found is the one to update.
Looks(c, hits, otherwise) ==
    /\ \/ \E s \in hits : req' = [req EXCEPT ![c].pc = "write", ![c].found = s]
       \/ hits = {} /\ req' = [req EXCEPT ![c].pc = otherwise]
    /\ UNCHANGED <<records, samples, repo, phase, todo, errs>>

MarkByHash(c) ==
    /\ req[c].pc = "hash"
    /\ Looks(c, ByHash(req[c].new.kind, req[c].new.hash), "source")

MarkBySource(c) ==
    /\ req[c].pc = "source"
    /\ Looks(c, BySource(req[c].new.kind, req[c].new.source), "write")

\* What an UPDATE makes of a row: origin and source stay.
Remarked(s, new) ==
    [new EXCEPT !.origin = samples[s].origin, !.source = samples[s].source]

\* A row that is gone by now is not updated, and nobody is told.
MarkUpdates(c) ==
    /\ req[c].pc = "write" /\ req[c].found # None
    /\ LET s == req[c].found IN
       samples' = IF s \in Kept /\ Unique(Remarked(s, req[c].new), s)
                  THEN [samples EXCEPT ![s] = Remarked(s, req[c].new)] ELSE samples
    /\ req' = [req EXCEPT ![c] = NoReq]
    /\ UNCHANGED <<records, repo, phase, todo, errs>>

MarkInserts(c) ==
    /\ req[c].pc = "write" /\ req[c].found = None
    /\ Inserted(req[c].new)
    /\ req' = [req EXCEPT ![c] = NoReq]
    /\ UNCHANGED <<records, repo, phase, todo, errs>>

------------------------------------------------------------------------------
(* Deletion and export.                                                     *)

Delete(s) ==
    /\ phase = "serve" /\ s \in Kept
    /\ samples' = [samples EXCEPT ![s] = None]
    /\ UNCHANGED <<records, repo, phase, todo, errs, req>>

BulkDelete(ids) ==
    /\ phase = "serve" /\ ids # {}
    /\ samples' = [s \in Rows |-> IF s \in ids THEN None ELSE samples[s]]
    /\ UNCHANGED <<records, repo, phase, todo, errs, req>>

\* redactSampleRawText: once more changes nothing.
Redacted(text) == [text EXCEPT !.red = TRUE]

\* Mutant: the archive carries the hash of the text that is in it.
Exported_rehashed(row, redact) ==
    LET text == IF redact THEN Redacted(row.text) ELSE row.text IN
    [kind |-> row.kind, text |-> text, hash |-> text, value |-> row.value]

\* The hash stays that of the text before it was redacted.
Exported(row, redact) ==
    [kind |-> row.kind, text |-> IF redact THEN Redacted(row.text) ELSE row.text,
     hash |-> row.hash, value |-> row.value]

\* A server is built and started with what has been committed by then.
Committing == phase \in {"down", "serve"}

ExportZip(s, f) ==
    /\ phase = "serve" /\ s \in Kept
    /\ \E redact \in BOOLEAN : repo' = [repo EXCEPT ![f] = Exported(samples[s], redact)]
    /\ UNCHANGED <<records, samples, phase, todo, errs, req>>

\* The command reads the database by itself, parses the text anew and writes no
\* hash.
ExportCommand(r, f) ==
    /\ Committing
    /\ \E v \in Values :
         repo' = [repo EXCEPT ![f] =
           [kind |-> KindOf(r), text |-> Raw(records[r].text), hash |-> None, value |-> v]]
    /\ UNCHANGED <<records, samples, phase, todo, errs, req>>

Removed(f) ==
    /\ Committing /\ repo[f] # None
    /\ repo' = [repo EXCEPT ![f] = None]
    /\ UNCHANGED <<records, samples, phase, todo, errs, req>>

------------------------------------------------------------------------------
Lifecycle ==
    \/ Start \/ Stop \/ ImportEnds \/ Serve
    \/ \E f \in Files : Removed(f) \/ ImportFile(f) \/ ImportFails(f)
Marking ==
    \/ \E c \in Clients, r \in Records : MarkReads(c, r)
    \/ \E c \in Clients : MarkByHash(c) \/ MarkBySource(c) \/ MarkUpdates(c) \/ MarkInserts(c)
Others ==
    \/ \E r \in Records : EditRecord(r)
    \/ \E s \in Rows : Delete(s)
    \/ \E f \in Files :
         (\E r \in Records : ExportCommand(r, f)) \/ (\E s \in Rows : ExportZip(s, f))
    \/ \E ids \in SUBSET Rows : BulkDelete(ids)

Next == Lifecycle \/ Marking \/ Others

Spec == Init /\ [][Next]_vars

------------------------------------------------------------------------------
(* Properties.                                                              *)

\* Whatever was marked, exported, redacted, edited or deleted before, an
\* import that reports no error for a file leaves the sample of its text as the
\* file has it, unless a later file of the same text has replaced it; and a
\* file is refused by an index only for a sample that an earlier build had under
\* its path (or a later file of this import has taken over from there).
RepoIsMirrored ==
    phase = "ready" =>
        \A f \in Files :
            /\ repo[f] # None /\ errs[f] = "no" =>
                 \E s \in Kept, g \in Files :
                    /\ f <= g /\ repo[g] # None
                    /\ samples[s] = FromFile(g)
                    /\ repo[g].kind = repo[f].kind /\ HashOf(repo[g]) = HashOf(repo[f])
            /\ errs[f] = "conflict" =>
                 \E s \in Kept : samples[s].source \in Files /\ f <= samples[s].source
                                 /\ samples[s].hash # HashOf(repo[f])

\* However a sample came into the table, its hash is that of a text as it was
\* recognised: one that was redacted on its way through the repository is still
\* found by the record it was made from.
HashesAreOfOriginals ==
    \A s \in Kept : samples[s].hash = Raw(samples[s].text.of)
=============================================================================
