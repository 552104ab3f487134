------------------------------- MODULE Matching -------------------------------
(****************************************************************************)
(* Suggestions: which payments an invoice is likely to belong to, and which *)
(* invoices a payment (services/matching.go, the Suggest* functions of      *)
(* services/invoice.go and services/payment.go, the queries of              *)
(* repository/invoice.go), while other requests link and unlink.            *)
(*                                                                          *)
(* A request prunes the rows by SQL (window, day, order, LIMIT) before it   *)
(* scores them.  Amounts are cents, instants are halves of days of UTC, and *)
(* scores count in hundred-thousandths, rounded down.  A name is a sequence *)
(* of runes.  Rows do not change during a request; links do.                *)
(****************************************************************************)
EXTENDS Integers, SequencesExt

CONSTANTS
    Payments, Invoices,
    PaymentRows, InvoiceRows, \* rows a payment or an invoice may have
    LinkSets,         \* link tables a request may start from
    Limits,           \* values of ?limit
    FewestCandidates, \* 200
    PerSuggestion,    \* 50
    Ignored,          \* runes that are space, punctuation or symbols
    CompanySuffixes,         \* company suffixes, in the order they are stripped
    User,             \* who asks
    MaxLinks,         \* bound on links and unlinks
    Missing

ASSUME CandidatesAssumption ==
    /\ FewestCandidates \in Nat \ {0} /\ PerSuggestion \in Nat /\ Limits \subseteq Nat \ {0}
    /\ MaxLinks \in Nat

ASSUME TablesAssumption ==
    /\ IsFiniteSet(Payments) /\ IsFiniteSet(Invoices) /\ Payments \cap Invoices = {}
    /\ Missing \notin Payments \cup Invoices \cup Int

ASSUME ColumnsAssumption ==
    /\ \A v \in PaymentRows : v.draft \in BOOLEAN /\ v.amount \in Int /\ v.at \in Int
    /\ \A v \in InvoiceRows : /\ v.draft \in BOOLEAN /\ v.created \in Int
                             /\ v.amount \in Int \cup {Missing} /\ v.date \in Int \cup {Missing}

ASSUME LinkSetsAssumption == LinkSets \subseteq [Invoices -> Payments \cup {Missing}]

VARIABLES
    payments,   \* confirmed and draft payments: draft, owner, amount, at, name
    invoices,   \* the same of invoices: amount, date and name may be missing
    links,      \* invoice_payment_links: at most one row per invoice
    column,     \* invoices.payment_id
    request,    \* the request under way
    touched,    \* invoices linked or unlinked since it began
    changes     \* how many links and unlinks there have been

rows == <<payments, invoices>>
matchVars == <<payments, invoices, links, column, request, touched, changes>>

Idle == [pc |-> "idle", of |-> Missing, limit |-> 0, linked |-> {}, found |-> {}, said |-> <<>>]
MatchPoints == {"idle", "linked", "query", "recent", "rank", "said"}
Requests ==
    [pc : MatchPoints, of : Payments \cup Invoices \cup {Missing}, limit : Limits \cup {0},
     linked : SUBSET (Payments \cup Invoices), found : SUBSET (Payments \cup Invoices),
     said : Seq(Payments \cup Invoices)]

MatchTypeOK ==
    /\ payments \in [Payments -> PaymentRows] /\ invoices \in [Invoices -> InvoiceRows]
    /\ links \in [Invoices -> Payments \cup {Missing}]
    /\ column \in [Invoices -> Payments \cup {Missing}]
    /\ request \in Requests
    /\ touched \subseteq Invoices
    /\ changes \in 0 .. MaxLinks

MatchInit ==
    /\ payments \in [Payments -> PaymentRows] /\ invoices \in [Invoices -> InvoiceRows]
    /\ links \in LinkSets
    /\ column = links
    /\ request = Idle /\ touched = {} /\ changes = 0

-----------------------------------------------------------------------------
(* Scores                                                                   *)

Size(v) == IF v < 0 THEN -v ELSE v

\* 1 up to a hundredth of the invoice's amount, 0 from three tenths on.
AmountScore(v, a) ==
    LET off == Size(a - v) IN
    IF v = Missing \/ v <= 0 \/ a <= 0 \/ 10 * off >= 3 * v THEN 0
    ELSE IF 100 * off <= v THEN 1000
    ELSE ((30 * v - 100 * off) * 1000) \div (29 * v)

\* The text of a date, in any of its layouts, is the midnight that day starts with.
ParseFlexibleDateTime(date) == 2 * date

\* 1 on the instant, a half three days off.
DateScore(date, at) ==
    IF date = Missing THEN 0 ELSE 6000 \div (6 + Size(at - ParseFlexibleDateTime(date)))

NormalizeName(name) ==
    FoldLeft(LAMBDA s, suffix : IF IsSuffix(suffix, s)
                                THEN SubSeq(s, 1, Len(s) - Len(suffix)) ELSE s,
             SelectSeq(name, LAMBDA r : r \notin Ignored), CompanySuffixes)

\* A name loses runes and suffixes, no more: evaluated for every row, as it is a fold.
ASSUME NamesAssumption ==
    \A v \in PaymentRows \cup InvoiceRows : v.name # Missing => NormalizeName(v.name) \in Seq(Nat)

Within(a, b) == \E i \in 0 .. Len(b) - Len(a) : SubSeq(b, i + 1, i + Len(a)) = a
Bigrams(a) == {SubSeq(a, i, i + 1) : i \in 1 .. Len(a) - 1}

BigramJaccard(a, b) ==
    IF a = <<>> \/ b = <<>> THEN 0
    ELSE IF Within(a, b) \/ Within(b, a) THEN 1000
    ELSE IF Bigrams(a) = {} \/ Bigrams(b) = {} THEN 0
    ELSE (1000 * Cardinality(Bigrams(a) \cap Bigrams(b))) \div Cardinality(Bigrams(a) \cup Bigrams(b))

MerchantScore(seller, merchant) ==
    IF seller = Missing \/ merchant = Missing THEN 0
    ELSE BigramJaccard(NormalizeName(seller), NormalizeName(merchant))

Score(i, p) ==
    LET inv == invoices[i]
        pay == payments[p] IN
    55 * AmountScore(inv.amount, pay.amount) + 25 * DateScore(inv.date, pay.at)
        + 20 * MerchantScore(inv.name, pay.name)

-----------------------------------------------------------------------------
(* Statements                                                               *)

ByInvoice == request.of \in Invoices
Confirmed(t, owner) == {x \in DOMAIN t : ~t[x].draft /\ t[x].owner = owner}

\* Linked to a confirmed payment of its owner; other rows of the link table are not seen.
Taken(i) == links[i] # Missing /\ links[i] \in Confirmed(payments, invoices[i].owner)
Unlinked(owner) == {i \in Confirmed(invoices, owner) : ~Taken(i)}

LinkedPayments(i) == {p \in Confirmed(payments, User) : links[i] = p}
LinkedInvoices(p) == {i \in Confirmed(invoices, User) : links[i] = p}

CandidateLimit(limit) ==
    IF limit * PerSuggestion < FewestCandidates THEN FewestCandidates ELSE limit * PerSuggestion

\* The results of ORDER BY distance, recency DESC LIMIT k: ties at the limit go either way.
FirstOf(S, k, distance, recency) ==
    LET Sooner(x, y) == \/ distance[x] < distance[y]
                        \/ distance[x] = distance[y] /\ recency[x] > recency[y] IN
    {T \in SUBSET S :
        /\ Cardinality(T) = IF Cardinality(S) < k THEN Cardinality(S) ELSE k
        /\ \A x \in T, y \in S \ T : ~Sooner(y, x)}

Tenths(v, n) == (v * n) \div 10
TenthsUp(v, n) == -((-v * n) \div 10)

\* On a text day of UTC: the stored instants are UTC and the statement compares their text.
Near(v) == {p \in Confirmed(payments, User) :
               /\ v.date = Missing \/ payments[p].at \div 2 = v.date
               /\ v.amount = Missing \/ Size(payments[p].amount) \in Tenths(v.amount, 8) .. TenthsUp(v.amount, 12)}
OfThatDay(v) == {p \in Confirmed(payments, User) : v.date = Missing \/ payments[p].at \div 2 = v.date}

\* Mutant: the order by closeness of the amount is lost.
PaymentDistance_none(v) == [p \in Payments |-> 0]
PaymentDistance(v) ==
    [p \in Payments |-> IF v = Missing \/ v <= 0 THEN 0 ELSE Size(Size(payments[p].amount) - v)]
PaymentRecency == [p \in Payments |-> payments[p].at]

\* SuggestPaymentsCtx of the repository.  The conditions are collected in one gorm statement,
\* so that the retries "without date constraint" carry the date as well and find nothing new.
PaymentCandidates(i) ==
    LET v == invoices[i]
        S == IF Near(v) # {} \/ v.amount = Missing THEN Near(v) ELSE OfThatDay(v) IN
    FirstOf(S, CandidateLimit(request.limit), PaymentDistance(v.amount), PaymentRecency)

InvoiceRecency == [i \in Invoices |-> invoices[i].created]

\* SuggestInvoicesCtx of the repository.
InvoiceCandidates(p) ==
    LET a == payments[p].amount
        near == {i \in Unlinked(User) :
                    a = 0 \/ /\ invoices[i].amount # Missing
                             /\ invoices[i].amount \in Tenths(Size(a), 9) .. TenthsUp(Size(a), 11)}
        distance == [i \in Invoices |-> IF a = 0 \/ invoices[i].amount = Missing THEN 0
                                        ELSE Size(invoices[i].amount - Size(a))] IN
    FirstOf(near, CandidateLimit(request.limit), distance, InvoiceRecency)

-----------------------------------------------------------------------------
(* A request                                                                *)

Ask(x, limit) ==
    /\ request.pc = "idle"
    /\ \/ x \in Invoices /\ invoices[x].owner = User
       \/ x \in Payments /\ payments[x].owner = User
    /\ request' = [Idle EXCEPT !.pc = "linked", !.of = x, !.limit = limit]
    /\ touched' = {}
    /\ UNCHANGED <<rows, links, column, changes>>

ReadLinked ==
    /\ request.pc = "linked"
    /\ request' = [request EXCEPT !.pc = "query",
                     !.linked = IF ByInvoice THEN LinkedPayments(request.of) ELSE LinkedInvoices(request.of)]
    /\ UNCHANGED <<rows, links, column, touched, changes>>

Query ==
    /\ request.pc = "query"
    /\ \E T \in IF ByInvoice THEN PaymentCandidates(request.of) ELSE InvoiceCandidates(request.of) :
          request' = [request EXCEPT !.pc = IF T = {} THEN "recent" ELSE "rank", !.found = T]
    /\ UNCHANGED <<rows, links, column, touched, changes>>

\* Mutant: the safety net is gone.
Recent_none == {{}}
\* No candidate: the newest payments; the newest unlinked invoices if the payment has no amount.
Recent ==
    IF ByInvoice
    THEN FirstOf(Confirmed(payments, User), CandidateLimit(request.limit), [p \in Payments |-> 0], PaymentRecency)
    ELSE IF payments[request.of].amount > 0 THEN {{}}
    ELSE FirstOf(Unlinked(User), CandidateLimit(request.limit), [i \in Invoices |-> 0], InvoiceRecency)

ReadRecent ==
    /\ request.pc = "recent"
    /\ \E T \in Recent : request' = [request EXCEPT !.pc = "rank", !.found = T]
    /\ UNCHANGED <<rows, links, column, touched, changes>>

ScoreOf(x) == IF ByInvoice THEN Score(request.of, x) ELSE Score(x, request.of)
Age(x) == IF ByInvoice THEN PaymentRecency[x] ELSE InvoiceRecency[x]

\* Rows of equal score and time come in any order.
Ranked(S) ==
    LET points == [x \in S |-> ScoreOf(x)]
        age == [x \in S |-> Age(x)] IN
    {s \in SetToSeqs(S) : \A j, k \in 1 .. Cardinality(S) : j < k =>
        \/ points[s[j]] > points[s[k]]
        \/ points[s[j]] = points[s[k]] /\ age[s[j]] >= age[s[k]]}

LeastScore ==
    IF ByInvoice
    THEN IF invoices[request.of].amount = Missing \/ invoices[request.of].amount <= 0 THEN 5000 ELSE 15000
    ELSE IF payments[request.of].amount = 0 THEN 5000 ELSE 15000

\* Mutant: linked rows are not filtered out.
Scored_all == request.found
Scored == request.found \ request.linked

Good == {x \in Scored : ScoreOf(x) >= LeastScore}

FirstFew(s) == SubSeq(s, 1, IF Len(s) < request.limit THEN Len(s) ELSE request.limit)

\* An invoice is given the best candidates even where none reaches the least score.
Rank ==
    /\ request.pc = "rank"
    /\ \E s \in Ranked(IF ByInvoice /\ Good = {} THEN Scored ELSE Good) :
          request' = [request EXCEPT !.pc = "said", !.said = FirstFew(s)]
    /\ UNCHANGED <<rows, links, column, touched, changes>>

\* The answer is sent; or the five seconds of the request are over before that.
Leave ==
    /\ request.pc # "idle"
    /\ request' = Idle
    /\ UNCHANGED <<rows, links, column, touched, changes>>

-----------------------------------------------------------------------------
(* Links                                                                    *)

Touch(i) ==
    /\ changes < MaxLinks /\ changes' = changes + 1
    /\ touched' = touched \cup {i}
    /\ UNCHANGED <<rows, request>>

Linkable(i) == links[i] = Missing

LinkPayment(i, p) ==
    /\ invoices[i].owner = User /\ payments[p].owner = User
    /\ Linkable(i)
    /\ links' = [links EXCEPT ![i] = p]
    /\ column' = [column EXCEPT ![i] = p]
    /\ Touch(i)

\* The row goes only if it names p; payment_id is cleared whichever payment was named.
UnlinkPayment(i, p) ==
    /\ invoices[i].owner = User /\ payments[p].owner = User
    /\ links' = [links EXCEPT ![i] = IF @ = p THEN Missing ELSE @]
    /\ column' = [column EXCEPT ![i] = Missing]
    /\ Touch(i)

MatchNext ==
    \/ \E x \in Payments \cup Invoices, n \in Limits : Ask(x, n)
    \/ ReadLinked \/ Query \/ ReadRecent \/ Rank \/ Leave
    \/ \E i \in Invoices, p \in Payments : LinkPayment(i, p) \/ UnlinkPayment(i, p)

MatchSpec == MatchInit /\ [][MatchNext]_matchVars

-----------------------------------------------------------------------------
(* Properties                                                               *)

Said == ToSet(request.said)
Answered == request.pc = "said"

\* The pruning by SQL loses no perfect match: where no more rows than a query returns have
\* exactly the amount asked for, the first suggestion scores as high as each of these (on the
\* invoice's day, if it has one), however many nearer or newer rows there are.
ExactAmountIsBest ==
    Answered =>
        LET x == request.of
            a == IF ByInvoice THEN invoices[x].amount ELSE payments[x].amount
            same == IF ByInvoice
                    THEN {p \in Confirmed(payments, User) : Size(payments[p].amount) = a}
                    ELSE {i \in Confirmed(invoices, User) : invoices[i].amount = a}
            due == IF ByInvoice
                   THEN {p \in same : /\ payments[p].amount > 0 /\ p \notin request.linked
                                      /\ invoices[x].date \in {Missing, payments[p].at \div 2}}
                   ELSE {i \in same : i \notin touched \cup request.linked /\ ~Taken(i)} IN
        (a # Missing /\ a > 0 /\ Cardinality(same) <= CandidateLimit(request.limit) /\ due # {}) =>
            /\ request.said # <<>>
            /\ \A y \in due : ScoreOf(request.said[1]) >= ScoreOf(y)

\* What was linked before the request began and stays so is not suggested: neither the payment
\* an invoice has, nor an invoice that some confirmed payment has, though links are read and
\* candidates queried by separate statements.
LinkedIsNotOffered ==
    Answered =>
        IF ByInvoice
        THEN request.of \notin touched => links[request.of] \notin Said
        ELSE \A i \in Said : i \in touched \/ ~Taken(i)

\* An invoice that had no confirmed payment when the request looked gets a suggestion whenever
\* its owner has a confirmed payment at all, whatever its amount, date and seller are.
FreeInvoiceIsAnswered ==
    (Answered /\ ByInvoice /\ request.linked = {} /\ Confirmed(payments, User) # {}) => Said # {}
=============================================================================
