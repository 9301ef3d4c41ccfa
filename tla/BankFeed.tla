------------------------------ MODULE BankFeed ------------------------------
(***************************************************************************)
(* What reaches the inbox of one bank connection                           *)
(* (sync_connection in app/api/banking.py; transaction_sync_start,         *)
(* transactions and transaction_fingerprint in                             *)
(* app/services/bank_sync_service.py).  Banking models who may write what  *)
(* and when; this module models which payments a sync asks for: the days   *)
(* it reaches back, the pages it reads and the keys it stores them under.  *)
(*                                                                         *)
(* Time is counted in days, the unit of date_from.  A clock that passes    *)
(* midnight while a sync runs, payments the bank reports late and syncs    *)
(* that overlap are all in the model.  The review of transactions is in    *)
(* Banking and left out here.                                              *)
(***************************************************************************)
EXTENDS Integers, FiniteSets

CONSTANTS
    Accounts, Payments, Proc,
    AccountOf,     \* the account each payment is on
    Look,          \* what it looks like, but for account and date
    Referenced,    \* payments the bank reports under a stable reference
    Initial,       \* BANK_INITIAL_SYNC_DAYS
    Overlap,       \* BANK_SYNC_OVERLAP_DAYS
    MaxPages, PageSize,
    Late,          \* days the bank may be late in reporting a payment
    Slow,          \* days a sync may take: calls time out after 30 s
    MaxDay,        \* bound on the clock
    None

ASSUME FeedAssumption ==
    /\ {Late, Slow, Overlap, Initial, MaxPages, PageSize, MaxDay} \subseteq Nat
    /\ IsFiniteSet(Payments) /\ Referenced \subseteq Payments
    /\ AccountOf \in [Payments -> Accounts]

\* What the defaults (31 and 3 days) satisfy for a bank that is a day or two
\* late, and the accepted settings (from 1 and from 0 days) need not.
ASSUME OverlapAssumption == Late + Slow <= Overlap /\ Overlap <= Initial

VARIABLES
    today,
    bank,           \* what the bank reports of each payment, or None
    row, settled,   \* bank_transactions: the keys of the rows, each with the
                    \* payments it has taken in (history), and of the booked ones
    last,           \* last_synced_at, or None
    pc, req,        \* each thread's next step, and what it knows
    origin,         \* history: where the first successful sync began, or None
    cut             \* history: payments whose report was on a page nobody read

store == <<row, settled, last>>
vars == <<today, bank, store, pc, req, origin, cut>>

\* A report without an amount or a date is not usable.  Its day is the one the
\* bank files it under.
Report == [day: Int, booked: BOOLEAN, usable: BOOLEAN]

Looks == {Look[x] : x \in Payments}

Keys == Accounts \X (Payments \cup (Looks \X Int))

ASSUME NoneAssumption ==
    /\ None \notin Accounts \cup Payments \cup Int /\ None \notin Report
    /\ Payments \cap (Looks \X Int) = {}

Request == [from: Int, at: Nat, accounts: SUBSET Accounts, account: Accounts \cup {None},
            got: [Payments -> Report \cup {None}]]

Nothing == [x \in Payments |-> None]

NoRequest == [from |-> 0, at |-> 0, accounts |-> {}, account |-> None, got |-> Nothing]

TypeOK ==
    /\ today \in 0..MaxDay
    /\ bank \in [Payments -> Report \cup {None}]
    /\ row \subseteq Keys \X Payments
    /\ settled \subseteq {r[1] : r \in row}
    /\ last \in 0..today \cup {None}
    /\ pc \in [Proc -> {"idle", "fetch", "save", "synced"}]
    /\ req \in [Proc -> Request]
    /\ origin \in Int \cup {None}
    /\ cut \subseteq Payments

-----------------------------------------------------------------------------
(* Definitions called Mutant_... are deliberate mistakes that nothing refers *)
(* to: each replaces the definition after it to see a property fail.         *)

Mutant_SinceLastSync == IF last = None THEN today - Initial ELSE last

\* transaction_sync_start
DateFrom == IF last = None THEN today - Initial ELSE last - Overlap

\* transaction_fingerprint: the reference if there is one; else what the
\* payment looks like and its date, which a booking may change.
Fingerprint(x, report) ==
    <<AccountOf[x], IF x \in Referenced THEN x ELSE <<Look[x], report.day>> >>

Goto(p, stage) == pc' = [pc EXCEPT ![p] = stage]

Return(p) ==
    /\ Goto(p, "idle")
    /\ req' = [req EXCEPT ![p] = NoRequest]

-----------------------------------------------------------------------------
(* POST /banking/connections/{id}/sync *)

SyncConnection(p) ==
    /\ pc[p] = "idle"
    /\ req' = [req EXCEPT ![p] = [NoRequest EXCEPT !.from = DateFrom, !.at = today,
                                                   !.accounts = Accounts]]
    /\ Goto(p, "fetch")
    /\ UNCHANGED <<today, bank, store, origin, cut>>

Mutant_OnePageLess(S) ==
    IF Cardinality(S) <= (MaxPages - 1) * PageSize THEN {S}
    ELSE {T \in SUBSET S : Cardinality(T) = (MaxPages - 1) * PageSize}

\* The loop over the pages ends at an answer without continuation key or after
\* MaxPages (20) pages; their order is the bank's.
Read(S) == IF Cardinality(S) <= MaxPages * PageSize THEN {S}
           ELSE {T \in SUBSET S : Cardinality(T) = MaxPages * PageSize}

Matching(p, a) == {x \in Payments : /\ AccountOf[x] = a
                                    /\ bank[x] # None /\ bank[x].day >= req[p].from}

FetchAccount(p) ==
    \E a \in req[p].accounts : \E S \in Read(Matching(p, a)) :
        /\ pc[p] = "fetch"
        /\ req' = [req EXCEPT ![p].account = a, ![p].accounts = @ \ {a},
                              ![p].got = [x \in Payments |-> IF x \in S THEN bank[x] ELSE None]]
        /\ cut' = cut \cup (Matching(p, a) \ S)
        /\ Goto(p, "save")
        /\ UNCHANGED <<today, bank, store, origin>>

\* normalize_transaction: of what is in an answer, unusable reports are skipped
\* without a trace.
Usable(got) == {x \in Payments : got[x] # None /\ got[x].usable}

KeysOf(got, S) == {Fingerprint(x, got[x]) : x \in S}

Mutant_NewPendingOnly(got) ==
    {<<Fingerprint(x, got[x]), x>> : x \in {y \in Usable(got) : ~got[y].booked}}

\* Each payment in an answer, with the key of its row.
Received(got) == {<<Fingerprint(x, got[x]), x>> : x \in Usable(got)}

Mutant_BookedOnArrival(got) == settled \cup KeysOf(got, Usable(got))

\* INSERT ... ON CONFLICT DO UPDATE: a row may become booked, and stays so.
Settled(got) == settled \cup KeysOf(got, {x \in Usable(got) : got[x].booked})

SaveAccount(p) ==
    /\ pc[p] = "save"
    /\ row' = row \cup Received(req[p].got)
    /\ settled' = Settled(req[p].got)
    /\ cut' = {x \in cut : req[p].got[x] # bank[x]}
    /\ req' = [req EXCEPT ![p].got = Nothing, ![p].account = None]
    /\ Goto(p, IF req[p].accounts = {} THEN "synced" ELSE "fetch")
    /\ UNCHANGED <<today, bank, last, origin>>

\* mark_connection_synced, at the time the sync ends.
MarkSynced(p) ==
    /\ pc[p] = "synced"
    /\ last' = today
    /\ origin' = IF last = None THEN req[p].from ELSE origin
    /\ Return(p)
    /\ UNCHANGED <<today, bank, row, settled, cut>>

\* A refused or failed call of the provider, after which only the error is
\* recorded, or a crash.  What was saved stays.
Fail(p) ==
    /\ pc[p] # "idle"
    /\ Return(p)
    /\ UNCHANGED <<today, bank, store, origin, cut>>

-----------------------------------------------------------------------------
(* The bank, and the clock. *)

\* The dates the bank may give to what it reports today.
Dates == today - Late..today

BankPosts ==
    \E x \in Payments, d \in Dates, b, u \in BOOLEAN :
        /\ bank[x] = None
        /\ bank' = [bank EXCEPT ![x] = [day |-> d, booked |-> b, usable |-> u]]
        /\ UNCHANGED <<today, store, pc, req, origin, cut>>

\* A pending payment is booked: it is reported anew, under the booking date.
BankBooks ==
    \E x \in Payments, d \in Dates, u \in BOOLEAN :
        /\ bank[x] # None /\ ~bank[x].booked
        /\ bank' = [bank EXCEPT ![x] = [day |-> d, booked |-> TRUE, usable |-> u]]
        /\ cut' = cut \ {x}
        /\ UNCHANGED <<today, store, pc, req, origin>>

NewDay ==
    /\ today < MaxDay
    /\ \A p \in Proc : pc[p] # "idle" => today < req[p].at + Slow
    /\ today' = today + 1
    /\ UNCHANGED <<bank, store, pc, req, origin, cut>>

-----------------------------------------------------------------------------
Init ==
    /\ today = 0
    /\ bank = Nothing
    /\ row = {} /\ settled = {}
    /\ last = None
    /\ pc = [p \in Proc |-> "idle"]
    /\ req = [p \in Proc |-> NoRequest]
    /\ origin = None
    /\ cut = {}

Next ==
    \/ \E p \in Proc : \/ SyncConnection(p) \/ FetchAccount(p) \/ SaveAccount(p)
                       \/ MarkSynced(p) \/ Fail(p)
    \/ BankPosts \/ BankBooks \/ NewDay

Spec == Init /\ [][Next]_vars

-----------------------------------------------------------------------------
(* Properties. *)

Key(x) == Fingerprint(x, bank[x])

\* What the bank now reports of a payment has gone into a row.
UpToDate(x) == <<Key(x), x>> \in row /\ (bank[x].booked => Key(x) \in settled)

\* Another payment has gone into the row as well: the user sees one for both.
Merged(x) == \E y \in Payments \ {x} : <<Key(x), y>> \in row

OwnRow(x) == UpToDate(x) /\ ~Merged(x)
SharedRow(x) == UpToDate(x) /\ Merged(x)

\* The next sync asks for what the bank now reports of a payment.
InReach(x) == last = None \/ bank[x].day >= last - Overlap

BeforeOrigin(x) == origin # None /\ bank[x].day < origin

\* What the bank reports of a payment is in the inbox, in a row of its own, or
\* the next sync asks for it - however late the bank is, however syncs fail or
\* overlap, and though the watermark is the time a sync ends and not the time it
\* asked.  There are four exceptions, of which nobody is told: payments from
\* before the first sync's window, those that were on a page after the last one
\* read, reports without amount or date, which are skipped, and payments that
\* went into one row with another one that looks the same.
NothingIsLost ==
    \A x \in Payments : bank[x] # None =>
        \/ OwnRow(x) \/ InReach(x)
        \/ BeforeOrigin(x) \/ x \in cut \/ ~bank[x].usable \/ SharedRow(x)

ReportsOf(a) == {x \in Payments : AccountOf[x] = a /\ bank[x] # None}

\* Reports are left out only of an account with more of them than the pages
\* hold.
OnlyFullPagesCut ==
    cut # {} => \E a \in Accounts : Cardinality(ReportsOf(a)) > MaxPages * PageSize

\* A row is booked only if a payment with its key is: answers that are saved
\* late or twice add nothing to what the user may import.
BookedRowsAreReal ==
    \A k \in settled : \E x \in Payments : bank[x] # None /\ bank[x].booked /\ Key(x) = k
=============================================================================
