----------------------------- MODULE Invoicing -----------------------------
(***************************************************************************)
(* Businesses, clients, invoices, payments and credit notes of one user    *)
(* (app/repositories/invoice_repository.py behind app/api/invoicing.py).   *)
(*                                                                         *)
(* Every handler is one transaction.  Those that decide on an invoice lock *)
(* its row first (SELECT ... FOR UPDATE), those that number one lock its   *)
(* business next, the foreign keys lock what an INSERT refers to, and all  *)
(* locks last until the commit; so transactions on the same rows take      *)
(* effect one after the other and each is one action here.  A refused      *)
(* request changes nothing and is not a step.                              *)
(*                                                                         *)
(* create_client and update_client are no actions: both call get_business  *)
(* without a cursor, which uses the pool's context manager without         *)
(* entering it and raises before anything is written.  The clients are     *)
(* those the database holds from before.                                   *)
(***************************************************************************)
EXTENDS Integers, FiniteSets, Functions, InvoiceMoney

CONSTANTS
    Businesses, Clients, Invoices, Payments,
    Assets,        \* versions of a logo or of a signature
    Prefixes,      \* invoice_prefix
    Years,         \* years an issue date, or today, can be in
    ItemLists,     \* the items a draft can be given
    MaxTotal,      \* bound on the total of an invoice
    None

ASSUME InvoicingAssumption ==
    /\ None \notin Businesses \cup Clients \cup Invoices \cup Payments \cup Assets
    /\ Years \subseteq Nat \ {0}
    /\ Prefixes # {}
    /\ MaxTotal \in Nat
    /\ \A items \in ItemLists :
          /\ DOMAIN items \subseteq Nat /\ IsFiniteSet(DOMAIN items)
          /\ \A k \in DOMAIN items : items[k] \in Item
          /\ Total(Lines(items, 1)) \in 0..MaxTotal

VARIABLES
    business,     \* rows, or None
    client,       \* the business of a client, or None
    invoice,      \* rows, or None
    payment,      \* rows, or None
    asset,        \* business_brand_assets: the business of an asset, or None
    thisYear      \* the year of date.today()

vars == <<business, client, invoice, payment, asset, thisYear>>

Business == [prefix: Prefixes, next: Nat \ {0}, year: Years \cup {0},
             logo: Assets \cup {None}]

Number == [prefix: Prefixes, year: Years, seq: Nat \ {0}]

Status == {"DRAFT", "ISSUED", "PARTIALLY_PAID", "PAID", "CREDITED"}

\* The stored items of an invoice, and of an invoice or a credit note.
Plain == {Lines(items, 1) : items \in ItemLists}

Stored == Plain \cup {Lines(items, -1) : items \in Plain}

\* invoice_items, which only drafts change, are part of the invoice.
Invoice == [type: {"INVOICE", "CREDIT_NOTE"}, status: Status,
            business: Businesses, client: Clients, year: Years,
            items: Stored, total: -MaxTotal..MaxTotal, number: Number \cup {None},
            logo: Assets \cup {None}, original: Invoices \cup {None}]

Payment == [invoice: Invoices, amount: 1..MaxTotal]

ASSUME RowAssumption == None \notin Business \cup Number \cup Invoice \cup Payment

TypeOK ==
    /\ business \in [Businesses -> Business \cup {None}]
    /\ client \in [Clients -> Businesses \cup {None}]
    /\ invoice \in [Invoices -> Invoice \cup {None}]
    /\ payment \in [Payments -> Payment \cup {None}]
    /\ asset \in [Assets -> Businesses \cup {None}]
    /\ thisYear \in Years

-----------------------------------------------------------------------------
(* Definitions called Mutant_... are deliberate mistakes that nothing refers *)
(* to: each replaces the definition after it to see a property fail.         *)

Rows(table) == {k \in DOMAIN table : table[k] # None}

InvoicesOf(b) == {i \in Rows(invoice) : invoice[i].business = b}

PaymentsOf(i) == {k \in Rows(payment) : payment[k].invoice = i}

Paid(i) == SumFunction([k \in PaymentsOf(i) |-> payment[k].amount])

Mutant_IsUnpaid(i) == invoice[i] # None /\ invoice[i].status \in {"DRAFT", "ISSUED"}

IsDraft(i) == invoice[i] # None /\ invoice[i].status = "DRAFT"

Issued(i) == invoice[i] # None /\ invoice[i].status # "DRAFT"

Mutant_AnyParties == {x \in Businesses \X Clients : business[x[1]] # None /\ client[x[2]] # None}

\* _validate_parties: the client is one of the business's.
Parties == {x \in Businesses \X Clients : business[x[1]] # None /\ client[x[2]] = x[1]}

-----------------------------------------------------------------------------
(* Businesses, their logos, and clients. *)

CreateBusiness ==
    \E b \in Businesses, x \in Prefixes :
        /\ business[b] = None
        /\ business' = [business EXCEPT ![b] = [prefix |-> x, next |-> 1, year |-> 0, logo |-> None]]
        /\ UNCHANGED <<client, invoice, payment, asset, thisYear>>

UpdateBusiness ==
    \E b \in Rows(business), x \in Prefixes :
        /\ business' = [business EXCEPT ![b].prefix = x]
        /\ UNCHANGED <<client, invoice, payment, asset, thisYear>>

\* The clients go with the business, its assets by ON DELETE CASCADE.
DeleteBusiness ==
    \E b \in Rows(business) :
        /\ InvoicesOf(b) = {}
        /\ business' = [business EXCEPT ![b] = None]
        /\ client' = [c \in Clients |-> IF client[c] = b THEN None ELSE client[c]]
        /\ asset' = [a \in Assets |-> IF asset[a] = b THEN None ELSE asset[a]]
        /\ UNCHANGED <<invoice, payment, thisYear>>

Mutant_ReplaceLogo ==
    \E b \in Rows(business), a \in Assets :
        /\ asset' = [x \in Assets |-> IF x = business[b].logo THEN None
                                      ELSE IF x = a /\ asset[a] = None THEN b ELSE asset[x]]
        /\ business' = [business EXCEPT ![b].logo = IF asset[a] = None THEN a ELSE None]
        /\ UNCHANGED <<client, invoice, payment, thisYear>>

\* A new logo is a new row; the replaced one stays.
UpdateLogo ==
    \E b \in Rows(business), a \in Assets :
        /\ asset[a] = None
        /\ asset' = [asset EXCEPT ![a] = b]
        /\ business' = [business EXCEPT ![b].logo = a]
        /\ UNCHANGED <<client, invoice, payment, thisYear>>

DeleteLogo ==
    \E b \in Rows(business) :
        /\ business' = [business EXCEPT ![b].logo = None]
        /\ UNCHANGED <<client, invoice, payment, asset, thisYear>>

\* Refused by the foreign key while an invoice names the client.
DeleteClient ==
    \E c \in Rows(client) :
        /\ \A i \in Rows(invoice) : invoice[i].client # c
        /\ client' = [client EXCEPT ![c] = None]
        /\ UNCHANGED <<business, invoice, payment, asset, thisYear>>

-----------------------------------------------------------------------------
(* Drafts. *)

Draft(b, c, y, items) ==
    [type |-> "INVOICE", status |-> "DRAFT", business |-> b, client |-> c, year |-> y,
     items |-> Lines(items, 1), total |-> Total(Lines(items, 1)), number |-> None, logo |-> None, original |-> None]

CreateInvoice ==
    \E i \in Invoices, p \in Parties, y \in Years, items \in ItemLists :
        /\ invoice[i] = None
        /\ invoice' = [invoice EXCEPT ![i] = Draft(p[1], p[2], y, items)]
        /\ UNCHANGED <<business, client, payment, asset, thisYear>>

UpdateInvoice ==
    \E i \in Invoices, p \in Parties, y \in Years, items \in ItemLists :
        /\ IsDraft(i)
        /\ invoice' = [invoice EXCEPT ![i] =
              [@ EXCEPT !.business = p[1], !.client = p[2], !.year = y,
                        !.items = Lines(items, 1), !.total = Total(Lines(items, 1))]]
        /\ UNCHANGED <<business, client, payment, asset, thisYear>>

DeleteInvoice ==
    \E i \in Invoices :
        /\ IsDraft(i)
        /\ invoice' = [invoice EXCEPT ![i] = None]
        /\ UNCHANGED <<business, client, payment, asset, thisYear>>

-----------------------------------------------------------------------------
(* Numbering. *)

Mutant_NeverRestarts(b, y) == business[b].next

\* The counter starts again at 1 whenever the year is not the counter's.
NextSeq(b, y) == IF business[b].year = y THEN business[b].next ELSE 1

NextNumber(b, y) == [prefix |-> business[b].prefix, year |-> y, seq |-> NextSeq(b, y)]

\* UNIQUE (business_id, invoice_number): psycopg raises, no caller catches it,
\* and the transaction rolls back.
NumberIsFree(b, y) == \A i \in InvoicesOf(b) : invoice[i].number # NextNumber(b, y)

CountUp(b, y) ==
    business' = [business EXCEPT ![b] = [@ EXCEPT !.next = NextSeq(b, y) + 1, !.year = y]]

\* Incomplete addresses or tax numbers only make validate_issue_readiness
\* refuse; of its conditions the total is kept.
Ready(i) == IsDraft(i) /\ invoice[i].total > 0

IssueInvoice ==
    \E i \in Invoices :
        /\ Ready(i)
        /\ LET b == invoice[i].business  y == invoice[i].year IN
            /\ NumberIsFree(b, y)
            /\ CountUp(b, y)
            /\ invoice' = [invoice EXCEPT ![i] =
                  [@ EXCEPT !.status = "ISSUED", !.number = NextNumber(b, y),
                            !.logo = business[b].logo]]
        /\ UNCHANGED <<client, payment, asset, thisYear>>

\* The credit note is a new invoice dated today with the snapshots of the
\* original and its stored items, calculated again with negative prices.
Credit(i) ==
    [invoice[i] EXCEPT !.type = "CREDIT_NOTE", !.status = "ISSUED", !.year = thisYear,
                       !.items = Lines(invoice[i].items, -1),
                       !.total = Total(Lines(invoice[i].items, -1)),
                       !.number = NextNumber(invoice[i].business, thisYear), !.original = i]

CreateCreditNote ==
    \E i, c \in Invoices :
        /\ invoice[i] # None /\ invoice[c] = None
        /\ invoice[i].type = "INVOICE" /\ invoice[i].status \notin {"DRAFT", "CREDITED"}
        /\ LET b == invoice[i].business IN
            /\ NumberIsFree(b, thisYear)
            /\ CountUp(b, thisYear)
            /\ invoice' = [invoice EXCEPT ![c] = Credit(i), ![i].status = "CREDITED"]
        /\ UNCHANGED <<client, payment, asset, thisYear>>

-----------------------------------------------------------------------------
(* Payments. *)

AddPayment ==
    \E i \in Invoices, k \in Payments, n \in 1..MaxTotal :
        /\ invoice[i] # None /\ payment[k] = None
        /\ invoice[i].type = "INVOICE" /\ invoice[i].status \in {"ISSUED", "PARTIALLY_PAID"}
        /\ n <= invoice[i].total - Paid(i)
        /\ payment' = [payment EXCEPT ![k] = [invoice |-> i, amount |-> n]]
        /\ invoice' = [invoice EXCEPT ![i].status =
                          IF Paid(i) + n >= invoice[i].total THEN "PAID" ELSE "PARTIALLY_PAID"]
        /\ UNCHANGED <<business, client, asset, thisYear>>

Mutant_NeverUnpaid(paid, total) == IF paid >= total THEN "PAID" ELSE "PARTIALLY_PAID"

\* Neither the type nor the status of the invoice is looked at.
StatusAfter(paid, total) ==
    IF paid = 0 THEN "ISSUED" ELSE IF paid >= total THEN "PAID" ELSE "PARTIALLY_PAID"

DeletePayment ==
    \E i \in Rows(invoice) : \E k \in PaymentsOf(i) :
        /\ payment' = [payment EXCEPT ![k] = None]
        /\ invoice' = [invoice EXCEPT ![i].status =
                          StatusAfter(Paid(i) - payment[k].amount, invoice[i].total)]
        /\ UNCHANGED <<business, client, asset, thisYear>>

NewYear ==
    /\ \E y \in Years : y > thisYear /\ thisYear' = y
    /\ UNCHANGED <<business, client, invoice, payment, asset>>

-----------------------------------------------------------------------------
Init ==
    /\ business = [b \in Businesses |-> [prefix |-> CHOOSE x \in Prefixes : TRUE,
                                         next |-> 1, year |-> 0, logo |-> None]]
    /\ client \in [Clients -> Businesses]
    /\ invoice = [i \in Invoices |-> None]
    /\ payment = [k \in Payments |-> None]
    /\ asset = [a \in Assets |-> None]
    /\ thisYear \in Years

Next ==
    \/ CreateBusiness \/ UpdateBusiness \/ DeleteBusiness \/ UpdateLogo \/ DeleteLogo
    \/ DeleteClient \/ CreateInvoice \/ UpdateInvoice \/ DeleteInvoice \/ IssueInvoice
    \/ CreateCreditNote \/ AddPayment \/ DeletePayment \/ NewYear

Spec == Init /\ [][Next]_vars

-----------------------------------------------------------------------------
(* Properties. *)

SeqsIssued(b, y) == {invoice[i].number.seq : i \in {j \in InvoicesOf(b) :
                        invoice[j].number # None /\ invoice[j].number.year = y}}

\* The numbers a business has given out in a year have no gap, whatever is
\* drafted, deleted, credited or renamed in between: a number is taken only by
\* a transaction that keeps it for ever.
NumbersHaveNoGaps ==
    \A b \in Rows(business), y \in Years : \A s \in SeqsIssued(b, y) : 1..s \subseteq SeqsIssued(b, y)

\* An issued invoice or credit note is never deleted, and its number, amount,
\* parties and snapshot never change; no draft operation, payment, credit or
\* change of the business reaches them.
IssuedIsImmutable ==
    [][\A i \in Invoices : Issued(i) =>
          /\ Issued(i)'
          /\ [invoice'[i] EXCEPT !.status = "ISSUED"] = [invoice[i] EXCEPT !.status = "ISSUED"]]_vars

\* The status agrees with the payments of the invoice, which never exceed its
\* total: the balance is checked and the status derived under the row lock.
StatusMatchesPayments ==
    \A i \in Rows(invoice) :
        /\ PaymentsOf(i) # {} => Paid(i) <= invoice[i].total
        /\ invoice[i].status \in {"DRAFT", "ISSUED"} => PaymentsOf(i) = {}
        /\ invoice[i].status = "PARTIALLY_PAID" => 0 < Paid(i) /\ Paid(i) < invoice[i].total
        /\ invoice[i].status = "PAID" => Paid(i) = invoice[i].total

\* Every invoice has its business and its client, and the client is one of
\* that business; what is being deleted or moved is never still in use.
PartiesBelong ==
    \A i \in Rows(invoice) :
        /\ business[invoice[i].business] # None
        /\ client[invoice[i].client] = invoice[i].business

\* The logo an invoice was issued with can still be printed on it, whatever
\* happens to the logo of its business.
SnapshotsKeepTheirLogo ==
    \A i \in Rows(invoice) :
        invoice[i].logo # None => asset[invoice[i].logo] = invoice[i].business

\* A credit note cancels an existing issued invoice of the same business over
\* the opposite amount, to the cent although both are rounded line by line,
\* and an invoice is CREDITED only if there is one.
CreditsCancel ==
    /\ \A c \in Rows(invoice) : invoice[c].type = "CREDIT_NOTE" =>
          LET i == invoice[c].original IN
          /\ i # None /\ Issued(i)
          /\ invoice[i].business = invoice[c].business
          /\ invoice[i].total = -invoice[c].total
    /\ \A i \in Rows(invoice) : invoice[i].status = "CREDITED" =>
          \E c \in Rows(invoice) : invoice[c].original = i
=============================================================================
