------------------------------ MODULE Banking ------------------------------
(***************************************************************************)
(* The bank connections, accounts and transactions of one user             *)
(* (app/api/banking.py, app/repositories/bank_repository.py) and the part  *)
(* of the provider they depend on (app/services/bank_sync_service.py).     *)
(*                                                                         *)
(* A handler alternates between database transactions and provider calls;  *)
(* each is one action, and everything else may happen in between.  The     *)
(* provider, and the bank behind it, are external: they are modelled from  *)
(* what the client asks and what it makes of the answers.  A provider call *)
(* may fail at any time, which ends the handler or, in a sync, records     *)
(* the error.  Access is scoped to the user everywhere, so there is one.   *)
(***************************************************************************)
EXTENDS Naturals, FiniteSets

CONSTANTS
    Connections, Sessions, Accounts, Expenses, Proc,
    Refs,          \* references (fingerprints) of transactions in an account
    Amounts,
    None

ASSUME NoneAssumption ==
    None \notin Connections \cup Sessions \cup Accounts \cup Expenses \cup Proc \cup Amounts

VARIABLES
    connection,    \* bank_connections: rows, or None
    account,       \* bank_accounts: the connection of an account, or None
    transaction,   \* bank_transactions: rows, or None
    expense,       \* expenses that came from an import, or None
    consent,       \* provider: the sessions that can be used
    granted,       \* provider: every session it ever returned
    bank,          \* bank: the transactions of each account, or None
    pc, req        \* each thread's next step, and what it knows

vars == <<connection, account, transaction, expense, consent, granted, bank, pc, req>>

Tx == Accounts \X Refs

Connection == [status: {"PENDING", "AUTHORIZED", "ERROR", "DISCONNECTED"},
               session: Sessions \cup {None}]

\* What the bank reports and normalize_transaction keeps of it.
Report == [booked: BOOLEAN, debit: BOOLEAN, amount: Amounts]

Stored == [booked: BOOLEAN, debit: BOOLEAN, amount: Amounts,
           import: {"PENDING", "IMPORTED", "IGNORED"}, expense: Expenses \cup {None}]

Expense == [tx: Tx, amount: Amounts]

ASSUME RecordAssumption == None \notin Connection \cup Report \cup Stored \cup Expense

Request == [connection: Connections \cup {None}, session: Sessions \cup {None},
            accounts: SUBSET Accounts, account: Accounts \cup {None},
            reports: [Refs -> Report \cup {None}], pending: SUBSET Connections]

NoRequest == [connection |-> None, session |-> None, accounts |-> {}, account |-> None,
              reports |-> [r \in Refs |-> None], pending |-> {}]

Stage == {"idle", "replace", "grant", "authorize", "list", "fetch", "save", "synced", "failed",
          "revoke", "disconnect"}

TypeOK ==
    /\ connection \in [Connections -> Connection \cup {None}]
    /\ account \in [Accounts -> Connections \cup {None}]
    /\ transaction \in [Tx -> Stored \cup {None}]
    /\ expense \in [Expenses -> Expense \cup {None}]
    /\ consent \in SUBSET Sessions /\ granted \in SUBSET Sessions
    /\ bank \in [Tx -> Report \cup {None}]
    /\ pc \in [Proc -> Stage]
    /\ req \in [Proc -> Request]

-----------------------------------------------------------------------------
(* Definitions called Mutant_... are deliberate mistakes that nothing refers *)
(* to: each replaces the definition after it to see a property fail.         *)

Exists(c) == connection[c] # None

Pending(c) == Exists(c) /\ connection[c].status = "PENDING"

AccountsOf(c) == {a \in Accounts : account[a] = c}

Goto(p, stage) == pc' = [pc EXCEPT ![p] = stage]

Return(p) ==
    /\ Goto(p, "idle")
    /\ req' = [req EXCEPT ![p] = NoRequest]

database == <<connection, account, transaction, expense>>
provider == <<consent, granted, bank>>

\* A handler that ends without another write: a refused precondition, a failed
\* provider call, a database error (its transaction rolls back), a crash.
Fail(p) ==
    /\ pc[p] # "idle"
    /\ Return(p)
    /\ UNCHANGED <<database, provider>>

-----------------------------------------------------------------------------
(* POST /banking/connections/start: after the provider has an authorization *)
(* URL, create_pending_connection deletes the PENDING connections its       *)
(* DELETE finds and inserts a new one.                                      *)

StartConnection(p) ==
    /\ pc[p] = "idle"
    /\ req' = [req EXCEPT ![p].pending = {c \in Connections : Pending(c)}]
    /\ Goto(p, "replace")
    /\ UNCHANGED <<database, provider>>

Mutant_ReplacedAsFound(p) == {c \in req[p].pending : Exists(c)}

\* DELETE looks at a row again once it has waited for its lock.
Replaced(p) == {c \in req[p].pending : Pending(c)}

\* The commit.  Connections that were authorized before the DELETE reached
\* them are left alone; accounts and transactions go by ON DELETE CASCADE.
ReplacePending(p) ==
    LET D == Replaced(p)
        Lost == UNION {AccountsOf(c) : c \in D}
    IN
    /\ pc[p] = "replace"
    /\ \E n \in Connections :
         /\ ~Exists(n) /\ \A q \in Proc : req[q].connection # n
         /\ connection' = [c \in Connections |->
               IF c = n THEN [status |-> "PENDING", session |-> None]
               ELSE IF c \in D THEN None ELSE connection[c]]
    /\ account' = [a \in Accounts |-> IF a \in Lost THEN None ELSE account[a]]
    /\ transaction' = [t \in Tx |-> IF t[1] \in Lost THEN None ELSE transaction[t]]
    /\ Return(p)
    /\ UNCHANGED <<expense, provider>>

-----------------------------------------------------------------------------
(* POST /banking/connections/complete *)

\* get_pending_connection: the state is the one of a PENDING connection.
CompleteConnection(p) ==
    \E c \in Connections :
        /\ pc[p] = "idle"
        /\ Pending(c)
        /\ req' = [req EXCEPT ![p].connection = c]
        /\ Goto(p, "grant")
        /\ UNCHANGED <<database, provider>>

\* authorize_session: the provider turns the code into a session.  An answer
\* with no account ends the handler.
GrantSession(p) ==
    \E s \in Sessions \ granted, A \in SUBSET Accounts :
        /\ pc[p] = "grant"
        /\ granted' = granted \cup {s} /\ consent' = consent \cup {s}
        /\ IF A = {} THEN Return(p)
           ELSE /\ req' = [req EXCEPT ![p].session = s, ![p].accounts = A]
                /\ Goto(p, "authorize")
        /\ UNCHANGED <<database, bank>>

Mutant_StayPending(p) ==
    LET c == req[p].connection IN
    /\ pc[p] = "authorize"
    /\ Exists(c)
    /\ connection' = IF Pending(c) THEN [connection EXCEPT ![c].session = req[p].session] ELSE connection
    /\ account' = [a \in Accounts |-> IF a \in req[p].accounts THEN c ELSE account[a]]
    /\ Return(p)
    /\ UNCHANGED <<transaction, expense, provider>>

\* authorize_connection: the connection is updated only if it is PENDING, the
\* accounts are moved to it in any case.  If it is gone their foreign key
\* fails (Fail).
AuthorizeConnection(p) ==
    LET c == req[p].connection IN
    /\ pc[p] = "authorize"
    /\ Exists(c)
    /\ connection' = IF Pending(c)
                     THEN [connection EXCEPT ![c] = [status |-> "AUTHORIZED", session |-> req[p].session]]
                     ELSE connection
    /\ account' = [a \in Accounts |-> IF a \in req[p].accounts THEN c ELSE account[a]]
    /\ Return(p)
    /\ UNCHANGED <<transaction, expense, provider>>

-----------------------------------------------------------------------------
(* POST /banking/connections/{id}/sync *)

SyncConnection(p) ==
    \E c \in Connections :
        /\ pc[p] = "idle"
        /\ Exists(c) /\ connection[c].status # "DISCONNECTED" /\ connection[c].session # None
        /\ req' = [req EXCEPT ![p].connection = c, ![p].session = connection[c].session]
        /\ Goto(p, "list")
        /\ UNCHANGED <<database, provider>>

\* get_accounts_for_connection
ListAccounts(p) ==
    LET A == AccountsOf(req[p].connection) IN
    /\ pc[p] = "list"
    /\ req' = [req EXCEPT ![p].accounts = A]
    /\ Goto(p, IF A = {} THEN "synced" ELSE "fetch")
    /\ UNCHANGED <<database, provider>>

\* The provider's pages for the next account, as the bank is then.
FetchAccount(p) ==
    \E a \in req[p].accounts :
        /\ pc[p] = "fetch"
        /\ req[p].session \in consent
        /\ req' = [req EXCEPT ![p].account = a, ![p].accounts = @ \ {a},
                              ![p].reports = [r \in Refs |-> bank[<<a, r>>]]]
        /\ Goto(p, "save")
        /\ UNCHANGED <<database, provider>>

\* A refusal or a timeout becomes an HTTPException, which the sync records.
FetchFails(p) ==
    /\ pc[p] = "fetch"
    /\ Goto(p, "failed")
    /\ UNCHANGED <<database, provider, req>>

Mutant_LastWriteWins(old, new) ==
    CASE new = None -> old
      [] new # None /\ old = None ->
            [booked |-> new.booked, debit |-> new.debit, amount |-> new.amount,
             import |-> "PENDING", expense |-> None]
      [] new # None /\ old # None ->
            [old EXCEPT !.booked = @ \/ new.booked, !.amount = new.amount]

Mutant_NotInTheInbox(old, new) ==
    IF new = None \/ old # None THEN old
    ELSE [booked |-> new.booked, debit |-> new.debit, amount |-> new.amount,
          import |-> "NONE", expense |-> None]

\* INSERT ... ON CONFLICT DO UPDATE: a stored transaction is overwritten only
\* by its booking, and only while nobody has reviewed it.
Upsert(old, new) ==
    CASE new = None -> old
      [] new # None /\ old = None ->
            [booked |-> new.booked, debit |-> new.debit, amount |-> new.amount,
             import |-> "PENDING", expense |-> None]
      [] new # None /\ old # None ->
            IF old.import = "PENDING" /\ ~old.booked /\ new.booked
            THEN [old EXCEPT !.booked = TRUE, !.amount = new.amount] ELSE old

SaveAccount(p) ==
    LET a == req[p].account IN
    /\ pc[p] = "save"
    /\ account[a] # None
    /\ transaction' = [t \in Tx |-> IF t[1] = a THEN Upsert(transaction[t], req[p].reports[t[2]])
                                    ELSE transaction[t]]
    /\ Goto(p, IF req[p].accounts = {} THEN "synced" ELSE "fetch")
    /\ UNCHANGED <<connection, account, expense, provider, req>>

\* mark_connection_synced looks at no status.
MarkSynced(p) ==
    LET c == req[p].connection IN
    /\ pc[p] \in {"synced", "failed"}
    /\ connection' = IF ~Exists(c) THEN connection
                     ELSE [connection EXCEPT ![c].status = IF pc[p] = "synced" THEN "AUTHORIZED" ELSE "ERROR"]
    /\ Return(p)
    /\ UNCHANGED <<account, transaction, expense, provider>>

-----------------------------------------------------------------------------
(* DELETE /banking/connections/{id} *)

\* What the connection is now decides whether the provider is called.
DisconnectBank(p) ==
    \E c \in Connections :
        /\ pc[p] = "idle"
        /\ Exists(c)
        /\ req' = [req EXCEPT ![p].connection = c, ![p].session = connection[c].session]
        /\ Goto(p, IF connection[c].session # None /\ connection[c].status # "DISCONNECTED"
                   THEN "revoke" ELSE "disconnect")
        /\ UNCHANGED <<database, provider>>

DeleteSession(p) ==
    /\ pc[p] = "revoke"
    /\ consent' = consent \ {req[p].session}
    /\ Goto(p, "disconnect")
    /\ UNCHANGED <<database, granted, bank, req>>

Disconnect(p) ==
    LET c == req[p].connection IN
    /\ pc[p] = "disconnect"
    /\ connection' = IF ~Exists(c) THEN connection
                     ELSE [connection EXCEPT ![c].status = "DISCONNECTED"]
    /\ Return(p)
    /\ UNCHANGED <<account, transaction, expense, provider>>

-----------------------------------------------------------------------------
(* The review of transactions.  import_transaction locks the row it reads,  *)
(* ignore_transaction is one UPDATE: each takes effect at once.             *)

Mutant_AnyDebit(t) == transaction[t].debit /\ transaction[t].import = "PENDING"

Importable(t) ==
    transaction[t].debit /\ transaction[t].booked /\ transaction[t].import = "PENDING"

ImportTransaction ==
    \E t \in Tx, e \in Expenses :
        /\ transaction[t] # None /\ expense[e] = None
        /\ Importable(t)
        /\ expense' = [expense EXCEPT ![e] = [tx |-> t, amount |-> transaction[t].amount]]
        /\ transaction' = [transaction EXCEPT ![t].import = "IMPORTED", ![t].expense = e]
        /\ UNCHANGED <<connection, account, provider, pc, req>>

IgnoreTransaction ==
    \E t \in Tx :
        /\ transaction[t] # None /\ transaction[t].import = "PENDING"
        /\ transaction' = [transaction EXCEPT ![t].import = "IGNORED"]
        /\ UNCHANGED <<connection, account, expense, provider, pc, req>>

\* DELETE /expenses/{id}: the transaction stays IMPORTED, ON DELETE SET NULL.
DeleteExpense ==
    \E e \in Expenses :
        /\ expense[e] # None
        /\ expense' = [expense EXCEPT ![e] = None]
        /\ transaction' = [t \in Tx |-> IF transaction[t] # None /\ transaction[t].expense = e
                                        THEN [transaction[t] EXCEPT !.expense = None]
                                        ELSE transaction[t]]
        /\ UNCHANGED <<connection, account, provider, pc, req>>

-----------------------------------------------------------------------------
(* The bank and the provider. *)

\* A payment appears, pending or booked; what is booked is final.
BankPosts ==
    \E t \in Tx, r \in Report :
        /\ bank[t] = None
        /\ bank' = [bank EXCEPT ![t] = r]
        /\ UNCHANGED <<database, consent, granted, pc, req>>

BankBooks ==
    \E t \in Tx, n \in Amounts :
        /\ bank[t] # None /\ ~bank[t].booked
        /\ bank' = [bank EXCEPT ![t].booked = TRUE, ![t].amount = n]
        /\ UNCHANGED <<database, consent, granted, pc, req>>

\* The consent runs out, or is withdrawn at the bank.
ConsentEnds ==
    \E s \in consent :
        /\ consent' = consent \ {s}
        /\ UNCHANGED <<database, granted, bank, pc, req>>

-----------------------------------------------------------------------------
Init ==
    /\ connection = [c \in Connections |-> None]
    /\ account = [a \in Accounts |-> None]
    /\ transaction = [t \in Tx |-> None]
    /\ expense = [e \in Expenses |-> None]
    /\ consent = {} /\ granted = {}
    /\ bank = [t \in Tx |-> None]
    /\ pc = [p \in Proc |-> "idle"]
    /\ req = [p \in Proc |-> NoRequest]

Handler(p) ==
    \/ StartConnection(p) \/ ReplacePending(p)
    \/ CompleteConnection(p) \/ GrantSession(p) \/ AuthorizeConnection(p)
    \/ SyncConnection(p) \/ ListAccounts(p) \/ FetchAccount(p) \/ FetchFails(p)
    \/ SaveAccount(p) \/ MarkSynced(p)
    \/ DisconnectBank(p) \/ DeleteSession(p) \/ Disconnect(p) \/ Fail(p)

Next ==
    \/ \E p \in Proc : Handler(p)
    \/ ImportTransaction \/ IgnoreTransaction \/ DeleteExpense
    \/ BankPosts \/ BankBooks \/ ConsentEnds

Spec == Init /\ [][Next]_vars

-----------------------------------------------------------------------------
(* Properties. *)

\* An expense that came from the bank is a booked debit that was imported,
\* with the final amount, whatever syncs with older answers do meanwhile; and
\* no two expenses come from one transaction.
ExpensesAreBookedDebits ==
    /\ \A e \in Expenses : expense[e] # None =>
          LET t == expense[e].tx IN
          /\ transaction[t].import = "IMPORTED" /\ transaction[t].expense = e
          /\ bank[t].booked /\ bank[t].debit
          /\ expense[e].amount = bank[t].amount
    /\ \A t \in Tx : transaction[t] # None =>
          (transaction[t].expense # None => expense[transaction[t].expense].tx = t)

\* Syncs that overlap may save what they fetched in any order: a stored
\* transaction is never ahead of the bank, and a booked one is what was booked
\* unless it was reviewed before.
StoredFollowsBank ==
    \A t \in Tx : transaction[t] # None =>
        /\ bank[t] # None /\ transaction[t].debit = bank[t].debit
        /\ transaction[t].booked => bank[t].booked /\ transaction[t].amount = bank[t].amount

\* Nothing that was synced disappears, and what was booked or reviewed stays so:
\* starting another connection deletes only connections without accounts,
\* and no sync resets a review.
HistoryIsKept ==
    [][\A t \in Tx : transaction[t] # None =>
          /\ transaction'[t] # None
          /\ transaction[t].booked => transaction'[t].booked
          /\ transaction[t].import # "PENDING" => transaction'[t].import = transaction[t].import]_vars

\* Only PENDING connections are ever deleted, and those own no account.
PendingOwnsNothing ==
    \A a \in Accounts : account[a] # None =>
        Exists(account[a]) /\ connection[account[a]].status # "PENDING"
=============================================================================
