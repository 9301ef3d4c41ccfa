---------------------------- MODULE BankingProofs ----------------------------
(***************************************************************************)
(* Proofs about Banking, for any connections, accounts, transactions and   *)
(* threads: what overlapping syncs, authorizations, reviews and deletions  *)
(* leave of the bank's history.                                            *)
(***************************************************************************)
EXTENDS Banking, TLAPS

\* What a sync fetched, or a stored transaction, is not ahead of the bank.
Follows(x, b) ==
    /\ b # None /\ x.debit = b.debit
    /\ x.booked => b.booked /\ x.amount = b.amount

\* What a handler at a stage knows: its connection, the account it fetched, and
\* answers that the bank may have moved on from but never contradicts.
Fits(r, s) ==
    /\ s \notin {"idle", "replace"} => r.connection \in Connections
    /\ s = "save" => r.account \in Accounts
    /\ \A x \in Refs : r.reports[x] # None =>
          r.account \in Accounts /\ Follows(r.reports[x], bank[<<r.account, x>>])

HandlersKnow == \A p \in Proc : Fits(req[p], pc[p])

\* An expense and the transaction it was imported from point at each other, the
\* transaction is a booked debit of the same amount; one that is still to be
\* reviewed has no expense.
ReviewsMatch ==
    /\ \A e \in Expenses : expense[e] # None =>
          LET t == expense[e].tx IN
          /\ transaction[t] # None
          /\ transaction[t].import = "IMPORTED" /\ transaction[t].expense = e
          /\ transaction[t].booked /\ transaction[t].debit
          /\ expense[e].amount = transaction[t].amount
    /\ \A t \in Tx : transaction[t] # None =>
          /\ transaction[t].expense # None =>
                expense[transaction[t].expense] # None /\ expense[transaction[t].expense].tx = t
          /\ transaction[t].import = "PENDING" => transaction[t].expense = None

IInv == /\ TypeOK /\ HandlersKnow
        /\ PendingOwnsNothing /\ StoredFollowsBank /\ ReviewsMatch

LEMMA NoRequestFits ==
  /\ NoRequest \in Request
  /\ \A s \in {"idle", "replace"} : Fits(NoRequest, s)
  BY DEF NoRequest, Request, Fits

\* A step that writes no table and moves one thread, to a stage whose knowledge
\* it has.
LEMMA MoveInv ==
  ASSUME IInv, NEW p \in Proc, NEW s \in Stage, NEW r \in Request, Fits(r, s),
         pc' = [pc EXCEPT ![p] = s], req' = [req EXCEPT ![p] = r],
         UNCHANGED <<connection, account, transaction, expense, bank>>,
         consent' \in SUBSET Sessions, granted' \in SUBSET Sessions
  PROVE  IInv'
<1> USE DEF IInv
<1>1. TypeOK'
  BY DEF TypeOK
<1>2. HandlersKnow'
  BY DEF HandlersKnow, Fits, Follows, TypeOK
<1>3. PendingOwnsNothing' /\ StoredFollowsBank' /\ ReviewsMatch'
  BY DEF PendingOwnsNothing, Exists, StoredFollowsBank, ReviewsMatch
<1> QED BY <1>1, <1>2, <1>3

\* A step that ends a handler after a write: what is left to show.
LEMMA ReturnKnows ==
  ASSUME IInv, NEW p \in Proc, Return(p), UNCHANGED bank
  PROVE  /\ pc' \in [Proc -> Stage] /\ req' \in [Proc -> Request]
         /\ HandlersKnow'
  BY NoRequestFits DEF IInv, TypeOK, Return, Goto, Stage, HandlersKnow, Fits, Follows

-----------------------------------------------------------------------------
(* Steps that write no table. *)

LEMMA FailInv ==
  ASSUME IInv, NEW p \in Proc, Fail(p)
  PROVE  IInv'
  BY MoveInv, NoRequestFits DEF Fail, Return, Goto, database, provider, Stage, IInv, TypeOK

LEMMA StartInv ==
  ASSUME IInv, NEW p \in Proc, StartConnection(p)
  PROVE  IInv'
<1> USE DEF IInv
<1> DEFINE r == [req[p] EXCEPT !.pending = {c \in Connections : Pending(c)}]
<1>1. r \in Request /\ r.reports = req[p].reports /\ r.account = req[p].account
  BY DEF TypeOK, Request
<1>2. Fits(r, "replace")
  BY <1>1 DEF HandlersKnow, Fits
<1>3. /\ pc' = [pc EXCEPT ![p] = "replace"] /\ req' = [req EXCEPT ![p] = r]
      /\ UNCHANGED <<connection, account, transaction, expense, bank, consent, granted>>
  BY DEF StartConnection, Goto, database, provider
<1> HIDE DEF r
<1> QED BY <1>1, <1>2, <1>3, MoveInv DEF Stage, TypeOK

LEMMA CompleteInv ==
  ASSUME IInv, NEW p \in Proc, CompleteConnection(p)
  PROVE  IInv'
<1> USE DEF IInv
<1>1. PICK c \in Connections :
        /\ req' = [req EXCEPT ![p].connection = c] /\ pc' = [pc EXCEPT ![p] = "grant"]
        /\ UNCHANGED <<connection, account, transaction, expense, bank, consent, granted>>
  BY DEF CompleteConnection, Goto, database, provider
<1> DEFINE r == [req[p] EXCEPT !.connection = c]
<1>2. r \in Request /\ r.reports = req[p].reports /\ r.account = req[p].account /\ r.connection = c
  BY DEF TypeOK, Request
<1>3. Fits(r, "grant")
  BY <1>2 DEF HandlersKnow, Fits
<1>4. req' = [req EXCEPT ![p] = r]
  BY <1>1
<1> HIDE DEF r
<1> QED BY <1>1, <1>2, <1>3, <1>4, MoveInv DEF Stage, TypeOK

LEMMA GrantInv ==
  ASSUME IInv, NEW p \in Proc, GrantSession(p)
  PROVE  IInv'
<1> USE DEF IInv
<1>1. PICK s \in Sessions, A \in SUBSET Accounts :
        /\ granted' = granted \cup {s} /\ consent' = consent \cup {s}
        /\ IF A = {} THEN Return(p)
           ELSE /\ req' = [req EXCEPT ![p].session = s, ![p].accounts = A]
                /\ pc' = [pc EXCEPT ![p] = "authorize"]
        /\ UNCHANGED <<connection, account, transaction, expense, bank>>
  BY DEF GrantSession, Goto, database
<1>2. granted' \in SUBSET Sessions /\ consent' \in SUBSET Sessions
  BY <1>1 DEF TypeOK
<1>3. CASE A = {}
  BY <1>1, <1>2, <1>3, MoveInv, NoRequestFits DEF Return, Goto, Stage
<1>4. CASE A # {}
  <2> DEFINE r == [req[p] EXCEPT !.session = s, !.accounts = A]
  <2>1. /\ r \in Request /\ r.reports = req[p].reports /\ r.account = req[p].account
        /\ r.connection = req[p].connection
    BY DEF TypeOK, Request
  <2>2. Fits(r, "authorize")
    BY <2>1 DEF HandlersKnow, Fits, GrantSession
  <2>3. req' = [req EXCEPT ![p] = r]
    BY <1>1, <1>4 DEF TypeOK
  <2> HIDE DEF r
  <2> QED BY <1>1, <1>2, <1>4, <2>1, <2>2, <2>3, MoveInv DEF Stage
<1> QED BY <1>3, <1>4

\* A sync or a disconnection reads its connection.
LEMMA ReadConnectionInv ==
  ASSUME IInv, NEW p \in Proc, SyncConnection(p) \/ DisconnectBank(p)
  PROVE  IInv'
<1> USE DEF IInv
<1>1. PICK c \in Connections, s \in {"list", "revoke", "disconnect"} :
        /\ connection[c] # None
        /\ req' = [req EXCEPT ![p].connection = c, ![p].session = connection[c].session]
        /\ pc' = [pc EXCEPT ![p] = s]
        /\ UNCHANGED <<connection, account, transaction, expense, bank, consent, granted>>
  BY DEF SyncConnection, DisconnectBank, Goto, database, provider, Exists
<1> DEFINE r == [req[p] EXCEPT !.connection = c, !.session = connection[c].session]
<1>2. connection[c].session \in Sessions \cup {None}
  BY <1>1 DEF TypeOK, Connection
<1>3. r \in Request /\ r.reports = req[p].reports /\ r.account = req[p].account /\ r.connection = c
  BY <1>2 DEF TypeOK, Request
<1>4. Fits(r, s)
  BY <1>3 DEF HandlersKnow, Fits
<1>5. req' = [req EXCEPT ![p] = r]
  BY <1>1 DEF TypeOK
<1>6. s \in Stage /\ consent' \in SUBSET Sessions /\ granted' \in SUBSET Sessions
  BY <1>1 DEF Stage, TypeOK
<1> HIDE DEF r, IInv
<1> QED BY <1>1, <1>3, <1>4, <1>5, <1>6, MoveInv

LEMMA ListInv ==
  ASSUME IInv, NEW p \in Proc, ListAccounts(p)
  PROVE  IInv'
<1> USE DEF IInv
<1> DEFINE r == [req[p] EXCEPT !.accounts = AccountsOf(req[p].connection)]
<1>1. PICK s \in {"synced", "fetch"} : pc' = [pc EXCEPT ![p] = s]
  BY DEF ListAccounts, Goto
<1>2. /\ r \in Request /\ r.reports = req[p].reports /\ r.account = req[p].account
      /\ r.connection = req[p].connection
  BY DEF TypeOK, Request, AccountsOf
<1>3. Fits(r, s)
  BY <1>2 DEF HandlersKnow, Fits, ListAccounts
<1>4. /\ req' = [req EXCEPT ![p] = r]
      /\ UNCHANGED <<connection, account, transaction, expense, bank, consent, granted>>
  BY DEF ListAccounts, database, provider
<1> HIDE DEF r
<1> QED BY <1>1, <1>2, <1>3, <1>4, MoveInv DEF Stage, TypeOK

LEMMA FetchInv ==
  ASSUME IInv, NEW p \in Proc, FetchAccount(p)
  PROVE  IInv'
<1> USE DEF IInv
<1>1. PICK a \in req[p].accounts :
        /\ pc[p] = "fetch"
        /\ req' = [req EXCEPT ![p].account = a, ![p].accounts = @ \ {a},
                              ![p].reports = [x \in Refs |-> bank[<<a, x>>]]]
        /\ pc' = [pc EXCEPT ![p] = "save"]
        /\ UNCHANGED <<connection, account, transaction, expense, bank, consent, granted>>
  BY DEF FetchAccount, Goto, database, provider
<1> DEFINE R == [x \in Refs |-> bank[<<a, x>>]]
           r == [req[p] EXCEPT !.account = a, !.accounts = @ \ {a}, !.reports = R]
<1>2. a \in Accounts
  BY DEF TypeOK, Request
<1>3. R \in [Refs -> Report \cup {None}]
  BY <1>2 DEF TypeOK, Tx
<1>4. \A x \in Refs : R[x] # None => Follows(R[x], bank[<<a, x>>])
  BY DEF Follows
<1> HIDE DEF R
<1>5. r \in Request /\ r.reports = R /\ r.account = a /\ r.connection = req[p].connection
  BY <1>2, <1>3 DEF TypeOK, Request
<1>6. Fits(r, "save")
  BY <1>1, <1>2, <1>4, <1>5 DEF HandlersKnow, Fits
<1>7. req' = [req EXCEPT ![p] = r]
  BY <1>1 DEF TypeOK, R
<1> HIDE DEF r
<1> QED BY <1>1, <1>5, <1>6, <1>7, MoveInv DEF Stage, TypeOK

LEMMA FetchFailsInv ==
  ASSUME IInv, NEW p \in Proc, FetchFails(p) \/ DeleteSession(p)
  PROVE  IInv'
<1> USE DEF IInv
<1>1. PICK s \in {"failed", "disconnect"} : pc' = [pc EXCEPT ![p] = s]
  BY DEF FetchFails, DeleteSession, Goto
<1>2. req[p] \in Request /\ req' = [req EXCEPT ![p] = req[p]]
  BY DEF FetchFails, DeleteSession, TypeOK
<1>3. Fits(req[p], s)
  BY DEF HandlersKnow, Fits, FetchFails, DeleteSession
<1>4. /\ UNCHANGED <<connection, account, transaction, expense, bank>>
      /\ consent' \in SUBSET Sessions /\ granted' \in SUBSET Sessions
  BY DEF FetchFails, DeleteSession, database, provider, TypeOK
<1>5. s \in Stage
  BY DEF Stage
<1> HIDE DEF IInv
<1> QED BY <1>1, <1>2, <1>3, <1>4, <1>5, MoveInv

-----------------------------------------------------------------------------
(* Steps that write connections and accounts. *)

\* The connections that are replaced own no account, so the cascade takes no
\* transaction with it.
LEMMA NothingLost ==
  ASSUME IInv, NEW p \in Proc, ReplacePending(p)
  PROVE  /\ UNCHANGED <<account, transaction>>
         /\ \E n \in Connections :
              /\ connection[n] = None
              /\ connection' = [c \in Connections |->
                    IF c = n THEN [status |-> "PENDING", session |-> None]
                    ELSE IF c \in Replaced(p) THEN None ELSE connection[c]]
<1> USE DEF IInv
<1> DEFINE Lost == UNION {AccountsOf(c) : c \in Replaced(p)}
<1>1. \A a \in Accounts : a \notin Lost
  <2> SUFFICES ASSUME NEW c \in Replaced(p), NEW a \in AccountsOf(c) PROVE FALSE
    OBVIOUS
  <2>1. c \in Connections /\ Pending(c)
    BY DEF Replaced, TypeOK, Request
  <2>2. a \in Accounts /\ account[a] = c /\ c # None
    BY <2>1, NoneAssumption DEF AccountsOf
  <2> QED BY <2>1, <2>2 DEF PendingOwnsNothing, Pending
<1> HIDE DEF Lost
<1>2. /\ account' = [a \in Accounts |-> IF a \in Lost THEN None ELSE account[a]]
      /\ transaction' = [t \in Tx |-> IF t[1] \in Lost THEN None ELSE transaction[t]]
  BY DEF ReplacePending, Lost
<1>3. \A t \in Tx : t[1] \in Accounts
  BY DEF Tx
<1>4. account' = account /\ transaction' = transaction
  BY <1>1, <1>2, <1>3 DEF TypeOK
<1> QED BY <1>4 DEF ReplacePending, Exists

LEMMA ReplaceInv ==
  ASSUME IInv, NEW p \in Proc, ReplacePending(p)
  PROVE  IInv'
<1> USE DEF IInv
<1>1. UNCHANGED <<account, transaction, expense, bank, consent, granted>> /\ Return(p)
  BY NothingLost DEF ReplacePending, provider
<1>2. PICK n \in Connections :
        /\ connection[n] = None
        /\ connection' = [c \in Connections |->
                    IF c = n THEN [status |-> "PENDING", session |-> None]
                    ELSE IF c \in Replaced(p) THEN None ELSE connection[c]]
  BY NothingLost
<1>3. connection' \in [Connections -> Connection \cup {None}]
  BY <1>2 DEF TypeOK, Connection
<1>4. TypeOK' /\ HandlersKnow'
  BY <1>1, <1>3, ReturnKnows DEF TypeOK
<1>5. PendingOwnsNothing'
  <2> SUFFICES ASSUME NEW a \in Accounts, account[a] # None
               PROVE  connection'[account[a]] # None /\ connection'[account[a]].status # "PENDING"
    BY <1>1 DEF PendingOwnsNothing, Exists
  <2>1. /\ account[a] \in Connections /\ connection[account[a]] # None
        /\ connection[account[a]].status # "PENDING"
    BY DEF PendingOwnsNothing, Exists, TypeOK
  <2>2. account[a] # n /\ account[a] \notin Replaced(p)
    BY <1>2, <2>1 DEF Replaced, Pending
  <2> QED BY <1>2, <2>1, <2>2
<1>6. StoredFollowsBank' /\ ReviewsMatch'
  BY <1>1 DEF StoredFollowsBank, ReviewsMatch
<1> QED BY <1>4, <1>5, <1>6

\* A handler that sets the status of its connection to anything but PENDING.
LEMMA SetConnectionInv ==
  ASSUME IInv, NEW p \in Proc, Return(p),
         UNCHANGED <<transaction, expense, bank, consent, granted>>,
         NEW c \in Connections, NEW x \in Connection \cup {None},
         connection' = [connection EXCEPT ![c] = x],
         connection[c] # None => x # None,
         x # None => x.status # "PENDING" \/ x = connection[c],
         account' \in [Accounts -> Connections \cup {None}],
         \A a \in Accounts : account'[a] = account[a]
                          \/ (account'[a] = c /\ x # None /\ x.status # "PENDING")
  PROVE  IInv'
<1> USE DEF IInv
<1>1. TypeOK' /\ HandlersKnow'
  BY ReturnKnows DEF TypeOK
<1>2. PendingOwnsNothing'
  BY NoneAssumption DEF PendingOwnsNothing, Exists, TypeOK
<1>3. StoredFollowsBank' /\ ReviewsMatch'
  BY DEF StoredFollowsBank, ReviewsMatch
<1> QED BY <1>1, <1>2, <1>3

LEMMA AuthorizeInv ==
  ASSUME IInv, NEW p \in Proc, AuthorizeConnection(p)
  PROVE  IInv'
<1> USE DEF IInv
<1> DEFINE c == req[p].connection
           x == IF Pending(c) THEN [status |-> "AUTHORIZED", session |-> req[p].session]
                ELSE connection[c]
<1>1. c \in Connections /\ connection[c] # None /\ connection[c] \in Connection
  BY DEF AuthorizeConnection, HandlersKnow, Fits, Exists, TypeOK
<1>2. x \in Connection /\ x # None /\ x.status # "PENDING"
  BY <1>1, RecordAssumption DEF Pending, Exists, Connection, TypeOK, Request
<1>3. connection' = [connection EXCEPT ![c] = x]
  BY <1>1 DEF AuthorizeConnection, TypeOK
<1>4. /\ account' = [a \in Accounts |-> IF a \in req[p].accounts THEN c ELSE account[a]]
      /\ Return(p) /\ UNCHANGED <<transaction, expense, bank, consent, granted>>
  BY DEF AuthorizeConnection, provider
<1> HIDE DEF c, x
<1>5. account' \in [Accounts -> Connections \cup {None}]
  BY <1>1, <1>4 DEF TypeOK
<1> QED BY <1>1, <1>2, <1>3, <1>4, <1>5, SetConnectionInv

LEMMA SetStatusInv ==
  ASSUME IInv, NEW p \in Proc, MarkSynced(p) \/ Disconnect(p)
  PROVE  IInv'
<1> USE DEF IInv
<1> DEFINE c == req[p].connection
<1>1. PICK v \in {"AUTHORIZED", "ERROR", "DISCONNECTED"} :
        connection' = IF ~Exists(c) THEN connection ELSE [connection EXCEPT ![c].status = v]
  BY DEF MarkSynced, Disconnect
<1>2. Return(p) /\ UNCHANGED <<account, transaction, expense, bank, consent, granted>>
  BY DEF MarkSynced, Disconnect, provider
<1>3. c \in Connections
  BY DEF MarkSynced, Disconnect, HandlersKnow, Fits
<1> HIDE DEF c
<1>4. account' \in [Accounts -> Connections \cup {None}]
  BY <1>2 DEF TypeOK
<1>5. CASE ~Exists(c)
  <2>1. connection' = [connection EXCEPT ![c] = connection[c]] /\ connection[c] = None
    BY <1>1, <1>3, <1>5 DEF TypeOK, Exists
  <2> QED BY <1>2, <1>3, <1>4, <2>1, SetConnectionInv
<1>6. CASE Exists(c)
  <2> DEFINE x == [connection[c] EXCEPT !.status = v]
  <2>1. x \in Connection /\ x # None /\ x.status # "PENDING"
    BY <1>3, <1>6, RecordAssumption DEF TypeOK, Exists, Connection
  <2>2. connection' = [connection EXCEPT ![c] = x]
    BY <1>1, <1>6
  <2> HIDE DEF x
  <2> QED BY <1>2, <1>3, <1>4, <2>1, <2>2, SetConnectionInv
<1> QED BY <1>5, <1>6

-----------------------------------------------------------------------------
(* Steps that write transactions and expenses. *)

\* What the upsert makes of a stored row and an answer of the bank.
LEMMA UpsertKeeps ==
  ASSUME NEW old \in Stored \cup {None}, NEW new \in Report \cup {None}, NEW b,
         old # None => Follows(old, b), new # None => Follows(new, b)
  PROVE  LET u == Upsert(old, new) IN
         /\ u \in Stored \cup {None}
         /\ u # None => Follows(u, b)
         /\ old # None => /\ u # None /\ u.import = old.import /\ u.expense = old.expense
                          /\ u.debit = old.debit
                          /\ old.booked => u.booked
                          /\ old.import # "PENDING" => u = old
         /\ old = None /\ u # None => u.import = "PENDING" /\ u.expense = None
<1>1. CASE new = None
  BY <1>1 DEF Upsert
<1>2. CASE new # None /\ old = None
  <2>1. Upsert(old, new) = [booked |-> new.booked, debit |-> new.debit, amount |-> new.amount,
                            import |-> "PENDING", expense |-> None]
    BY <1>2 DEF Upsert
  <2> QED BY <1>2, <2>1 DEF Stored, Report, Follows
<1>3. CASE new # None /\ old # None
  <2>1. Upsert(old, new) = IF old.import = "PENDING" /\ ~old.booked /\ new.booked
                           THEN [old EXCEPT !.booked = TRUE, !.amount = new.amount] ELSE old
    BY <1>3 DEF Upsert
  <2>2. [old EXCEPT !.booked = TRUE, !.amount = new.amount] \in Stored
    BY <1>3 DEF Stored, Report
  <2> QED BY <1>3, <2>1, <2>2, RecordAssumption DEF Stored, Report, Follows
<1> QED BY <1>1, <1>2, <1>3

\* What a sync's save does to each stored transaction.
LEMMA SavedRows ==
  ASSUME IInv, NEW p \in Proc, SaveAccount(p), NEW t \in Tx
  PROVE  /\ transaction'[t] \in Stored \cup {None}
         /\ transaction'[t] # None => Follows(transaction'[t], bank[t])
         /\ transaction[t] # None =>
              /\ transaction'[t] # None
              /\ transaction'[t].import = transaction[t].import
              /\ transaction'[t].expense = transaction[t].expense
              /\ transaction[t].booked => transaction'[t].booked
              /\ transaction[t].import # "PENDING" => transaction'[t] = transaction[t]
         /\ transaction[t] = None /\ transaction'[t] # None =>
              transaction'[t].import = "PENDING" /\ transaction'[t].expense = None
<1> USE DEF IInv
<1>1. transaction'[t] = IF t[1] = req[p].account
                        THEN Upsert(transaction[t], req[p].reports[t[2]]) ELSE transaction[t]
  BY DEF SaveAccount
<1>2. /\ transaction[t] \in Stored \cup {None} /\ t[1] \in Accounts /\ t[2] \in Refs
      /\ t = <<t[1], t[2]>> /\ req[p].reports[t[2]] \in Report \cup {None}
  BY DEF TypeOK, Tx, Request
<1>3. transaction[t] # None => Follows(transaction[t], bank[t])
  BY DEF StoredFollowsBank, Follows
<1>4. CASE t[1] = req[p].account
  <2>1. req[p].reports[t[2]] # None => Follows(req[p].reports[t[2]], bank[t])
    BY <1>2, <1>4 DEF HandlersKnow, Fits
  <2> QED BY <1>1, <1>2, <1>3, <1>4, <2>1, UpsertKeeps
<1>5. CASE t[1] # req[p].account
  BY <1>1, <1>2, <1>3, <1>5
<1> QED BY <1>4, <1>5

LEMMA SaveInv ==
  ASSUME IInv, NEW p \in Proc, SaveAccount(p)
  PROVE  IInv'
<1> USE DEF IInv
<1>1. PICK s \in {"synced", "fetch"} : pc' = [pc EXCEPT ![p] = s]
  BY DEF SaveAccount, Goto
<1>2. UNCHANGED <<connection, account, expense, consent, granted, bank, req>> /\ pc[p] = "save"
  BY DEF SaveAccount, provider
<1>3. TypeOK'
  <2>1. transaction' \in [Tx -> Stored \cup {None}]
    BY SavedRows DEF SaveAccount
  <2> QED BY <1>1, <1>2, <2>1 DEF TypeOK, Stage
<1>4. HandlersKnow'
  BY <1>1, <1>2 DEF HandlersKnow, Fits, Follows, TypeOK
<1>5. PendingOwnsNothing'
  BY <1>2 DEF PendingOwnsNothing, Exists
<1>6. StoredFollowsBank'
  BY <1>2, SavedRows DEF StoredFollowsBank, Follows
<1>7. ReviewsMatch'
  <2>1. ASSUME NEW e \in Expenses, expense[e] # None
        PROVE  expense[e].tx \in Tx /\ transaction'[expense[e].tx] = transaction[expense[e].tx]
    <3>1. expense[e].tx \in Tx /\ transaction[expense[e].tx] # None
          /\ transaction[expense[e].tx].import = "IMPORTED"
      BY <2>1 DEF ReviewsMatch, TypeOK, Expense
    <3> QED BY <3>1, SavedRows
  <2>2. ASSUME NEW e \in Expenses, expense[e] # None
        PROVE  LET t == expense[e].tx IN
               /\ transaction'[t] # None
               /\ transaction'[t].import = "IMPORTED" /\ transaction'[t].expense = e
               /\ transaction'[t].booked /\ transaction'[t].debit
               /\ expense[e].amount = transaction'[t].amount
    BY <2>1, <2>2 DEF ReviewsMatch
  <2>3. ASSUME NEW t \in Tx, transaction'[t] # None
        PROVE  /\ transaction'[t].expense # None =>
                    expense[transaction'[t].expense] # None /\ expense[transaction'[t].expense].tx = t
               /\ transaction'[t].import = "PENDING" => transaction'[t].expense = None
    BY <2>3, SavedRows DEF ReviewsMatch
  <2> QED BY <1>2, <2>2, <2>3 DEF ReviewsMatch
<1> QED BY <1>3, <1>4, <1>5, <1>6, <1>7

LEMMA ImportInv ==
  ASSUME IInv, ImportTransaction
  PROVE  IInv'
<1> USE DEF IInv
<1>1. PICK t \in Tx, e \in Expenses :
        /\ transaction[t] # None /\ expense[e] = None /\ Importable(t)
        /\ expense' = [expense EXCEPT ![e] = [tx |-> t, amount |-> transaction[t].amount]]
        /\ transaction' = [transaction EXCEPT ![t].import = "IMPORTED", ![t].expense = e]
        /\ UNCHANGED <<connection, account, consent, granted, bank, pc, req>>
  BY DEF ImportTransaction, provider
<1> DEFINE x == [transaction[t] EXCEPT !.import = "IMPORTED", !.expense = e]
           y == [tx |-> t, amount |-> transaction[t].amount]
<1>2. transaction[t] \in Stored
  BY <1>1 DEF TypeOK
<1>3. /\ x \in Stored /\ x # None /\ x.import = "IMPORTED" /\ x.expense = e
      /\ x.booked = transaction[t].booked /\ x.debit = transaction[t].debit
      /\ x.amount = transaction[t].amount
  BY <1>2, RecordAssumption DEF Stored
<1>4. y \in Expense /\ y # None /\ y.tx = t /\ y.amount = transaction[t].amount
  BY <1>2, RecordAssumption DEF Stored, Expense
<1>5. /\ transaction'[t] = x /\ expense'[e] = y
      /\ \A s \in Tx : s # t => transaction'[s] = transaction[s]
      /\ \A f \in Expenses : f # e => expense'[f] = expense[f]
      /\ transaction' \in [Tx -> Stored \cup {None}] /\ expense' \in [Expenses -> Expense \cup {None}]
  BY <1>1, <1>2, <1>3, <1>4 DEF TypeOK
<1> HIDE DEF x, y
<1>6. transaction[t].booked /\ transaction[t].debit /\ transaction[t].import = "PENDING"
      /\ transaction[t].expense = None
  BY <1>1 DEF Importable, ReviewsMatch
<1>7. TypeOK'
  BY <1>1, <1>5 DEF TypeOK
<1>8. HandlersKnow'
  BY <1>1 DEF HandlersKnow, Fits, Follows
<1>9. PendingOwnsNothing'
  BY <1>1 DEF PendingOwnsNothing, Exists
<1>10. StoredFollowsBank'
  BY <1>1, <1>3, <1>5 DEF StoredFollowsBank
<1>11. ReviewsMatch'
  <2>1. ASSUME NEW f \in Expenses, expense'[f] # None
        PROVE  LET s == expense'[f].tx IN
               /\ transaction'[s] # None
               /\ transaction'[s].import = "IMPORTED" /\ transaction'[s].expense = f
               /\ transaction'[s].booked /\ transaction'[s].debit
               /\ expense'[f].amount = transaction'[s].amount
    <3>1. CASE f = e
      BY <1>3, <1>4, <1>5, <1>6, <3>1
    <3>2. CASE f # e
      <4>1. expense'[f] = expense[f] /\ expense[f].tx \in Tx /\ expense[f].tx # t
        BY <1>5, <1>6, <2>1, <3>2 DEF ReviewsMatch, TypeOK, Expense
      <4> QED BY <1>5, <2>1, <4>1 DEF ReviewsMatch
    <3> QED BY <3>1, <3>2
  <2>2. ASSUME NEW s \in Tx, transaction'[s] # None
        PROVE  /\ transaction'[s].expense # None =>
                    expense'[transaction'[s].expense] # None /\ expense'[transaction'[s].expense].tx = s
               /\ transaction'[s].import = "PENDING" => transaction'[s].expense = None
    <3>1. CASE s = t
      BY <1>3, <1>4, <1>5, <3>1
    <3>2. CASE s # t
      <4>1. transaction'[s] = transaction[s] /\ transaction[s].expense \in Expenses \cup {None}
        BY <1>5, <2>2, <3>2 DEF TypeOK, Stored
      <4>2. transaction[s].expense # None => transaction[s].expense # e
        BY <1>1, <2>2, <4>1 DEF ReviewsMatch
      <4> QED BY <1>5, <2>2, <4>1, <4>2 DEF ReviewsMatch
    <3> QED BY <3>1, <3>2
  <2> QED BY <2>1, <2>2 DEF ReviewsMatch
<1> QED BY <1>7, <1>8, <1>9, <1>10, <1>11

LEMMA IgnoreInv ==
  ASSUME IInv, IgnoreTransaction
  PROVE  IInv'
<1> USE DEF IInv
<1>1. PICK t \in Tx :
        /\ transaction[t] # None /\ transaction[t].import = "PENDING"
        /\ transaction' = [transaction EXCEPT ![t].import = "IGNORED"]
        /\ UNCHANGED <<connection, account, expense, consent, granted, bank, pc, req>>
  BY DEF IgnoreTransaction, provider
<1> DEFINE x == [transaction[t] EXCEPT !.import = "IGNORED"]
<1>2. transaction[t] \in Stored
  BY <1>1 DEF TypeOK
<1>3. /\ x \in Stored /\ x # None /\ x.import = "IGNORED" /\ x.expense = transaction[t].expense
      /\ x.booked = transaction[t].booked /\ x.debit = transaction[t].debit
      /\ x.amount = transaction[t].amount
  BY <1>2, RecordAssumption DEF Stored
<1>4. /\ transaction'[t] = x
      /\ \A s \in Tx : s # t => transaction'[s] = transaction[s]
      /\ transaction' \in [Tx -> Stored \cup {None}]
  BY <1>1, <1>2, <1>3 DEF TypeOK
<1> HIDE DEF x
<1>5. TypeOK'
  BY <1>1, <1>4 DEF TypeOK
<1>6. HandlersKnow'
  BY <1>1 DEF HandlersKnow, Fits, Follows
<1>7. PendingOwnsNothing'
  BY <1>1 DEF PendingOwnsNothing, Exists
<1>8. StoredFollowsBank'
  BY <1>1, <1>3, <1>4 DEF StoredFollowsBank
<1>9. ReviewsMatch'
  <2>1. ASSUME NEW f \in Expenses, expense[f] # None PROVE expense[f].tx \in Tx /\ expense[f].tx # t
    BY <1>1, <2>1 DEF ReviewsMatch, TypeOK, Expense
  <2>2. transaction[t].expense = None
    BY <1>1 DEF ReviewsMatch
  <2> QED BY <1>1, <1>3, <1>4, <2>1, <2>2 DEF ReviewsMatch
<1> QED BY <1>5, <1>6, <1>7, <1>8, <1>9

LEMMA DeleteExpenseInv ==
  ASSUME IInv, DeleteExpense
  PROVE  IInv'
<1> USE DEF IInv
<1>1. PICK e \in Expenses :
        /\ expense[e] # None
        /\ expense' = [expense EXCEPT ![e] = None]
        /\ transaction' = [t \in Tx |-> IF transaction[t] # None /\ transaction[t].expense = e
                                        THEN [transaction[t] EXCEPT !.expense = None]
                                        ELSE transaction[t]]
        /\ UNCHANGED <<connection, account, consent, granted, bank, pc, req>>
  BY DEF DeleteExpense, provider
\* Nothing but the reference to the deleted expense changes, and only from e to NULL.
<1>2. ASSUME NEW t \in Tx, transaction[t] # None
      PROVE  /\ transaction'[t] \in Stored /\ transaction'[t] # None
             /\ transaction'[t].import = transaction[t].import
             /\ transaction'[t].booked = transaction[t].booked
             /\ transaction'[t].debit = transaction[t].debit
             /\ transaction'[t].amount = transaction[t].amount
             /\ transaction[t].expense # e => transaction'[t] = transaction[t]
             /\ transaction[t].expense = e => transaction'[t].expense = None
  <2>1. transaction[t] \in Stored
    BY <1>2 DEF TypeOK
  <2>2. [transaction[t] EXCEPT !.expense = None] \in Stored
    BY <2>1 DEF Stored
  <2> QED BY <1>1, <1>2, <2>1, <2>2, RecordAssumption DEF Stored
<1>3. \A t \in Tx : transaction[t] = None => transaction'[t] = None
  BY <1>1
<1>4. TypeOK'
  <2>1. transaction' \in [Tx -> Stored \cup {None}]
    BY <1>1, <1>2, <1>3
  <2>2. expense' \in [Expenses -> Expense \cup {None}]
    BY <1>1 DEF TypeOK
  <2> QED BY <1>1, <2>1, <2>2 DEF TypeOK
<1>5. HandlersKnow'
  BY <1>1 DEF HandlersKnow, Fits, Follows
<1>6. PendingOwnsNothing'
  BY <1>1 DEF PendingOwnsNothing, Exists
<1>7. StoredFollowsBank'
  BY <1>1, <1>2, <1>3 DEF StoredFollowsBank
<1>8. ReviewsMatch'
  <2>1. ASSUME NEW f \in Expenses, expense'[f] # None
        PROVE  LET s == expense'[f].tx IN
               /\ transaction'[s] # None
               /\ transaction'[s].import = "IMPORTED" /\ transaction'[s].expense = f
               /\ transaction'[s].booked /\ transaction'[s].debit
               /\ expense'[f].amount = transaction'[s].amount
    <3>1. f # e /\ expense'[f] = expense[f] /\ expense[f].tx \in Tx
      BY <1>1, <2>1 DEF TypeOK, Expense
    <3> QED BY <1>2, <2>1, <3>1 DEF ReviewsMatch
  <2>2. ASSUME NEW s \in Tx, transaction'[s] # None
        PROVE  /\ transaction'[s].expense # None =>
                    expense'[transaction'[s].expense] # None /\ expense'[transaction'[s].expense].tx = s
               /\ transaction'[s].import = "PENDING" => transaction'[s].expense = None
    <3>1. transaction[s] # None
      BY <1>3, <2>2
    <3>2. transaction[s].expense \in Expenses \cup {None}
      BY <3>1 DEF TypeOK, Stored
    <3> QED BY <1>1, <1>2, <3>1, <3>2 DEF ReviewsMatch, TypeOK
  <2> QED BY <2>1, <2>2 DEF ReviewsMatch
<1> QED BY <1>4, <1>5, <1>6, <1>7, <1>8

-----------------------------------------------------------------------------
(* Steps of the bank: what was reported stays true of it. *)

LEMMA BankInv ==
  ASSUME IInv, BankPosts \/ BankBooks \/ ConsentEnds
  PROVE  IInv'
<1> USE DEF IInv
<1>1. UNCHANGED <<connection, account, transaction, expense, granted, pc, req>>
  BY DEF BankPosts, BankBooks, ConsentEnds, database, provider
<1>2. /\ bank' \in [Tx -> Report \cup {None}] /\ consent' \in SUBSET Sessions
      /\ \A t \in Tx : bank[t] # None =>
           /\ bank'[t] # None /\ bank'[t].debit = bank[t].debit
           /\ bank[t].booked => bank'[t] = bank[t]
  <2>1. CASE BankPosts
    BY <2>1 DEF BankPosts, TypeOK
  <2>2. CASE BankBooks
    <3> PICK t \in Tx, n \in Amounts :
          /\ bank[t] # None /\ ~bank[t].booked
          /\ bank' = [bank EXCEPT ![t].booked = TRUE, ![t].amount = n]
      BY <2>2 DEF BankBooks
    <3> DEFINE x == [bank[t] EXCEPT !.booked = TRUE, !.amount = n]
    <3>1. x \in Report /\ x # None /\ x.debit = bank[t].debit
      BY RecordAssumption DEF TypeOK, Report
    <3>2. bank' = [bank EXCEPT ![t] = x] /\ consent' = consent
      BY <2>2 DEF TypeOK, BankBooks
    <3> HIDE DEF x
    <3> QED BY <3>1, <3>2 DEF TypeOK
  <2>3. CASE ConsentEnds
    BY <2>3 DEF ConsentEnds, TypeOK
  <2> QED BY <2>1, <2>2, <2>3
<1>3. \A x : \A t \in Tx : Follows(x, bank[t]) => Follows(x, bank'[t])
  BY <1>2 DEF Follows
<1>4. TypeOK'
  BY <1>1, <1>2 DEF TypeOK
<1>5. HandlersKnow'
  <2> SUFFICES ASSUME NEW p \in Proc PROVE Fits(req[p], pc[p])'
    BY DEF HandlersKnow
  <2>1. Fits(req[p], pc[p])
    BY DEF HandlersKnow
  <2>2. ASSUME NEW x \in Refs, req[p].reports[x] # None
        PROVE  req[p].account \in Accounts /\ Follows(req[p].reports[x], bank'[<<req[p].account, x>>])
    <3>1. req[p].account \in Accounts /\ <<req[p].account, x>> \in Tx
          /\ Follows(req[p].reports[x], bank[<<req[p].account, x>>])
      BY <2>1, <2>2 DEF Fits, Tx
    <3> QED BY <1>3, <3>1
  <2> QED BY <1>1, <2>1, <2>2 DEF Fits, Follows
<1>6. PendingOwnsNothing' /\ ReviewsMatch'
  BY <1>1 DEF PendingOwnsNothing, Exists, ReviewsMatch
<1>7. StoredFollowsBank'
  BY <1>1, <1>2 DEF StoredFollowsBank
<1> QED BY <1>4, <1>5, <1>6, <1>7

-----------------------------------------------------------------------------
LEMMA InitInv == Init => IInv
<1> SUFFICES ASSUME Init PROVE IInv
  OBVIOUS
<1>1. TypeOK
  BY NoRequestFits DEF Init, TypeOK, Stage
<1>2. HandlersKnow
  BY NoRequestFits DEF Init, HandlersKnow
<1> QED BY <1>1, <1>2 DEF Init, IInv, PendingOwnsNothing, StoredFollowsBank, ReviewsMatch

LEMMA NextInv == IInv /\ [Next]_vars => IInv'
<1> SUFFICES ASSUME IInv, [Next]_vars PROVE IInv'
  OBVIOUS
<1>1. ASSUME NEW p \in Proc, Handler(p) PROVE IInv'
  BY <1>1, FailInv, StartInv, CompleteInv, GrantInv, ReadConnectionInv, ListInv, FetchInv,
     FetchFailsInv, ReplaceInv, AuthorizeInv, SetStatusInv, SaveInv DEF Handler
<1>2. CASE ImportTransaction \/ IgnoreTransaction \/ DeleteExpense
  BY <1>2, ImportInv, IgnoreInv, DeleteExpenseInv
<1>3. CASE BankPosts \/ BankBooks \/ ConsentEnds
  BY <1>3, BankInv
<1>4. CASE UNCHANGED vars
  BY <1>4 DEF vars, IInv, TypeOK, HandlersKnow, Fits, Follows, PendingOwnsNothing, Exists,
              StoredFollowsBank, ReviewsMatch
<1> QED BY <1>1, <1>2, <1>3, <1>4 DEF Next

LEMMA Invariance == Spec => []IInv
  BY InitInv, NextInv, PTL DEF Spec

\* Every table and every thread keeps its type.
THEOREM TypeCorrect == Spec => []TypeOK
<1>1. IInv => TypeOK
  BY DEF IInv
<1> QED BY <1>1, Invariance, PTL

\* A connection that can still be replaced owns no account, whichever
\* completions overlap: replacing it deletes nothing that was synced.
THEOREM OnlyEmptyConnectionsGo == Spec => []PendingOwnsNothing
<1>1. IInv => PendingOwnsNothing
  BY DEF IInv
<1> QED BY <1>1, Invariance, PTL

\* No order in which overlapping syncs save what they fetched puts a stored
\* transaction ahead of the bank or changes a booked one.
THEOREM StoredNeverAhead == Spec => []StoredFollowsBank
<1>1. IInv => StoredFollowsBank
  BY DEF IInv
<1> QED BY <1>1, Invariance, PTL

\* An imported expense is a booked debit with the bank's final amount, and no
\* transaction is imported twice.
THEOREM ImportsAreFinal == Spec => []ExpensesAreBookedDebits
<1>1. IInv => ExpensesAreBookedDebits
  <2> SUFFICES ASSUME IInv PROVE ExpensesAreBookedDebits
    OBVIOUS
  <2>1. \A e \in Expenses : expense[e] # None => expense[e].tx \in Tx
    BY DEF IInv, TypeOK, Expense
  <2> QED BY <2>1 DEF IInv, ReviewsMatch, StoredFollowsBank, ExpensesAreBookedDebits
<1> QED BY <1>1, Invariance, PTL

\* No step deletes a stored transaction, takes back its booking or its review.
THEOREM NothingSyncedIsLost == Spec => HistoryIsKept
<1> DEFINE Kept == \A t \in Tx : transaction[t] # None =>
          /\ transaction'[t] # None
          /\ transaction[t].booked => transaction'[t].booked
          /\ transaction[t].import # "PENDING" => transaction'[t].import = transaction[t].import
<1>1. ASSUME IInv, [Next]_vars PROVE [Kept]_vars
  <2> SUFFICES ASSUME NEW t \in Tx, transaction[t] # None
               PROVE  /\ transaction'[t] # None
                      /\ transaction[t].booked => transaction'[t].booked
                      /\ transaction[t].import # "PENDING" => transaction'[t].import = transaction[t].import
    OBVIOUS
  <2>1. CASE UNCHANGED transaction
    BY <2>1
  <2>2. CASE \E p \in Proc : SaveAccount(p)
    BY <1>1, <2>2, SavedRows
  <2>3. CASE ImportTransaction \/ IgnoreTransaction
    <3>1. /\ transaction \in [Tx -> Stored \cup {None}] /\ transaction[t] \in Stored
          /\ transaction'[t] \in Stored \cup {None}
      BY <1>1, NextInv DEF IInv, TypeOK
    <3>2. PICK s \in Tx : /\ transaction[s].import = "PENDING"
                          /\ transaction'[s] # None
                          /\ transaction'[s].booked = transaction[s].booked
                          /\ \A r \in Tx : r # s => transaction'[r] = transaction[r]
      <4>1. CASE ImportTransaction
        <5> PICK s \in Tx, e \in Expenses :
              /\ transaction[s] # None /\ Importable(s)
              /\ transaction' = [transaction EXCEPT ![s].import = "IMPORTED", ![s].expense = e]
          BY <4>1 DEF ImportTransaction
        <5> DEFINE x == [transaction[s] EXCEPT !.import = "IMPORTED", !.expense = e]
        <5>1. x \in Stored /\ x # None /\ x.booked = transaction[s].booked
          BY <1>1, RecordAssumption DEF IInv, TypeOK, Stored
        <5>2. transaction' = [transaction EXCEPT ![s] = x]
          BY <3>1
        <5> HIDE DEF x
        <5> QED BY <3>1, <5>1, <5>2 DEF Importable
      <4>2. CASE IgnoreTransaction
        <5> PICK s \in Tx :
              /\ transaction[s] # None /\ transaction[s].import = "PENDING"
              /\ transaction' = [transaction EXCEPT ![s].import = "IGNORED"]
          BY <4>2 DEF IgnoreTransaction
        <5> DEFINE x == [transaction[s] EXCEPT !.import = "IGNORED"]
        <5>1. x \in Stored /\ x # None /\ x.booked = transaction[s].booked
          BY <1>1, RecordAssumption DEF IInv, TypeOK, Stored
        <5>2. transaction' = [transaction EXCEPT ![s] = x]
          BY <3>1
        <5> HIDE DEF x
        <5> QED BY <3>1, <5>1, <5>2
      <4> QED BY <2>3, <4>1, <4>2
    <3> QED BY <3>2
  <2>4. CASE DeleteExpense
    <3> PICK e \in Expenses :
        transaction' = [s \in Tx |-> IF transaction[s] # None /\ transaction[s].expense = e
                                        THEN [transaction[s] EXCEPT !.expense = None]
                                        ELSE transaction[s]]
      BY <2>4 DEF DeleteExpense
    <3>1. transaction[t] \in Stored
      BY <1>1 DEF IInv, TypeOK
    <3>2. LET x == [transaction[t] EXCEPT !.expense = None] IN
          x \in Stored /\ x # None /\ x.booked = transaction[t].booked /\ x.import = transaction[t].import
      BY <3>1, RecordAssumption DEF Stored
    <3> QED BY <3>1, <3>2
  <2>5. CASE \E p \in Proc : ReplacePending(p)
    BY <1>1, <2>5, NothingLost
  <2> QED BY <1>1, <2>1, <2>2, <2>3, <2>4, <2>5
       DEF Next, Handler, StartConnection, CompleteConnection, GrantSession, AuthorizeConnection,
           SyncConnection, ListAccounts, FetchAccount, FetchFails, MarkSynced, DisconnectBank,
           DeleteSession, Disconnect, Fail, BankPosts, BankBooks, ConsentEnds, database, vars
<1> HIDE DEF Kept
<1>2. Spec => [][Kept]_vars
  BY <1>1, Invariance, PTL DEF Spec
<1> QED BY <1>2 DEF HistoryIsKept, Kept
=============================================================================
