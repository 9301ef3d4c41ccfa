------------------------------ MODULE NetWorth ------------------------------
(***************************************************************************)
(* The net-worth items of one user and their daily snapshots               *)
(* (app/repositories/net_worth_repository.py, app/api/net_worth.py and     *)
(* app/services/net_worth_service.py).                                     *)
(*                                                                         *)
(* One action per statement, READ COMMITTED: what a transaction has        *)
(* written is in req until Commit, and another transaction that needs the  *)
(* same row, link or (item, day) waits.  A transaction may end without     *)
(* effect at any point (Abort), which is also how a deadlock ends.  The    *)
(* shared lock that a snapshot takes on its item is left out where it only *)
(* makes an update wait.  Bank accounts belong to Banking; here a sync     *)
(* sets their balance and currency.                                        *)
(***************************************************************************)
EXTENDS Integers, FiniteSets, Functions

CONSTANTS
    Items, Accounts, Proc, Currencies,
    Values,      \* current_value, in cents
    Balances,    \* what a bank may report, of either sign
    Shares,      \* ownership_percent of an item in hundredths of a percent,
                 \* negative for a liability
    Inputs,      \* the rows requests may ask for
    MaxDay,      \* bound on the clock
    None

Row == [value: Values, currency: Currencies, share: Shares,
        link: Accounts \cup {None}, active: BOOLEAN]

Snapshot == [value: Nat, currency: Currencies, share: Shares]

ASSUME InputAssumption ==
    /\ Values \subseteq Nat /\ Balances \subseteq Int /\ Shares \subseteq Int /\ MaxDay \in Nat
    /\ Inputs \subseteq Row
    /\ None \notin Items \cup Accounts \cup Int /\ None \notin Row /\ None \notin Snapshot

VARIABLES
    account,    \* bank_accounts
    item,       \* net_worth_items, or None
    snap,       \* net_worth_snapshots: per item and day, or None
    drawn,      \* ids the sequence has given out
    today,
    pc, req,    \* each thread's next statement, and its transaction
    overtaken   \* history: items whose newest snapshot is older than they are

vars == <<account, item, snap, drawn, today, pc, req, overtaken>>

Days == 0..MaxDay

Request == [call: {"create", "update", "snapshot", None},
            id: Items \cup {None}, row: Row \cup {None},   \* the row it writes
            day: Days \cup {None}, todo: SUBSET Items,     \* snapshots to take
            at: Items \cup {None},                         \* the one under way
            snaps: [Items -> Snapshot \cup {None}],        \* snapshots taken
            stale: SUBSET Items]                           \* history: changed since

Nothing == [i \in Items |-> None]

NoRequest == [call |-> None, id |-> None, row |-> None, day |-> None, todo |-> {},
              at |-> None, snaps |-> Nothing, stale |-> {}]

TypeOK ==
    /\ account \in [Accounts -> [currency: Currencies, balance: Balances \cup {None}]]
    /\ item \in [Items -> Row \cup {None}]
    /\ snap \in [Items -> [Days -> Snapshot \cup {None}]]
    /\ drawn \subseteq Items /\ overtaken \subseteq Items
    /\ today \in Days
    /\ pc \in [Proc -> {"idle", "write", "read", "insert", "commit"}]
    /\ req \in [Proc -> Request]

-----------------------------------------------------------------------------
(* Definitions called Mutant_... are deliberate mistakes that nothing refers *)
(* to: each replaces the definition after it to see a property fail.         *)

Goto(p, stage) == pc' = [pc EXCEPT ![p] = stage]

Return(p) ==
    /\ Goto(p, "idle")
    /\ req' = [req EXCEPT ![p] = NoRequest]

\* The transaction of p has written item i, or a snapshot of it.
Holds(p, i) == req[p].id = i /\ pc[p] \in {"insert", "commit"}
Shows(p, i) == req[p].snaps[i] # None /\ req[p].at # i

Abs(n) == IF n < 0 THEN -n ELSE n

Mutant_SignedValue(r) ==
    IF r.link = None \/ account[r.link].balance = None THEN r.value ELSE account[r.link].balance

\* ABS(COALESCE(ba.current_balance, nwi.current_value)) of a linked item.
EffectiveValue(r) ==
    IF r.link = None \/ account[r.link].balance = None THEN r.value
    ELSE Abs(account[r.link].balance)

Snap(r) == [value |-> EffectiveValue(r), currency |-> r.currency, share |-> r.share]

Mutant_UniqueWhenChecked(i, l) ==
    l # None => \A j \in Items \ {i} : item[j] # None => item[j].link # l

\* UNIQUE (user_id, linked_bank_account_id): a row that is committed, or that
\* another transaction has written, keeps others out.
LinkIsFree(i, l) ==
    l # None =>
       /\ \A j \in Items \ {i} : item[j] # None => item[j].link # l
       /\ \A q \in Proc, j \in Items \ {i} : Holds(q, j) => req[q].row.link # l

-----------------------------------------------------------------------------
(* create_net_worth_item and update_net_worth_item *)

\* _validate_linked_bank_account: its two SELECTs, of the account and of a
\* duplicate, in one step.  What they find may change before the item is written.
Validate(p, call, i) ==
    \E r \in Inputs :
        /\ pc[p] = "idle"
        /\ r.link # None =>
              /\ account[r.link].currency = r.currency
              /\ \A j \in Items \ {i} : item[j] # None => item[j].link # r.link
        /\ req' = [req EXCEPT ![p] = [NoRequest EXCEPT !.call = call, !.id = i, !.row = r]]
        /\ Goto(p, "write")
        /\ UNCHANGED <<account, item, snap, drawn, today, overtaken>>

CreateItem(p) == Validate(p, "create", None)

\* Clients know the ids of items that were committed.
UpdateItem(p) == \E i \in Items : item[i] # None /\ Validate(p, "update", i)

\* The row is written as soon as no other transaction keeps it out.  The
\* statement of _snapshot_item that comes next reads the balance and the day at
\* once: nothing the lock lets happen in between would have been impossible
\* before it was taken.
Write(p, i) ==
    LET r == req[p].row IN
    /\ pc[p] = "write"
    /\ \A q \in Proc : ~Holds(q, i)
    /\ LinkIsFree(i, r.link)
    /\ req' = [req EXCEPT ![p].id = i, ![p].at = i, ![p].day = today, ![p].snaps[i] = Snap(r)]
    /\ Goto(p, "insert")
    /\ UNCHANGED <<account, item, snap, today, overtaken>>

\* INSERT: the id is from the sequence, which gives none twice.
WriteNew(p) ==
    \E i \in Items \ drawn :
        /\ req[p].call = "create"
        /\ Write(p, i)
        /\ drawn' = drawn \cup {i}

\* UPDATE, unless the row was deleted meanwhile (404: Abort).
WriteOver(p) ==
    /\ req[p].call = "update"
    /\ item[req[p].id] # None
    /\ Write(p, req[p].id)
    /\ UNCHANGED drawn

-----------------------------------------------------------------------------
(* POST /net-worth/snapshots, and the INSERT of _snapshot_item *)

\* snapshot_all_items, its SELECT.  A day in the past is accepted.
SnapshotAll(p) ==
    LET active == {i \in Items : item[i] # None /\ item[i].active} IN
    \E d \in 0..today :
        /\ pc[p] = "idle"
        /\ active # {}
        /\ req' = [req EXCEPT ![p] = [NoRequest EXCEPT !.call = "snapshot", !.day = d,
                                                       !.todo = active]]
        /\ Goto(p, "read")
        /\ UNCHANGED <<account, item, snap, drawn, today, overtaken>>

\* INSERT ... SELECT: item and balance are read when the statement starts; of
\* a deleted item there is nothing to insert.
ReadItem(p) ==
    \E i \in req[p].todo :
        /\ pc[p] = "read"
        /\ IF item[i] = None
           THEN /\ req' = [req EXCEPT ![p].todo = @ \ {i}]
                /\ Goto(p, IF req[p].todo = {i} THEN "commit" ELSE "read")
           ELSE /\ req' = [req EXCEPT ![p].at = i, ![p].snaps[i] = Snap(item[i])]
                /\ Goto(p, "insert")
        /\ UNCHANGED <<account, item, snap, drawn, today, overtaken>>

\* What the transaction sees of item i: its own write, or what is committed.
Visible(p, i) == IF Holds(p, i) THEN req[p].row ELSE item[i]

\* ... and written when no other transaction has a row for the day; ON CONFLICT
\* replaces a committed one.  The item must still be there (foreign key).
InsertSnapshot(p) ==
    LET i == req[p].at IN
    /\ pc[p] = "insert"
    /\ Visible(p, i) # None
    /\ \A q \in Proc \ {p} : Shows(q, i) => req[q].day # req[p].day
    /\ req' = [req EXCEPT ![p].at = None, ![p].todo = @ \ {i}]
    /\ Goto(p, IF req[p].todo \subseteq {i} THEN "commit" ELSE "read")
    /\ UNCHANGED <<account, item, snap, drawn, today, overtaken>>

-----------------------------------------------------------------------------
(* The end of a transaction, and the statements that are one. *)

Touched(p) == {i \in Items : req[p].snaps[i] # None}

IsNewest(i, d) == \A e \in Days : e > d => snap[i][e] = None

\* History: a snapshot that becomes the newest settles whether its item is
\* overtaken; a change recorded under a day before the newest does not show.
Overtaken(p) ==
    {i \in overtaken \cup Touched(p) :
        IF i \notin Touched(p) \/ (req[p].call = "snapshot" /\ ~IsNewest(i, req[p].day))
        THEN i \in overtaken
        ELSE i \in req[p].stale \/ ~IsNewest(i, req[p].day)}

\* A change of item i reaches the transactions that have read it.
Overtake(p, i) ==
    [q \in Proc |-> IF q # p /\ i \in Touched(q)
                    THEN [req[q] EXCEPT !.stale = @ \cup {i}] ELSE req[q]]

Mutant_Kept(i, d, s) == IF snap[i][d] = None THEN [snap[i] EXCEPT ![d] = s] ELSE snap[i]

\* ON CONFLICT (item_id, recorded_on) DO UPDATE: one snapshot a day, the last.
Kept(i, d, s) == [snap[i] EXCEPT ![d] = s]

Commit(p) ==
    LET i == req[p].id IN
    /\ pc[p] = "commit"
    /\ item' = IF i = None THEN item ELSE [item EXCEPT ![i] = req[p].row]
    /\ snap' = [j \in Items |->
          IF j \in Touched(p) THEN Kept(j, req[p].day, req[p].snaps[j]) ELSE snap[j]]
    /\ overtaken' = Overtaken(p)
    /\ req' = [Overtake(p, i) EXCEPT ![p] = NoRequest]
    /\ Goto(p, "idle")
    /\ UNCHANGED <<account, drawn, today>>

\* A refusal, an error of the database, a lost connection, a deadlock.
Abort(p) ==
    /\ pc[p] # "idle"
    /\ Return(p)
    /\ UNCHANGED <<account, item, snap, drawn, today, overtaken>>

Mutant_DeleteWhateverHappens ==
    \E i \in Items :
        /\ item[i] # None
        /\ item' = [item EXCEPT ![i] = None]
        /\ snap' = [snap EXCEPT ![i] = [d \in Days |-> None]]
        /\ overtaken' = overtaken \ {i}
        /\ UNCHANGED <<account, drawn, today, pc, req>>

\* delete_net_worth_item: ON DELETE CASCADE takes the snapshots along.  It
\* waits for transactions that have written the item or a snapshot of it.
DeleteItem ==
    \E i \in Items :
        /\ item[i] # None
        /\ \A q \in Proc : ~Holds(q, i) /\ ~Shows(q, i)
        /\ item' = [item EXCEPT ![i] = None]
        /\ snap' = [snap EXCEPT ![i] = [d \in Days |-> None]]
        /\ overtaken' = overtaken \ {i}
        /\ UNCHANGED <<account, drawn, today, pc, req>>

\* save_account_sync: the bank decides on the currency as well.
Sync ==
    \E a \in Accounts, c \in Currencies, b \in Balances :
        LET linked == {i \in Items : item[i] # None /\ item[i].link = a}
            written(q) == {i \in Touched(q) : Visible(q, i) # None /\ Visible(q, i).link = a}
        IN  /\ account' = [account EXCEPT ![a] = [currency |-> c, balance |-> b]]
            /\ overtaken' = overtaken \cup linked
            /\ req' = [q \in Proc |-> [req[q] EXCEPT !.stale = @ \cup written(q)]]
            /\ UNCHANGED <<item, snap, drawn, today, pc>>

NewDay ==
    /\ today < MaxDay
    /\ today' = today + 1
    /\ UNCHANGED <<account, item, snap, drawn, pc, req, overtaken>>

-----------------------------------------------------------------------------
Init ==
    /\ account \in [Accounts -> [currency: Currencies, balance: {None}]]
    /\ item = Nothing
    /\ snap = [i \in Items |-> [d \in Days |-> None]]
    /\ drawn = {}
    /\ today = 0
    /\ pc = [p \in Proc |-> "idle"]
    /\ req = [p \in Proc |-> NoRequest]
    /\ overtaken = {}

Next ==
    \/ \E p \in Proc :
         \/ CreateItem(p) \/ UpdateItem(p) \/ WriteNew(p) \/ WriteOver(p)
         \/ SnapshotAll(p) \/ ReadItem(p) \/ InsertSnapshot(p) \/ Commit(p) \/ Abort(p)
    \/ DeleteItem \/ Sync \/ NewDay

Spec == Init /\ [][Next]_vars

-----------------------------------------------------------------------------
(* get_net_worth_history and calculate_net_worth_summary.  Net worth is what *)
(* is owned less what is owed, the sums of the positive and of the negative  *)
(* shares; a whole is 10000 hundredths of a percent.                         *)

\* The days the history has a point for, when it is asked for from a day on.
Dates(c, from) ==
    {d \in Days : d >= from /\ \E i \in Items : snap[i][d] # None /\ snap[i][d].currency = c}

\* The newest snapshot of i on or before day d, if there is one.
Latest(i, d) ==
    {snap[i][e] : e \in {f \in 0..d : /\ snap[i][f] # None
                                      /\ \A g \in f + 1..d : snap[i][g] = None}}

\* The point of day d, as SQL adds it up: not rounded, in 10000ths of a cent.
History(c, d) ==
    LET latest(i) == CHOOSE s \in Latest(i, d) : TRUE
        counted == {i \in Items : item[i] # None /\ \E s \in Latest(i, d) : s.currency = c}
    IN  FoldFunction(+, 0, [i \in counted |-> latest(i).value * latest(i).share])

\* quantize(Decimal("0.01")): the nearest cent, of two the even one.
Cents(n) ==
    LET low == n \div 10000
        rest == n % 10000
    IN  IF rest > 5000 \/ (rest = 5000 /\ low % 2 = 1) THEN low + 1 ELSE low

\* In cents: the sum is rounded, not what is added up.
Summary(c) ==
    LET counted == {i \in Items : item[i] # None /\ item[i].active /\ item[i].currency = c}
    IN  Cents(FoldFunction(+, 0, [i \in counted |-> EffectiveValue(item[i]) * item[i].share]))

-----------------------------------------------------------------------------
(* Properties. *)

\* A bank account is in net worth once, though two requests may both have found
\* no duplicate.
AccountsCountOnce ==
    \A i, j \in Items :
        item[i] # None /\ item[j] # None /\ item[i].link = item[j].link /\ i # j
            => item[i].link = None

\* Items and snapshots come and go together: an item has had a snapshot since
\* it was created, and no snapshot is left of an item that is gone, whatever was
\* taking snapshots while it was deleted.
ItemsHaveHistory ==
    \A i \in Items : item[i] # None <=> \E d \in 0..today : snap[i][d] # None

Undisturbed(c, d) ==
    \A i \in Items : item[i] # None =>
        /\ i \notin overtaken /\ item[i].active
        /\ item[i].currency = c \/ \A s \in Latest(i, d) : s.currency # c

\* From whichever day the history is asked for, its last point rounded to cents
\* is the summary, unless an item is inactive, has left the currency, or has
\* changed behind its newest snapshot: backdated snapshots, changes around
\* midnight and requests at the same time do not bring the two apart.  Without a
\* snapshot in the currency there is nothing to sum; that a history has no point
\* because its snapshots are older than its first day says nothing.
HistoryMeetsSummary ==
    \A c \in Currencies :
        /\ \A from \in Days : \A d \in Dates(c, from) :
             (\A e \in Dates(c, from) : e <= d) /\ Undisturbed(c, d)
                 => Cents(History(c, d)) = Summary(c)
        /\ Dates(c, 0) = {} /\ Undisturbed(c, MaxDay) => Summary(c) = 0
=============================================================================
