--------------------------- MODULE NetWorthProofs ---------------------------
(***************************************************************************)
(* Proofs about NetWorth, for any items, accounts, threads, currencies and *)
(* days: what overlapping changes, snapshots, deletions and syncs leave of *)
(* the items and of their history.                                         *)
(***************************************************************************)
EXTENDS NetWorth, TLAPS

\* What a transaction that is under way has read and written so far.
TransactionsKnow ==
    \A p \in Proc :
        /\ pc[p] \in {"idle", "write"} => req[p].snaps = Nothing
        /\ pc[p] = "write" =>
             /\ req[p].row \in Row /\ req[p].todo = {}
             /\ req[p].call = "create" \/ (req[p].call = "update" /\ req[p].id \in Items)
        /\ pc[p] = "insert" => req[p].at \in Items /\ req[p].snaps[req[p].at] # None
        /\ pc[p] # "insert" => req[p].at = None
        /\ pc[p] = "read" => req[p].id = None
        /\ pc[p] \in {"read", "insert", "commit"} =>
             /\ req[p].day \in 0..today
             /\ req[p].id = None => req[p].call = "snapshot"
             /\ req[p].id # None =>
                  /\ req[p].call # "snapshot" /\ req[p].row \in Row /\ req[p].todo = {}
                  /\ \A i \in Items : req[p].snaps[i] # None <=> i = req[p].id

\* A snapshot that was inserted is of an item that is there, or that the
\* transaction has written itself.
ShownItemsExist ==
    \A p \in Proc, i \in Items : Shows(p, i) => Holds(p, i) \/ item[i] # None

\* Rows that are written and not committed keep others out: of their item, and
\* of their account.
HeldApart ==
    \A p \in Proc, i, j \in Items : Holds(p, i) =>
        /\ \A q \in Proc : Holds(q, j) =>
              /\ i = j => p = q
              /\ i # j /\ req[p].row.link = req[q].row.link => req[p].row.link = None
        /\ i # j /\ item[j] # None /\ item[j].link = req[p].row.link => req[p].row.link = None

\* Snapshots are of items that are there and of days that have come, and every
\* item has one.
HistoryGrounded ==
    \A i \in Items :
        /\ \A d \in Days : snap[i][d] # None => d <= today /\ item[i] # None
        /\ item[i] # None => \E d \in Days : snap[i][d] # None

\* What a transaction read of an item that nothing has changed since is what the
\* item is, as the transaction sees it.
ReadsAreCurrent ==
    \A p \in Proc, i \in Items :
        i \in Touched(p) /\ i \notin req[p].stale /\ Visible(p, i) # None
            => req[p].snaps[i] = Snap(Visible(p, i))

\* The newest snapshot of an item that has not changed behind it is the item.
NewestIsCurrent ==
    \A i \in Items : item[i] # None /\ i \notin overtaken =>
        \E d \in Days : snap[i][d] = Snap(item[i]) /\ IsNewest(i, d)

IInv == /\ TypeOK /\ TransactionsKnow /\ ShownItemsExist /\ HeldApart /\ AccountsCountOnce
        /\ HistoryGrounded /\ ReadsAreCurrent /\ NewestIsCurrent

\* What _snapshot_item inserts is a snapshot.
LEMMA SnapType ==
  ASSUME TypeOK, NEW r \in Row
  PROVE  /\ Snap(r) \in Snapshot
         /\ r # None /\ Snap(r) # None
<1> USE InputAssumption
<1>1. EffectiveValue(r) \in Nat
  <2>1. CASE r.link = None \/ account[r.link].balance = None
    BY <2>1 DEF EffectiveValue, Row
  <2>2. CASE r.link # None /\ account[r.link].balance # None
    <3>1. account[r.link].balance \in Int
      BY <2>2 DEF TypeOK, Row
    <3> QED BY <2>2, <3>1 DEF EffectiveValue, Abs
  <2> QED BY <2>1, <2>2
<1>2. Snap(r) \in Snapshot
  BY <1>1 DEF Snap, Snapshot, Row
<1> QED BY <1>2

LEMMA NoRequestType ==
  /\ NoRequest \in Request
  /\ \A i \in Items : NoRequest.snaps[i] = None
  /\ NoRequest.id = None /\ NoRequest.at = None /\ NoRequest.snaps = Nothing
  /\ None \notin Items
  BY InputAssumption DEF NoRequest, Request, Nothing

\* What only the tables and the clock say.
LEMMA TablesKept ==
  ASSUME IInv, UNCHANGED <<account, item, snap, overtaken, today>>
  PROVE  AccountsCountOnce' /\ HistoryGrounded' /\ NewestIsCurrent'
<1> USE DEF IInv
<1>1. AccountsCountOnce' /\ HistoryGrounded'
  BY DEF AccountsCountOnce, HistoryGrounded
<1>2. NewestIsCurrent'
  BY DEF NewestIsCurrent, Snap, EffectiveValue, IsNewest
<1> QED BY <1>1, <1>2

\* What a thread at stage s with transaction r knows, in the terms of the
\* invariants, when the others stay where they are.
Knows(s, r) ==
    /\ s \in {"idle", "write"} => r.snaps = Nothing
    /\ s = "write" =>
         /\ r.row \in Row /\ r.todo = {}
         /\ r.call = "create" \/ (r.call = "update" /\ r.id \in Items)
    /\ s = "insert" => r.at \in Items /\ r.snaps[r.at] # None
    /\ s # "insert" => r.at = None
    /\ s = "read" => r.id = None
    /\ s \in {"read", "insert", "commit"} =>
         /\ r.day \in 0..today
         /\ r.id = None => r.call = "snapshot"
         /\ r.id # None =>
              /\ r.call # "snapshot" /\ r.row \in Row /\ r.todo = {}
              /\ \A i \in Items : r.snaps[i] # None <=> i = r.id

Keeps(s, r, i) == r.id = i /\ s \in {"insert", "commit"}

Sees(s, r, i) == IF Keeps(s, r, i) THEN r.row ELSE item[i]

\* A transaction thread p may move to: true to the tables, and keeping nothing
\* that another one keeps.
Fits(p, s, r) ==
    /\ Knows(s, r)
    /\ \A i \in Items :
         /\ r.snaps[i] # None /\ r.at # i => Keeps(s, r, i) \/ item[i] # None
         /\ Keeps(s, r, i) =>
              \/ Holds(p, i) /\ r.row = req[p].row
              \/ (\A q \in Proc : ~Holds(q, i)) /\ LinkIsFree(i, r.row.link)
         /\ r.snaps[i] # None /\ i \notin r.stale /\ Sees(s, r, i) # None
              => r.snaps[i] = Snap(Sees(s, r, i))

\* A step that writes no table and moves one thread.
LEMMA MoveInv ==
  ASSUME IInv, NEW p \in Proc, NEW s \in {"idle", "write", "read", "insert", "commit"},
         NEW r \in Request,
         pc' = [pc EXCEPT ![p] = s], req' = [req EXCEPT ![p] = r],
         UNCHANGED <<account, item, snap, today, overtaken>>,
         drawn' \in SUBSET Items,
         Fits(p, s, r)
  PROVE  IInv'
<1> USE DEF IInv, Fits
<1>0. /\ pc'[p] = s /\ req'[p] = r
      /\ \A q \in Proc \ {p} : pc'[q] = pc[q] /\ req'[q] = req[q]
  BY DEF TypeOK
<1>1. TypeOK'
  BY DEF TypeOK
<1>2. TransactionsKnow'
  <2> SUFFICES ASSUME NEW q \in Proc
               PROVE  Knows(pc[q], req[q])'
    BY DEF TransactionsKnow, Knows
  <2>1. CASE q = p
    BY <1>0, <2>1 DEF Knows
  <2>2. CASE q # p
    BY <1>0, <2>2 DEF TransactionsKnow, Knows
  <2> QED BY <2>1, <2>2
<1>3. \A i \in Items :
        /\ Holds(p, i)' <=> Keeps(s, r, i)
        /\ \A q \in Proc \ {p} : Holds(q, i)' <=> Holds(q, i)
  BY <1>0 DEF Holds, Keeps
<1>4. ShownItemsExist'
  <2> SUFFICES ASSUME NEW q \in Proc, NEW i \in Items, Shows(q, i)'
               PROVE  Holds(q, i)' \/ item[i] # None
    BY DEF ShownItemsExist
  <2>1. CASE q = p
    BY <1>0, <1>3, <2>1 DEF Shows
  <2>2. CASE q # p
    BY <1>0, <1>3, <2>2 DEF ShownItemsExist, Shows
  <2> QED BY <2>1, <2>2
<1>5. HeldApart'
  <2>1. ASSUME NEW q \in Proc, NEW i \in Items, Holds(q, i)'
        PROVE  \A j \in Items : i # j /\ item[j] # None /\ item[j].link = req'[q].row.link
                 => req'[q].row.link = None
    <3>1. CASE q = p
      BY <1>0, <1>3, <2>1, <3>1 DEF HeldApart, LinkIsFree
    <3>2. CASE q # p
      BY <1>0, <1>3, <2>1, <3>2 DEF HeldApart
    <3> QED BY <3>1, <3>2
  <2>2. ASSUME NEW i \in Items, NEW j \in Items, NEW q \in Proc \ {p},
               Holds(p, i)', Holds(q, j)'
        PROVE  /\ i # j
               /\ r.row.link = req[q].row.link => r.row.link = None
    <3>1. Keeps(s, r, i) /\ Holds(q, j)
      BY <1>3, <2>2
    <3>2. CASE Holds(p, i) /\ r.row = req[p].row
      BY <3>1, <3>2 DEF HeldApart
    <3>3. CASE (\A q1 \in Proc : ~Holds(q1, i)) /\ LinkIsFree(i, r.row.link)
      BY <3>1, <3>3 DEF LinkIsFree
    <3> QED BY <3>1, <3>2, <3>3
  <2>3. ASSUME NEW i \in Items, NEW j \in Items, NEW q1 \in Proc, NEW q \in Proc,
               Holds(q1, i)', Holds(q, j)'
        PROVE  /\ i = j => q1 = q
               /\ i # j /\ req'[q1].row.link = req'[q].row.link => req'[q1].row.link = None
    <3>1. CASE q1 = p /\ q # p
      BY <1>0, <2>2, <2>3, <3>1
    <3>2. CASE q1 # p /\ q = p
      <4>1. /\ j # i
            /\ r.row.link = req[q1].row.link => r.row.link = None
        BY <2>2, <2>3, <3>2
      <4> QED BY <1>0, <4>1, <3>2
    <3>3. CASE q1 # p /\ q # p
      BY <1>0, <1>3, <2>3, <3>3 DEF HeldApart
    <3>4. CASE q1 = p /\ q = p
      BY <2>3, <3>4 DEF Holds
    <3> QED BY <3>1, <3>2, <3>3, <3>4
  <2> QED BY <2>1, <2>3 DEF HeldApart
<1>6. ReadsAreCurrent'
  <2> SUFFICES ASSUME NEW q \in Proc, NEW i \in Items,
                      i \in Touched(q)', i \notin req'[q].stale, Visible(q, i)' # None
               PROVE  req'[q].snaps[i] = Snap(Visible(q, i))'
    BY DEF ReadsAreCurrent
  <2>1. CASE q = p
    <3>1. Visible(q, i)' = Sees(s, r, i)
      BY <1>0, <1>3, <2>1 DEF Visible, Sees
    <3>2. r.snaps[i] = Snap(Sees(s, r, i))
      BY <1>0, <2>1, <3>1 DEF Touched
    <3> QED BY <1>0, <2>1, <3>1, <3>2 DEF Snap, EffectiveValue
  <2>2. CASE q # p
    <3>1. Visible(q, i)' = Visible(q, i)
      BY <1>0, <1>3, <2>2 DEF Visible
    <3>2. req[q].snaps[i] = Snap(Visible(q, i))
      BY <1>0, <2>2, <3>1 DEF Touched, ReadsAreCurrent
    <3> QED BY <1>0, <2>2, <3>1, <3>2 DEF Snap, EffectiveValue
  <2> QED BY <2>1, <2>2
<1>7. AccountsCountOnce' /\ HistoryGrounded' /\ NewestIsCurrent'
  BY TablesKept
<1> QED BY <1>1, <1>2, <1>4, <1>5, <1>6, <1>7

-----------------------------------------------------------------------------
(* Steps of one transaction before it ends. *)

LEMMA ValidateInv ==
  ASSUME IInv, NEW p \in Proc, NEW call \in {"create", "update"}, NEW i \in Items \cup {None},
         call = "update" => i \in Items, Validate(p, call, i)
  PROVE  IInv'
<1>1. PICK r \in Inputs :
        /\ req' = [req EXCEPT ![p] = [NoRequest EXCEPT !.call = call, !.id = i, !.row = r]]
        /\ pc' = [pc EXCEPT ![p] = "write"]
        /\ UNCHANGED <<account, item, snap, drawn, today, overtaken>>
  BY DEF Validate, Goto
<1> DEFINE new == [NoRequest EXCEPT !.call = call, !.id = i, !.row = r]
<1>2. /\ new \in Request /\ new.call = call /\ new.id = i /\ new.row = r /\ r \in Row
      /\ new.snaps = Nothing /\ new.at = None /\ new.todo = {}
  BY InputAssumption DEF NoRequest, Request, Nothing
<1>3. \A j \in Items : new.snaps[j] = None
  BY <1>2 DEF Nothing
<1>4. /\ req' = [req EXCEPT ![p] = new]
      /\ drawn' \in SUBSET Items
  BY <1>1 DEF IInv, TypeOK
<1> HIDE DEF new
<1>5. Knows("write", new)
  BY <1>2 DEF Knows
<1>6. Fits(p, "write", new)
  BY <1>3, <1>5 DEF Fits, Keeps
<1> QED BY <1>1, <1>2, <1>4, <1>6, MoveInv

LEMMA WriteInv ==
  ASSUME IInv, NEW p \in Proc, NEW i \in Items, Write(p, i), drawn' \in SUBSET Items,
         req[p].call = "create" \/ req[p].id = i
  PROVE  IInv'
<1> USE DEF IInv
<1>1. req[p] \in Request /\ today \in Days
  BY DEF TypeOK
<1> DEFINE row == req[p].row
<1>2. /\ row \in Row /\ req[p].call \in {"create", "update"} /\ req[p].snaps = Nothing
      /\ req[p].todo \subseteq Items
  BY <1>1 DEF TransactionsKnow, Write, Request
<1> DEFINE new == [req[p] EXCEPT !.id = i, !.at = i, !.day = today, !.snaps[i] = Snap(row)]
<1>3. Snap(row) \in Snapshot /\ Snap(row) # None
  BY <1>2, SnapType
<1>4. /\ new \in Request /\ new.id = i /\ new.at = i /\ new.day = today /\ new.row = row
      /\ new.call = req[p].call /\ new.todo = req[p].todo
      /\ new.snaps = [req[p].snaps EXCEPT ![i] = Snap(row)]
  BY <1>1, <1>3 DEF Request
<1>5. \A j \in Items : new.snaps[j] = IF j = i THEN Snap(row) ELSE None
  BY <1>2, <1>4 DEF Nothing
<1>6. req[p].todo = {}
  BY DEF TransactionsKnow, Write
<1>7. req' = [req EXCEPT ![p] = new]
  <2>1. req' = [req EXCEPT ![p].id = i, ![p].at = i, ![p].day = today,
                           ![p].snaps[i] = Snap(row)]
    BY DEF Write
  <2>2. req \in [Proc -> Request]
    BY DEF TypeOK
  <2>3. req'[p] = new
    BY <2>1, <2>2, <1>1 DEF Request
  <2>4. \A q \in Proc \ {p} : req'[q] = req[q]
    BY <2>1, <2>2
  <2>5. req' = [q \in Proc |-> req'[q]]
    BY <2>1, <2>2
  <2> HIDE DEF new
  <2> QED BY <2>2, <2>3, <2>4, <2>5
<1>8. /\ pc' = [pc EXCEPT ![p] = "insert"]
      /\ UNCHANGED <<account, item, snap, today, overtaken>>
      /\ \A q \in Proc : ~Holds(q, i)
      /\ LinkIsFree(i, row.link)
  BY DEF Write, Goto
<1> HIDE DEF new, row
<1>9. Knows("insert", new)
  <2>1. today \in 0..today
    BY <1>1, InputAssumption DEF Days
  <2>2. i # None
    BY InputAssumption
  <2>3. new.call # "snapshot" /\ new.row \in Row /\ new.todo = {}
    BY <1>2, <1>4, <1>6
  <2>4. \A j \in Items : new.snaps[j] # None <=> j = new.id
    BY <1>3, <1>4, <1>5
  <2>5. new.at \in Items /\ new.snaps[new.at] # None
    BY <1>4, <2>4
  <2>6. new.day \in 0..today /\ new.id # None
    BY <1>4, <2>1, <2>2
  <2> QED BY <2>3, <2>4, <2>5, <2>6 DEF Knows
<1>10. \A j \in Items : Keeps("insert", new, j) <=> j = i
  BY <1>4 DEF Keeps
<1>11. Sees("insert", new, i) = row
  BY <1>4, <1>10 DEF Sees
<1>12. Fits(p, "insert", new)
  BY <1>4, <1>5, <1>8, <1>9, <1>10, <1>11 DEF Fits
<1> QED BY <1>4, <1>7, <1>8, <1>12, MoveInv

LEMMA WritesInv ==
  ASSUME IInv, NEW p \in Proc, WriteNew(p) \/ WriteOver(p)
  PROVE  IInv'
<1>1. CASE WriteNew(p)
  <2>1. PICK i \in Items \ drawn : req[p].call = "create" /\ Write(p, i) /\ drawn' = drawn \cup {i}
    BY <1>1 DEF WriteNew
  <2>2. drawn' \in SUBSET Items
    BY <2>1 DEF IInv, TypeOK
  <2> QED BY <2>1, <2>2, WriteInv
<1>2. CASE WriteOver(p)
  <2>1. pc[p] = "write" /\ req[p].call = "update" /\ Write(p, req[p].id) /\ drawn' = drawn
    BY <1>2 DEF WriteOver, Write
  <2>2. req[p].id \in Items /\ drawn' \in SUBSET Items
    BY <2>1 DEF IInv, TransactionsKnow, TypeOK
  <2> QED BY <2>1, <2>2, WriteInv
<1> QED BY <1>1, <1>2

LEMMA SnapshotAllInv ==
  ASSUME IInv, NEW p \in Proc, SnapshotAll(p)
  PROVE  IInv'
<1> USE DEF IInv
<1> DEFINE active == {i \in Items : item[i] # None /\ item[i].active}
<1>1. PICK d \in 0..today :
        /\ req' = [req EXCEPT ![p] = [NoRequest EXCEPT !.call = "snapshot", !.day = d,
                                                       !.todo = active]]
        /\ pc' = [pc EXCEPT ![p] = "read"]
        /\ UNCHANGED <<account, item, snap, drawn, today, overtaken>>
  BY DEF SnapshotAll, Goto
<1> DEFINE new == [NoRequest EXCEPT !.call = "snapshot", !.day = d, !.todo = active]
<1>2. d \in Days
  BY InputAssumption DEF TypeOK, Days
<1>3. active \subseteq Items
  OBVIOUS
<1>4. req' = [req EXCEPT ![p] = new]
  BY <1>1
<1> HIDE DEF active
<1>5. /\ new \in Request /\ new.call = "snapshot" /\ new.id = None /\ new.day = d
      /\ new.snaps = Nothing /\ new.at = None
  BY <1>2, <1>3, NoRequestType DEF NoRequest, Request
<1>6. \A j \in Items : new.snaps[j] = None
  BY <1>5 DEF Nothing
<1> HIDE DEF new
<1>7. Knows("read", new)
  BY <1>5 DEF Knows
<1>8. Fits(p, "read", new)
  BY <1>5, <1>6, <1>7, NoRequestType DEF Fits, Keeps
<1> QED BY <1>1, <1>4, <1>5, <1>8, MoveInv DEF TypeOK

LEMMA ReadItemInv ==
  ASSUME IInv, NEW p \in Proc, ReadItem(p)
  PROVE  IInv'
<1> USE DEF IInv
<1>1. req[p] \in Request /\ pc[p] = "read"
  BY DEF TypeOK, ReadItem
<1>2. PICK i \in req[p].todo :
        /\ IF item[i] = None
           THEN /\ req' = [req EXCEPT ![p].todo = @ \ {i}]
                /\ pc' = [pc EXCEPT ![p] = IF req[p].todo = {i} THEN "commit" ELSE "read"]
           ELSE /\ req' = [req EXCEPT ![p].at = i, ![p].snaps[i] = Snap(item[i])]
                /\ pc' = [pc EXCEPT ![p] = "insert"]
        /\ UNCHANGED <<account, item, snap, drawn, today, overtaken>>
  BY DEF ReadItem, Goto
<1>3. i \in Items /\ drawn' \in SUBSET Items
  BY <1>1, <1>2 DEF Request, TypeOK
<1>4. /\ req[p].at = None /\ req[p].id = None /\ req[p].call = "snapshot"
      /\ req[p].day \in 0..today
  BY <1>1 DEF TransactionsKnow
<1>5. \A j \in Items :
        /\ req[p].snaps[j] # None => item[j] # None
        /\ req[p].snaps[j] # None /\ j \notin req[p].stale => req[p].snaps[j] = Snap(item[j])
  <2>1. \A j \in Items : ~Holds(p, j) /\ j # None
    BY <1>1, <1>4, NoRequestType DEF Holds
  <2>2. \A j \in Items : req[p].snaps[j] # None => Shows(p, j)
    BY <1>4, <2>1 DEF Shows
  <2>3. \A j \in Items : req[p].snaps[j] # None => item[j] # None
    BY <2>1, <2>2 DEF ShownItemsExist
  <2> QED BY <2>1, <2>3 DEF ReadsAreCurrent, Touched, Visible
<1>6. CASE item[i] = None
  <2> DEFINE new == [req[p] EXCEPT !.todo = @ \ {i}]
             s == IF req[p].todo = {i} THEN "commit" ELSE "read"
  <2>1. /\ new \in Request /\ new.call = "snapshot" /\ new.id = None /\ new.day = req[p].day
        /\ new.snaps = req[p].snaps /\ new.at = None /\ new.stale = req[p].stale
    BY <1>1, <1>4 DEF Request
  <2>2. req' = [req EXCEPT ![p] = new] /\ pc' = [pc EXCEPT ![p] = s]
    BY <1>2, <1>6
  <2>3. s \in {"commit", "read"}
    OBVIOUS
  <2> HIDE DEF new, s
  <2>4. Knows(s, new)
    BY <1>4, <2>1, <2>3 DEF Knows
  <2>5. \A j \in Items : ~Keeps(s, new, j)
    BY <2>1, NoRequestType DEF Keeps
  <2>6. Fits(p, s, new)
    BY <1>5, <2>1, <2>4, <2>5 DEF Fits, Sees
  <2> QED BY <1>2, <1>3, <2>1, <2>2, <2>3, <2>6, MoveInv
<1>7. CASE item[i] # None
  <2>1. item[i] \in Row /\ Snap(item[i]) \in Snapshot /\ Snap(item[i]) # None
    BY <1>3, <1>7, SnapType DEF TypeOK
  <2> DEFINE new == [req[p] EXCEPT !.at = i, !.snaps[i] = Snap(item[i])]
  <2>2. /\ new \in Request /\ new.call = "snapshot" /\ new.id = None /\ new.day = req[p].day
        /\ new.snaps = [req[p].snaps EXCEPT ![i] = Snap(item[i])]
        /\ new.at = i /\ new.stale = req[p].stale
    BY <1>1, <1>3, <1>4, <2>1 DEF Request
  <2>3. \A j \in Items : new.snaps[j] = IF j = i THEN Snap(item[i]) ELSE req[p].snaps[j]
    BY <1>1, <2>2 DEF Request
  <2>4. req' = [req EXCEPT ![p] = new]
    BY <1>2, <1>7 DEF TypeOK
  <2>5. pc' = [pc EXCEPT ![p] = "insert"]
    BY <1>2, <1>7
  <2> HIDE DEF new
  <2>6. Knows("insert", new)
    BY <1>3, <1>4, <2>1, <2>2, <2>3 DEF Knows
  <2>7. \A j \in Items : ~Keeps("insert", new, j)
    BY <2>2, NoRequestType DEF Keeps
  <2>8. Fits(p, "insert", new)
    BY <1>5, <2>2, <2>3, <2>6, <2>7 DEF Fits, Sees
  <2> QED BY <1>2, <1>3, <2>2, <2>4, <2>5, <2>8, MoveInv
<1> QED BY <1>6, <1>7

LEMMA InsertInv ==
  ASSUME IInv, NEW p \in Proc, InsertSnapshot(p)
  PROVE  IInv'
<1> USE DEF IInv
<1> DEFINE at == req[p].at
           new == [req[p] EXCEPT !.at = None, !.todo = @ \ {at}]
           s == IF req[p].todo \subseteq {at} THEN "commit" ELSE "read"
<1>1. req[p] \in Request /\ pc[p] = "insert" /\ drawn' \in SUBSET Items
  BY DEF TypeOK, InsertSnapshot
<1>2. at \in Items /\ req[p].snaps[at] # None /\ Visible(p, at) # None
  BY <1>1 DEF TransactionsKnow, InsertSnapshot
<1>3. /\ new \in Request /\ new.call = req[p].call /\ new.id = req[p].id
      /\ new.day = req[p].day /\ new.row = req[p].row /\ new.snaps = req[p].snaps
      /\ new.at = None /\ new.stale = req[p].stale /\ new.todo \subseteq req[p].todo
  BY <1>1 DEF Request
<1>4. req' = [req EXCEPT ![p] = new]
  BY DEF InsertSnapshot, TypeOK
<1>5. pc' = [pc EXCEPT ![p] = s] /\ UNCHANGED <<account, item, snap, drawn, today, overtaken>>
  BY DEF InsertSnapshot, Goto
<1>6. s \in {"commit", "read"} /\ (s = "read" => req[p].todo # {})
  OBVIOUS
<1> HIDE DEF new, s
<1>7. Knows(s, new)
  <2>1. /\ req[p].day \in 0..today
        /\ req[p].id = None => req[p].call = "snapshot"
        /\ req[p].id # None =>
             /\ req[p].call # "snapshot" /\ req[p].row \in Row /\ req[p].todo = {}
             /\ \A j \in Items : req[p].snaps[j] # None <=> j = req[p].id
    BY <1>1 DEF TransactionsKnow
  <2> QED BY <1>3, <1>6, <2>1 DEF Knows
<1>8. \A j \in Items : Keeps(s, new, j) <=> Holds(p, j)
  BY <1>1, <1>3, <1>6, <1>7, NoRequestType DEF Keeps, Holds, Knows
<1>9. \A j \in Items : Sees(s, new, j) = Visible(p, j)
  BY <1>3, <1>8 DEF Sees, Visible
<1>10. \A j \in Items : req[p].snaps[j] # None => Holds(p, j) \/ item[j] # None
  BY <1>2 DEF ShownItemsExist, Shows, Visible
<1>11. \A j \in Items : req[p].snaps[j] # None /\ j \notin req[p].stale /\ Visible(p, j) # None
         => req[p].snaps[j] = Snap(Visible(p, j))
  BY DEF ReadsAreCurrent, Touched
<1>12. Fits(p, s, new)
  <2>1. ASSUME NEW j \in Items
        PROVE  /\ new.snaps[j] # None /\ new.at # j => Keeps(s, new, j) \/ item[j] # None
               /\ Keeps(s, new, j) => Holds(p, j) /\ new.row = req[p].row
               /\ new.snaps[j] # None /\ j \notin new.stale /\ Sees(s, new, j) # None
                    => new.snaps[j] = Snap(Sees(s, new, j))
    BY <1>3, <1>8, <1>9, <1>10, <1>11
  <2> QED BY <1>7, <2>1 DEF Fits
<1> QED BY <1>1, <1>3, <1>4, <1>5, <1>6, <1>12, MoveInv

LEMMA AbortInv ==
  ASSUME IInv, NEW p \in Proc, Abort(p)
  PROVE  IInv'
<1>1. Knows("idle", NoRequest)
  BY NoRequestType DEF Knows
<1>2. Fits(p, "idle", NoRequest)
  BY <1>1, NoRequestType DEF Fits, Keeps
<1> QED BY <1>2, NoRequestType, MoveInv DEF Abort, Return, Goto, IInv, TypeOK

-----------------------------------------------------------------------------
(* The end of a transaction. *)

LEMMA CommitInv ==
  ASSUME IInv, NEW p \in Proc, Commit(p)
  PROVE  IInv'
<1> USE DEF IInv
\* What the transaction was.
<1>1. req[p] \in Request /\ pc[p] = "commit"
  BY DEF TypeOK, Commit
<1>2. PICK i \in Items \cup {None} : i = req[p].id
  BY <1>1 DEF Request
<1>3. PICK day \in 0..today : day = req[p].day
  BY <1>1 DEF TransactionsKnow
<1> DEFINE new(q) == [req[q] EXCEPT !.stale = @ \cup {i}]
<1>4. /\ req[p].at = None /\ day \in 0..today /\ day \in Days
      /\ i = None => req[p].call = "snapshot"
      /\ i # None => i \in Items /\ req[p].row \in Row /\ Holds(p, i)
      /\ i # None => req[p].call # "snapshot" /\ \A j \in Items : req[p].snaps[j] # None <=> j = i
  BY <1>1, <1>2, <1>3, InputAssumption DEF TransactionsKnow, Request, Holds, TypeOK, Days
<1>5. \A j \in Items : Holds(p, j) <=> j = i
  BY <1>1, <1>2 DEF Holds
<1>6. /\ Touched(p) \subseteq Items
      /\ \A j \in Touched(p) : /\ req[p].snaps[j] \in Snapshot /\ req[p].snaps[j] # None
                               /\ j # i => item[j] # None
      /\ i # None => Touched(p) = {i}
  <2>1. \A j \in Touched(p) : j \in Items /\ req[p].snaps[j] \in Snapshot /\ req[p].snaps[j] # None
    BY <1>1 DEF Touched, Request
  <2>2. \A j \in Touched(p) : j # i => item[j] # None
    BY <1>4, <1>5, <2>1, NoRequestType DEF ShownItemsExist, Shows
  <2>3. i # None => Touched(p) = {i}
    BY <1>4 DEF Touched
  <2> QED BY <2>1, <2>2, <2>3
\* What it leaves in the tables.
<1>7. /\ item' \in [Items -> Row \cup {None}]
      /\ \A j \in Items : item'[j] = IF j = i THEN req[p].row ELSE item[j]
      /\ \A j \in Items : item[j] # None => item'[j] # None
  BY <1>4, <1>2, InputAssumption, NoRequestType DEF Commit, TypeOK
<1>8. /\ snap' \in [Items -> [Days -> Snapshot \cup {None}]]
      /\ \A j \in Items, d \in Days :
           snap'[j][d] = IF j \in Touched(p) /\ d = day THEN req[p].snaps[j] ELSE snap[j][d]
  <2>1. snap' = [j \in Items |->
            IF j \in Touched(p) THEN [snap[j] EXCEPT ![day] = req[p].snaps[j]] ELSE snap[j]]
    BY <1>3 DEF Commit, Kept
  <2> QED BY <1>4, <1>6, <2>1 DEF TypeOK
<1>9. UNCHANGED <<account, drawn, today>> /\ overtaken' = Overtaken(p)
  BY DEF Commit
\* What it leaves of the others.
<1>10. /\ pc' = [pc EXCEPT ![p] = "idle"]
      /\ req' = [[q \in Proc |-> IF q # p /\ i \in Touched(q) THEN new(q) ELSE req[q]]
                   EXCEPT ![p] = NoRequest]
  BY <1>2 DEF Commit, Overtake, Goto
<1>11. \A q \in Proc : i \in Touched(q) => new(q) \in Request
  BY DEF TypeOK, Request, Touched
<1>12. /\ pc'[p] = "idle" /\ req'[p] = NoRequest
       /\ \A q \in Proc \ {p} :
            /\ pc'[q] = pc[q]
            /\ req'[q] = IF i \in Touched(q) THEN new(q) ELSE req[q]
  BY <1>10 DEF TypeOK
<1>13. \A q \in Proc \ {p} :
         /\ req'[q].call = req[q].call /\ req'[q].id = req[q].id /\ req'[q].row = req[q].row
         /\ req'[q].day = req[q].day /\ req'[q].todo = req[q].todo /\ req'[q].at = req[q].at
         /\ req'[q].snaps = req[q].snaps
         /\ req[q].stale \subseteq req'[q].stale
         /\ i \in Touched(q) => i \in req'[q].stale
  <2> TAKE q \in Proc \ {p}
  <2>1. req[q] \in Request
    BY DEF TypeOK
  <2>2. CASE i \in Touched(q)
    <3>1. req'[q] = [req[q] EXCEPT !.stale = @ \cup {i}]
      BY <1>12, <2>2
    <3> QED BY <2>1, <3>1 DEF Request
  <2>3. CASE i \notin Touched(q)
    BY <1>12, <2>3
  <2> QED BY <2>2, <2>3
<1> HIDE DEF new
<1>14. \A j \in Items :
         /\ ~Holds(p, j)'
         /\ \A q \in Proc \ {p} : /\ Holds(q, j)' <=> Holds(q, j)
                                  /\ Shows(q, j)' <=> Shows(q, j)
                                  /\ j \in Touched(q)' <=> j \in Touched(q)
         /\ ~Shows(p, j)' /\ j \notin Touched(p)'
  BY <1>12, <1>13, NoRequestType DEF Holds, Shows, Touched
<1>15. TypeOK'
  <2>1. req' \in [Proc -> Request]
    BY <1>10, <1>11, NoRequestType DEF TypeOK
  <2>2. overtaken' \subseteq Items
    BY <1>6, <1>9 DEF Overtaken, TypeOK
  <2> QED BY <1>7, <1>8, <1>9, <1>10, <2>1, <2>2 DEF TypeOK
<1>16. TransactionsKnow'
  <2> SUFFICES ASSUME NEW q \in Proc
               PROVE  Knows(pc[q], req[q])'
    BY DEF TransactionsKnow, Knows
  <2>1. CASE q = p
    BY <1>12, <2>1, NoRequestType DEF Knows
  <2>2. CASE q # p
    <3>1. Knows(pc[q], req[q])
      BY DEF TransactionsKnow, Knows
    <3> QED BY <1>9, <1>12, <1>13, <2>2, <3>1 DEF Knows
  <2> QED BY <2>1, <2>2
<1>17. ShownItemsExist'
  BY <1>7, <1>14 DEF ShownItemsExist
<1>18. HeldApart'
  <2>1. ASSUME NEW q \in Proc \ {p}, NEW j \in Items, Holds(q, j)
        PROVE  \A k \in Items : j # k /\ item'[k] # None /\ item'[k].link = req[q].row.link
                 => req[q].row.link = None
    BY <1>4, <1>7, <2>1, NoRequestType DEF HeldApart
  <2>2. ASSUME NEW q1 \in Proc, NEW q2 \in Proc, NEW j \in Items, NEW k \in Items,
               Holds(q1, j)', Holds(q2, k)'
        PROVE  /\ j = k => q1 = q2
               /\ j # k /\ req'[q1].row.link = req'[q2].row.link => req'[q1].row.link = None
    BY <1>13, <1>14, <2>2 DEF HeldApart
  <2>3. ASSUME NEW q \in Proc, NEW j \in Items, Holds(q, j)'
        PROVE  \A k \in Items : j # k /\ item'[k] # None /\ item'[k].link = req'[q].row.link
                 => req'[q].row.link = None
    BY <1>13, <1>14, <2>1, <2>3
  <2> QED BY <2>2, <2>3 DEF HeldApart
<1>19. AccountsCountOnce'
  <2> SUFFICES ASSUME NEW j \in Items, NEW k \in Items,
                      item'[j] # None, item'[k] # None, item'[j].link = item'[k].link, j # k
               PROVE  item'[j].link = None
    BY DEF AccountsCountOnce
  <2>1. CASE j = i
    BY <1>4, <1>7, <2>1, NoRequestType DEF HeldApart
  <2>2. CASE k = i
    BY <1>4, <1>7, <2>2, NoRequestType DEF HeldApart
  <2>3. CASE j # i /\ k # i
    BY <1>7, <2>3 DEF AccountsCountOnce
  <2> QED BY <2>1, <2>2, <2>3
<1>20. HistoryGrounded'
  <2> SUFFICES ASSUME NEW j \in Items
               PROVE  /\ \A d \in Days : snap'[j][d] # None => d <= today /\ item'[j] # None
                      /\ item'[j] # None => \E d \in Days : snap'[j][d] # None
    BY <1>9 DEF HistoryGrounded
  <2>1. ASSUME NEW d \in Days, snap'[j][d] # None
        PROVE  d <= today /\ item'[j] # None
    <3>1. CASE j \in Touched(p) /\ d = day
      <4>1. item'[j] # None
        BY <1>4, <1>6, <1>7, <3>1, InputAssumption, NoRequestType
      <4> QED BY <1>4, <3>1, <4>1
    <3>2. CASE ~(j \in Touched(p) /\ d = day)
      BY <1>7, <1>8, <2>1, <3>2 DEF HistoryGrounded
    <3> QED BY <3>1, <3>2
  <2>2. ASSUME item'[j] # None
        PROVE  \E d \in Days : snap'[j][d] # None
    <3>1. CASE j \in Touched(p)
      BY <1>4, <1>6, <1>8, <3>1
    <3>2. CASE j \notin Touched(p)
      <4>1. item[j] # None
        BY <1>4, <1>6, <1>7, <2>2, <3>2, NoRequestType
      <4> QED BY <1>8, <3>2, <4>1 DEF HistoryGrounded
    <3> QED BY <3>1, <3>2
  <2> QED BY <2>1, <2>2
<1>21. ReadsAreCurrent'
  <2> SUFFICES ASSUME NEW q \in Proc, NEW j \in Items,
                      j \in Touched(q)', j \notin req'[q].stale, Visible(q, j)' # None
               PROVE  req'[q].snaps[j] = Snap(Visible(q, j))'
    BY DEF ReadsAreCurrent
  <2>1. q # p
    BY <1>14
  <2>2. j \in Touched(q) /\ j \notin req[q].stale /\ j # i
    BY <1>13, <1>14, <2>1
  <2>3. Visible(q, j)' = Visible(q, j)
    BY <1>7, <1>13, <1>14, <2>1, <2>2 DEF Visible
  <2>4. req[q].snaps[j] = Snap(Visible(q, j))
    BY <2>2, <2>3 DEF ReadsAreCurrent
  <2> QED BY <1>9, <1>13, <2>1, <2>3, <2>4 DEF Snap, EffectiveValue
<1>22. NewestIsCurrent'
  <2> SUFFICES ASSUME NEW j \in Items, item'[j] # None, j \notin overtaken'
               PROVE  \E d \in Days : snap'[j][d] = Snap(item[j])' /\ IsNewest(j, d)'
    BY DEF NewestIsCurrent
  <2>1. CASE j \notin Touched(p)
    <3>1. item'[j] = item[j] /\ j \notin overtaken
      BY <1>4, <1>6, <1>7, <1>9, <2>1, NoRequestType DEF Overtaken
    <3>2. PICK d \in Days : snap[j][d] = Snap(item[j]) /\ IsNewest(j, d)
      BY <3>1 DEF NewestIsCurrent
    <3>3. Snap(item[j])' = Snap(item[j])
      BY <1>9, <3>1 DEF Snap, EffectiveValue
    <3>4. snap'[j][d] = Snap(item[j])' /\ IsNewest(j, d)'
      BY <1>8, <2>1, <3>2, <3>3 DEF IsNewest
    <3> QED BY <3>4
  <2>2. CASE j \in Touched(p) /\ ~(req[p].call = "snapshot" /\ ~IsNewest(j, day))
    <3>1. j \notin req[p].stale /\ IsNewest(j, day)
      BY <1>9, <1>3, <2>2 DEF Overtaken
    <3>2. Visible(p, j) = item'[j]
      BY <1>5, <1>7 DEF Visible
    <3>3. req[p].snaps[j] = Snap(item'[j])
      BY <2>2, <3>1, <3>2 DEF ReadsAreCurrent
    <3>4. Snap(item'[j]) = Snap(item[j])'
      BY <1>9 DEF Snap, EffectiveValue
    <3>5. snap'[j][day] = Snap(item[j])'
      BY <1>4, <1>8, <2>2, <3>3, <3>4
    <3>6. IsNewest(j, day)'
      <4> SUFFICES ASSUME NEW e \in Days, e > day
                   PROVE  snap'[j][e] = None
        BY DEF IsNewest
      <4> QED BY <1>4, <1>8, <3>1 DEF IsNewest, Days
    <3> QED BY <1>4, <3>5, <3>6
  <2>3. CASE j \in Touched(p) /\ req[p].call = "snapshot" /\ ~IsNewest(j, day)
    <3>1. j \notin overtaken /\ item'[j] = item[j]
      BY <1>4, <1>7, <1>9, <1>3, <2>3, NoRequestType DEF Overtaken
    <3>2. PICK d \in Days : snap[j][d] = Snap(item[j]) /\ IsNewest(j, d)
      BY <3>1 DEF NewestIsCurrent
    <3>3. d > day
      BY <1>4, <2>3, <3>2, InputAssumption DEF IsNewest, Days
    <3>4. Snap(item[j])' = Snap(item[j])
      BY <1>9, <3>1 DEF Snap, EffectiveValue
    <3>5. snap'[j][d] = Snap(item[j])'
      BY <1>4, <1>8, <3>2, <3>3, <3>4 DEF Days
    <3>6. IsNewest(j, d)'
      <4> SUFFICES ASSUME NEW e \in Days, e > d
                   PROVE  snap'[j][e] = None
        BY DEF IsNewest
      <4> QED BY <1>4, <1>8, <3>2, <3>3, InputAssumption DEF IsNewest, Days
    <3> QED BY <3>5, <3>6
  <2> QED BY <2>1, <2>2, <2>3
<1> QED BY <1>15, <1>16, <1>17, <1>18, <1>19, <1>20, <1>21, <1>22

-----------------------------------------------------------------------------
(* Statements that are transactions of their own, and the clock. *)

LEMMA DeleteInv ==
  ASSUME IInv, DeleteItem
  PROVE  IInv'
<1> USE DEF IInv
<1>1. PICK i \in Items :
        /\ \A q \in Proc : ~Holds(q, i) /\ ~Shows(q, i)
        /\ item' = [item EXCEPT ![i] = None]
        /\ snap' = [snap EXCEPT ![i] = [d \in Days |-> None]]
        /\ overtaken' = overtaken \ {i}
        /\ UNCHANGED <<account, drawn, today, pc, req>>
  BY DEF DeleteItem
<1>2. \A j \in Items : /\ item'[j] = IF j = i THEN None ELSE item[j]
                       /\ \A d \in Days : snap'[j][d] = IF j = i THEN None ELSE snap[j][d]
  BY <1>1 DEF TypeOK
<1>3. TypeOK' /\ TransactionsKnow'
  BY <1>1 DEF TypeOK, TransactionsKnow
<1>4. \A q \in Proc, j \in Items : /\ Holds(q, j)' <=> Holds(q, j)
                                   /\ Shows(q, j)' <=> Shows(q, j)
                                   /\ j \in Touched(q)' <=> j \in Touched(q)
  BY <1>1 DEF Holds, Shows, Touched
<1>5. ShownItemsExist'
  BY <1>1, <1>2, <1>4 DEF ShownItemsExist
<1>6. HeldApart'
  BY <1>1, <1>2, <1>4 DEF HeldApart
<1>7. AccountsCountOnce'
  BY <1>2 DEF AccountsCountOnce
<1>8. HistoryGrounded'
  BY <1>1, <1>2 DEF HistoryGrounded
<1>9. ReadsAreCurrent'
  <2> SUFFICES ASSUME NEW q \in Proc, NEW j \in Items,
                      j \in Touched(q)', j \notin req'[q].stale, Visible(q, j)' # None
               PROVE  req'[q].snaps[j] = Snap(Visible(q, j))'
    BY DEF ReadsAreCurrent
  <2>1. Visible(q, j)' = Visible(q, j)
    BY <1>1, <1>2, <1>4 DEF Visible
  <2>2. req[q].snaps[j] = Snap(Visible(q, j))
    BY <1>1, <1>4, <2>1 DEF ReadsAreCurrent
  <2> QED BY <1>1, <2>1, <2>2 DEF Snap, EffectiveValue
<1>10. NewestIsCurrent'
  <2> SUFFICES ASSUME NEW j \in Items, item'[j] # None, j \notin overtaken'
               PROVE  \E d \in Days : snap'[j][d] = Snap(item[j])' /\ IsNewest(j, d)'
    BY DEF NewestIsCurrent
  <2>1. j # i /\ item'[j] = item[j]
    BY <1>2
  <2>2. PICK d \in Days : snap[j][d] = Snap(item[j]) /\ IsNewest(j, d)
    BY <1>1, <2>1 DEF NewestIsCurrent
  <2>3. snap'[j][d] = Snap(item[j])' /\ IsNewest(j, d)'
    BY <1>1, <1>2, <2>1, <2>2 DEF Snap, EffectiveValue, IsNewest
  <2> QED BY <2>3
<1> QED BY <1>3, <1>5, <1>6, <1>7, <1>8, <1>9, <1>10

LEMMA SyncInv ==
  ASSUME IInv, Sync
  PROVE  IInv'
<1> USE DEF IInv
<1>1. PICK a \in Accounts, c \in Currencies, b \in Balances :
        /\ account' = [account EXCEPT ![a] = [currency |-> c, balance |-> b]]
        /\ overtaken' = overtaken \cup {i \in Items : item[i] # None /\ item[i].link = a}
        /\ req' = [q \in Proc |-> [req[q] EXCEPT !.stale =
                     @ \cup {i \in Touched(q) : Visible(q, i) # None /\ Visible(q, i).link = a}]]
        /\ UNCHANGED <<item, snap, drawn, today, pc>>
  BY DEF Sync
<1>2. \A q \in Proc : req[q] \in Request
  BY DEF TypeOK
<1> DEFINE written(q) == {i \in Touched(q) : Visible(q, i) # None /\ Visible(q, i).link = a}
<1>3. \A q \in Proc : written(q) \subseteq Items
  BY DEF Touched
<1>4. \A q \in Proc : req'[q] = [req[q] EXCEPT !.stale = @ \cup written(q)]
  BY <1>1
<1> HIDE DEF written
<1>5. \A q \in Proc :
        /\ req'[q].call = req[q].call /\ req'[q].id = req[q].id /\ req'[q].row = req[q].row
        /\ req'[q].day = req[q].day /\ req'[q].todo = req[q].todo /\ req'[q].at = req[q].at
        /\ req'[q].snaps = req[q].snaps
        /\ req'[q].stale = req[q].stale \cup written(q)
        /\ req'[q] \in Request
  <2> TAKE q \in Proc
  <2>1. req[q] \in Request /\ req[q].stale \cup written(q) \subseteq Items
    BY <1>2, <1>3 DEF Request
  <2> DEFINE stale == req[q].stale \cup written(q)
  <2>2. req'[q] = [req[q] EXCEPT !.stale = stale]
    BY <1>4
  <2> HIDE DEF stale
  <2>3. [req[q] EXCEPT !.stale = stale] \in Request
    BY <2>1 DEF Request, stale
  <2>4. /\ req'[q].call = req[q].call /\ req'[q].id = req[q].id /\ req'[q].row = req[q].row
        /\ req'[q].day = req[q].day /\ req'[q].todo = req[q].todo /\ req'[q].at = req[q].at
        /\ req'[q].snaps = req[q].snaps /\ req'[q].stale = stale
    BY <2>1, <2>2 DEF Request
  <2> QED BY <2>2, <2>3, <2>4 DEF stale
<1>6. account' \in [Accounts -> [currency: Currencies, balance: Balances \cup {None}]]
  BY <1>1 DEF TypeOK
<1>7. TypeOK'
  <2>1. req' = [q \in Proc |-> req'[q]]
    BY <1>1
  <2>2. req' \in [Proc -> Request]
    BY <1>5, <2>1
  <2> QED BY <1>1, <1>6, <2>2 DEF TypeOK
<1>8. TransactionsKnow'
  <2> SUFFICES ASSUME NEW q \in Proc
               PROVE  Knows(pc[q], req[q])'
    BY DEF TransactionsKnow, Knows
  <2>1. Knows(pc[q], req[q])
    BY DEF TransactionsKnow, Knows
  <2> QED BY <1>1, <1>5, <2>1 DEF Knows
<1>9. \A q \in Proc, j \in Items : /\ Holds(q, j)' <=> Holds(q, j)
                                   /\ Shows(q, j)' <=> Shows(q, j)
                                   /\ j \in Touched(q)' <=> j \in Touched(q)
                                   /\ Visible(q, j)' = Visible(q, j)
  BY <1>1, <1>5 DEF Holds, Shows, Touched, Visible
<1>10. ShownItemsExist'
  BY <1>1, <1>9 DEF ShownItemsExist
<1>11. HeldApart'
  BY <1>1, <1>5, <1>9 DEF HeldApart
<1>12. AccountsCountOnce' /\ HistoryGrounded'
  BY <1>1 DEF AccountsCountOnce, HistoryGrounded
<1>13. ReadsAreCurrent'
  <2> SUFFICES ASSUME NEW q \in Proc, NEW j \in Items,
                      j \in Touched(q)', j \notin req'[q].stale, Visible(q, j)' # None
               PROVE  req'[q].snaps[j] = Snap(Visible(q, j))'
    BY DEF ReadsAreCurrent
  <2>1. j \in Touched(q) /\ j \notin req[q].stale /\ j \notin written(q) /\ Visible(q, j) # None
    BY <1>5, <1>9
  <2>2. Visible(q, j).link # a
    BY <2>1 DEF written
  <2>3. Snap(Visible(q, j))' = Snap(Visible(q, j))
    <3>1. \A r : r.link # a => account'[r.link] = account[r.link] \/ r.link \notin Accounts
      BY <1>1 DEF TypeOK
    <3>2. Visible(q, j) \in Row
      BY <1>2, <2>1 DEF Visible, TransactionsKnow, Holds, TypeOK, Request
    <3>3. Visible(q, j).link = None \/ Visible(q, j).link \in Accounts
      BY <3>2 DEF Row
    <3> QED BY <1>9, <2>2, <3>1, <3>3 DEF Snap, EffectiveValue
  <2> QED BY <1>5, <2>1, <2>3 DEF ReadsAreCurrent
<1>14. NewestIsCurrent'
  <2> SUFFICES ASSUME NEW j \in Items, item'[j] # None, j \notin overtaken'
               PROVE  \E d \in Days : snap'[j][d] = Snap(item[j])' /\ IsNewest(j, d)'
    BY DEF NewestIsCurrent
  <2>1. /\ item'[j] = item[j] /\ item[j].link # a /\ j \notin overtaken
        /\ item[j].link = None \/ item[j].link \in Accounts
    BY <1>1 DEF TypeOK, Row
  <2>2. PICK d \in Days : snap[j][d] = Snap(item[j]) /\ IsNewest(j, d)
    BY <1>1, <2>1 DEF NewestIsCurrent
  <2>3. Snap(item[j])' = Snap(item[j])
    BY <1>1, <2>1 DEF Snap, EffectiveValue, TypeOK
  <2> QED BY <1>1, <2>2, <2>3 DEF IsNewest
<1> QED BY <1>7, <1>8, <1>10, <1>11, <1>12, <1>13, <1>14

LEMMA NewDayInv ==
  ASSUME IInv, NewDay
  PROVE  IInv'
<1> USE DEF IInv
<1>1. /\ today' = today + 1 /\ today' \in Days /\ today \in Nat
      /\ 0..today \subseteq 0..today'
      /\ UNCHANGED <<account, item, snap, drawn, pc, req, overtaken>>
  BY InputAssumption DEF NewDay, Days, TypeOK
<1>2. TypeOK'
  BY <1>1 DEF TypeOK
<1>3. TransactionsKnow'
  <2> SUFFICES ASSUME NEW q \in Proc
               PROVE  Knows(pc[q], req[q])'
    BY DEF TransactionsKnow, Knows
  <2>1. Knows(pc[q], req[q])
    BY DEF TransactionsKnow, Knows
  <2> QED BY <1>1, <2>1 DEF Knows
<1>4. \A q \in Proc, j \in Items : /\ Holds(q, j)' <=> Holds(q, j)
                                   /\ Shows(q, j)' <=> Shows(q, j)
                                   /\ j \in Touched(q)' <=> j \in Touched(q)
                                   /\ Visible(q, j)' = Visible(q, j)
  BY <1>1 DEF Holds, Shows, Touched, Visible
<1>5. ShownItemsExist' /\ HeldApart' /\ AccountsCountOnce'
  BY <1>1, <1>4 DEF ShownItemsExist, HeldApart, AccountsCountOnce
<1>6. HistoryGrounded'
  BY <1>1, InputAssumption DEF HistoryGrounded, Days
<1>7. ReadsAreCurrent'
  BY <1>1, <1>4 DEF ReadsAreCurrent, Snap, EffectiveValue
<1>8. NewestIsCurrent'
  BY <1>1 DEF NewestIsCurrent, Snap, EffectiveValue, IsNewest
<1> QED BY <1>2, <1>3, <1>5, <1>6, <1>7, <1>8

-----------------------------------------------------------------------------
LEMMA InitInv == Init => IInv
<1> SUFFICES ASSUME Init PROVE IInv
  OBVIOUS
<1> USE DEF Init, IInv
<1>1. \A i \in Items : item[i] = None /\ \A d \in Days : snap[i][d] = None
  BY DEF Nothing
<1>2. \A p \in Proc : pc[p] = "idle" /\ req[p] = NoRequest
  OBVIOUS
<1>3. TypeOK
  <2>1. today \in Days
    BY InputAssumption DEF Days
  <2>2. item \in [Items -> Row \cup {None}] /\ req \in [Proc -> Request]
    BY NoRequestType DEF Nothing
  <2>3. account \in [Accounts -> [currency: Currencies, balance: Balances \cup {None}]]
    OBVIOUS
  <2> QED BY <2>1, <2>2, <2>3 DEF TypeOK
<1>4. TransactionsKnow
  BY <1>2, NoRequestType DEF TransactionsKnow
<1>5. \A p \in Proc, i \in Items : ~Holds(p, i) /\ ~Shows(p, i) /\ i \notin Touched(p)
  BY <1>2, NoRequestType DEF Holds, Shows, Touched
<1>6. ShownItemsExist /\ HeldApart /\ AccountsCountOnce /\ ReadsAreCurrent
  BY <1>1, <1>5 DEF ShownItemsExist, HeldApart, AccountsCountOnce, ReadsAreCurrent
<1>7. HistoryGrounded /\ NewestIsCurrent
  BY <1>1 DEF HistoryGrounded, NewestIsCurrent
<1> QED BY <1>3, <1>4, <1>6, <1>7

LEMMA StutterInv == IInv /\ UNCHANGED vars => IInv'
<1> SUFFICES ASSUME IInv, UNCHANGED vars PROVE IInv'
  OBVIOUS
<1> USE DEF IInv, vars
<1>1. TypeOK' /\ TransactionsKnow'
  BY DEF TypeOK, TransactionsKnow
<1>2. \A q \in Proc, j \in Items : /\ Holds(q, j)' <=> Holds(q, j)
                                   /\ Shows(q, j)' <=> Shows(q, j)
                                   /\ j \in Touched(q)' <=> j \in Touched(q)
                                   /\ Visible(q, j)' = Visible(q, j)
  BY DEF Holds, Shows, Touched, Visible
<1>3. ShownItemsExist' /\ HeldApart'
  BY <1>2 DEF ShownItemsExist, HeldApart
<1>4. ReadsAreCurrent'
  BY <1>2 DEF ReadsAreCurrent, Snap, EffectiveValue
<1> QED BY <1>1, <1>3, <1>4, TablesKept

LEMMA NextInv == IInv /\ [Next]_vars => IInv'
<1> SUFFICES ASSUME IInv, Next PROVE IInv'
  BY StutterInv
<1>1. ASSUME NEW p \in Proc, CreateItem(p)
      PROVE  IInv'
  BY <1>1, ValidateInv DEF CreateItem
<1>2. ASSUME NEW p \in Proc, UpdateItem(p)
      PROVE  IInv'
  BY <1>2, ValidateInv DEF UpdateItem
<1>3. ASSUME NEW p \in Proc, WriteNew(p) \/ WriteOver(p)
      PROVE  IInv'
  BY <1>3, WritesInv
<1>4. ASSUME NEW p \in Proc, SnapshotAll(p)
      PROVE  IInv'
  BY <1>4, SnapshotAllInv
<1>5. ASSUME NEW p \in Proc, ReadItem(p)
      PROVE  IInv'
  BY <1>5, ReadItemInv
<1>6. ASSUME NEW p \in Proc, InsertSnapshot(p)
      PROVE  IInv'
  BY <1>6, InsertInv
<1>7. ASSUME NEW p \in Proc, Commit(p)
      PROVE  IInv'
  BY <1>7, CommitInv
<1>8. ASSUME NEW p \in Proc, Abort(p)
      PROVE  IInv'
  BY <1>8, AbortInv
<1>9. CASE DeleteItem
  BY <1>9, DeleteInv
<1>10. CASE Sync
  BY <1>10, SyncInv
<1>11. CASE NewDay
  BY <1>11, NewDayInv
<1> QED BY <1>1, <1>2, <1>3, <1>4, <1>5, <1>6, <1>7, <1>8, <1>9, <1>10, <1>11 DEF Next

LEMMA Inductive == Spec => []IInv
<1> QED BY InitInv, NextInv, PTL DEF Spec

-----------------------------------------------------------------------------
(* The history against the summary. *)

Total(f) == FoldFunction(+, 0, f)

\* The provers see FoldFunction(+, 0, ...) only as a name: equal arguments give
\* equal sums.
LEMMA EqualTotals ==
  ASSUME NEW f, NEW g, f = g
  PROVE  Total(f) = Total(g)
  OBVIOUS

LEMMA EmptyTotal ==
  ASSUME NEW f, DOMAIN f = {}
  PROVE  Total(f) = 0
<1> DEFINE sum[S \in SUBSET {}] ==
      IF S = {} THEN 0
      ELSE f[CHOOSE i \in S : TRUE] + sum[S \ {CHOOSE i \in S : TRUE}]
<1> SUFFICES sum[{}] = 0
  BY DEF Total, FoldFunction, FoldFunctionOnSet, MapThenFoldSet
<1> QED OBVIOUS

\* There is one newest snapshot on or before a day.
LEMMA LatestIsNewest ==
  ASSUME NEW i \in Items, NEW d \in Days, NEW e \in 0..d,
         snap[i][e] # None, \A g \in e + 1..d : snap[i][g] = None
  PROVE  Latest(i, d) = {snap[i][e]}
<1>1. d \in Nat /\ e \in Nat
  BY InputAssumption DEF Days
<1>2. ASSUME NEW f \in 0..d, snap[i][f] # None, \A g \in f + 1..d : snap[i][g] = None
      PROVE  f = e
  <2>1. ~(f < e)
    BY <1>1, <1>2
  <2>2. ~(e < f)
    BY <1>1, <1>2
  <2> QED BY <1>1, <2>1, <2>2
<1> QED BY <1>2 DEF Latest

\* What the history shows last of an item that has not changed behind its
\* newest snapshot, when the day is not before that snapshot's.
LEMMA LastPoint ==
  ASSUME IInv, NEW d \in Days, NEW i \in Items, item[i] # None, i \notin overtaken,
         \A e \in Days : e > d => snap[i][e] = None
  PROVE  Latest(i, d) = {Snap(item[i])}
<1>1. PICK e \in Days : snap[i][e] = Snap(item[i]) /\ IsNewest(i, e)
  BY DEF IInv, NewestIsCurrent
<1>2. Snap(item[i]) # None
  BY SnapType DEF IInv, TypeOK
<1>3. e \in 0..d /\ d \in Nat
  BY <1>1, <1>2, InputAssumption DEF Days
<1>4. \A g \in e + 1..d : snap[i][g] = None
  BY <1>1, <1>3, InputAssumption DEF IsNewest, Days
<1> QED BY <1>1, <1>2, <1>3, <1>4, LatestIsNewest

LEMMA SameSums ==
  ASSUME IInv, NEW c \in Currencies, NEW d \in Days, Undisturbed(c, d),
         \A e \in Dates(c, 0) : e <= d
  PROVE  Cents(History(c, d)) = Summary(c)
<1> DEFINE latest(i) == CHOOSE s \in Latest(i, d) : TRUE
           shown == {i \in Items : item[i] # None /\ \E s \in Latest(i, d) : s.currency = c}
           counted == {i \in Items : item[i] # None /\ item[i].active /\ item[i].currency = c}
           f == [i \in shown |-> latest(i).value * latest(i).share]
           g == [i \in counted |-> EffectiveValue(item[i]) * item[i].share]
<1>1. \A i \in Items : item[i] # None => i \notin overtaken /\ item[i].active
  BY DEF Undisturbed
<1>2. ASSUME NEW i \in Items, item[i] # None, item[i].currency = c
      PROVE  Latest(i, d) = {Snap(item[i])}
  <2>1. PICK e \in Days : snap[i][e] = Snap(item[i]) /\ IsNewest(i, e)
    BY <1>1, <1>2 DEF IInv, NewestIsCurrent
  <2>2. Snap(item[i]) # None /\ Snap(item[i]).currency = c
    BY <1>2, SnapType DEF IInv, TypeOK, Snap
  <2>3. e <= d
    BY <2>1, <2>2, InputAssumption DEF Dates, Days
  <2>4. \A h \in Days : h > d => snap[i][h] = None
    BY <2>1, <2>3, InputAssumption DEF IsNewest, Days
  <2> QED BY <1>1, <1>2, <2>4, LastPoint
<1>3. \A i \in Items : item[i] # None /\ item[i].currency = c =>
        \E s \in Latest(i, d) : s.currency = c
  <2>1. \A i \in Items : item[i] # None => Snap(item[i]).currency = item[i].currency
    BY DEF Snap
  <2> QED BY <1>2, <2>1
<1>4. shown = counted
  BY <1>1, <1>3 DEF Undisturbed
<1>5. \A i \in counted : latest(i) = Snap(item[i])
  BY <1>2
<1>6. \A i \in counted : f[i] = g[i]
  <2> SUFFICES ASSUME NEW i \in counted
               PROVE  f[i] = g[i]
    OBVIOUS
  <2>1. f[i] = latest(i).value * latest(i).share
    BY <1>4
  <2>2. latest(i) = Snap(item[i])
    BY <1>5
  <2> HIDE DEF latest
  <2>3. latest(i).value = EffectiveValue(item[i]) /\ latest(i).share = item[i].share
    BY <2>2 DEF Snap
  <2> HIDE DEF f
  <2>4. g[i] = EffectiveValue(item[i]) * item[i].share
    OBVIOUS
  <2> HIDE DEF g
  <2> QED BY <2>1, <2>3, <2>4
<1>7. f = g
  BY <1>4, <1>6
<1>8. History(c, d) = Total(f) /\ Summary(c) = Cents(Total(g))
  BY DEF History, Summary, Total
<1> HIDE DEF f, g
<1> QED BY <1>7, <1>8, EqualTotals

LEMMA NothingToSum ==
  ASSUME IInv, NEW c \in Currencies, Dates(c, 0) = {}, Undisturbed(c, MaxDay)
  PROVE  Summary(c) = 0
<1> DEFINE counted == {i \in Items : item[i] # None /\ item[i].active /\ item[i].currency = c}
           g == [i \in counted |-> EffectiveValue(item[i]) * item[i].share]
<1>1. ASSUME NEW i \in counted
      PROVE  FALSE
  <2>1. item[i] # None /\ item[i].currency = c /\ i \notin overtaken
    BY <1>1 DEF Undisturbed
  <2>2. PICK e \in Days : snap[i][e] = Snap(item[i])
    BY <1>1, <2>1 DEF IInv, NewestIsCurrent
  <2>3. Snap(item[i]) # None /\ Snap(item[i]).currency = c
    BY <1>1, <2>1, SnapType DEF IInv, TypeOK, Snap
  <2> QED BY <1>1, <2>2, <2>3, InputAssumption DEF Dates, Days
<1>2. DOMAIN g = {}
  BY <1>1
<1>3. Summary(c) = Cents(Total(g))
  BY DEF Summary, Total
<1> HIDE DEF g
<1>4. Cents(0) = 0
  BY DEF Cents
<1> QED BY <1>2, <1>3, <1>4, EmptyTotal

-----------------------------------------------------------------------------
(* The theorems. *)

\* Whatever overlaps or is abandoned, rows, snapshots and transactions have the
\* types that the tables give them (net_worth_repository.py).
THEOREM TypeCorrect == Spec => []TypeOK
<1>1. IInv => TypeOK
  BY DEF IInv
<1> QED BY <1>1, Inductive, PTL

\* However many requests passed _validate_linked_bank_account at the same time,
\* no two items follow one bank account: the unique constraint decides, and it
\* also counts rows that are not committed.
THEOREM OneItemPerAccount == Spec => []AccountsCountOnce
<1>1. IInv => AccountsCountOnce
  BY DEF IInv
<1> QED BY <1>1, Inductive, PTL

\* An item has a snapshot from its creation on, which is one transaction with
\* it, and no snapshot is left of an item that was deleted while others took
\* snapshots of it.
THEOREM HistoryIsComplete == Spec => []ItemsHaveHistory
<1>1. IInv => ItemsHaveHistory
  BY InputAssumption DEF IInv, HistoryGrounded, ItemsHaveHistory, TypeOK, Days
<1> QED BY <1>1, Inductive, PTL

\* quantize moves a sum by at most half a cent, and not at all when it is one of
\* whole cents; it treats what is owed like what is owned.
THEOREM CentsAreNearest ==
  ASSUME NEW n \in Int
  PROVE  /\ Cents(n) \in Int
         /\ 2 * Abs(10000 * Cents(n) - n) <= 10000
         /\ \A k \in Int : Cents(10000 * k) = k
         /\ Cents(-n) = -Cents(n)
<1> DEFINE low == n \div 10000
           rest == n % 10000
<1>1. low \in Int /\ rest \in 0..9999 /\ n = 10000 * low + rest
  <2>1. low \in Int /\ rest \in 0..9999
    OBVIOUS
  <2>2. n = 10000 * low + rest
    OBVIOUS
  <2> QED BY <2>1, <2>2
<1>2. Cents(n) = IF rest > 5000 \/ (rest = 5000 /\ low % 2 = 1) THEN low + 1 ELSE low
  BY DEF Cents
<1> HIDE DEF low, rest
<1>3. Cents(n) \in Int /\ 2 * Abs(10000 * Cents(n) - n) <= 10000
  BY <1>1, <1>2 DEF Abs
<1>4. \A k \in Int : Cents(10000 * k) = k
  <2> SUFFICES ASSUME NEW k \in Int
               PROVE  Cents(10000 * k) = k
    OBVIOUS
  <2>1. (10000 * k) \div 10000 = k /\ (10000 * k) % 10000 = 0
    OBVIOUS
  <2> QED BY <2>1 DEF Cents
<1>5. Cents(-n) = -Cents(n)
  <2>1. CASE rest = 0
    <3>1. (-n) \div 10000 = -low /\ (-n) % 10000 = 0
      BY <1>1, <2>1
    <3> QED BY <1>2, <2>1, <3>1 DEF Cents
  <2>2. CASE rest # 0
    <3>1. (-n) \div 10000 = -low - 1 /\ (-n) % 10000 = 10000 - rest
      BY <1>1, <2>2
    <3>2. low % 2 = 1 <=> (-low - 1) % 2 = 0
      BY <1>1
    <3>3. (-low - 1) % 2 \in {0, 1}
      BY <1>1
    <3> QED BY <1>1, <1>2, <2>2, <3>1, <3>2, <3>3 DEF Cents
  <2> QED BY <2>1, <2>2
<1> QED BY <1>3, <1>4, <1>5

\* The last point of get_net_worth_history, whichever day it is asked for from,
\* is up to rounding calculate_net_worth_summary, for items that have not
\* changed behind their newest snapshots, in any interleaving of changes,
\* snapshots, syncs and midnights.
THEOREM HistoryEndsInSummary == Spec => []HistoryMeetsSummary
<1>1. ASSUME IInv PROVE HistoryMeetsSummary
  <2>1. ASSUME NEW c \in Currencies, NEW from \in Days, NEW d \in Dates(c, from),
               \A e \in Dates(c, from) : e <= d, Undisturbed(c, d)
        PROVE  Cents(History(c, d)) = Summary(c)
    <3>1. d \in Days /\ d >= from
      BY DEF Dates
    <3>2. \A e \in Dates(c, 0) : e <= d
      <4> SUFFICES ASSUME NEW e \in Dates(c, 0)
                   PROVE  e <= d
        OBVIOUS
      <4>1. e \in Days /\ (e >= from => e \in Dates(c, from))
        BY DEF Dates
      <4> QED BY <2>1, <3>1, <4>1, InputAssumption DEF Days
    <3> QED BY <1>1, <2>1, <3>1, <3>2, SameSums
  <2>2. ASSUME NEW c \in Currencies, Dates(c, 0) = {}, Undisturbed(c, MaxDay)
        PROVE  Summary(c) = 0
    BY <1>1, <2>2, NothingToSum
  <2> QED BY <2>1, <2>2 DEF HistoryMeetsSummary
<1> QED BY <1>1, Inductive, PTL

=============================================================================
