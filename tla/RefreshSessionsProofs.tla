----------------------- MODULE RefreshSessionsProofs -----------------------
(***************************************************************************)
(* Proofs about RefreshSessions, for any number of threads, users,         *)
(* families, tokens and devices and any clock.                             *)
(***************************************************************************)
EXTENDS RefreshSessions, TLAPS

\* Spelling out what a call's record is when it is built.
LEMMA NoRequestType == NoRequest \in Request
  BY DEF NoRequest, Request, Ops

\* What revoking or spending a row leaves of it.
LEMMA RevokeSpend ==
  ASSUME NEW r \in Row, NEW at \in Nat
  PROVE  /\ Revoke(r) \in Row /\ Spend(r, at) \in Row
         /\ Revoke(r).revoked /\ Spend(r, at).revoked
         /\ Revoke(r).user = r.user /\ Spend(r, at).user = r.user
         /\ Revoke(r).family = r.family /\ Spend(r, at).family = r.family
         /\ Revoke(r).expires = r.expires /\ Spend(r, at).expires = r.expires
         /\ Revoke(r).used = r.used /\ Spend(r, at).used = at
  BY DEF Revoke, Spend, Row

\* Every NewRow is a row when the call that inserts it is typed.
LEMMA NewRowType ==
  ASSUME TypeOK, NEW p \in Proc, req[p].user # None, req[p].family # None,
         req[p].device # None,
         req[p].op = "rotate" => req[p].token # None /\ row[req[p].token] # None
  PROVE  /\ NewRow(req[p]) \in Row
         /\ NewRow(req[p]) # None => Live(NewRow(req[p]))
  BY TimeAssumption DEF NewRow, TypeOK, Request, Row, Live

\* Starting an UPDATE statement keeps the bookkeeping of the thread typed.
LEMMA StartUpdateType ==
  ASSUME TypeOK, NEW p \in Proc, StartUpdate(p)
  PROVE  /\ todo' \in [Proc -> SUBSET Tokens]
         /\ seen' \in [Proc -> SUBSET Tokens]
         /\ pc' \in [Proc -> Stage]
  BY DEF StartUpdate, AfterUpdate, TypeOK, Stage

\* Beginning any of the calls is typed.
LEMMA BeginType ==
  ASSUME TypeOK, NEW p \in Proc, Call(p)
  PROVE  TypeOK'
<1>0. ASSUME NEW op \in Ops, NEW t \in Tokens \cup {None}, NEW n \in Tokens \cup {None},
             NEW u \in Users \cup {None}, NEW f \in Families \cup {None},
             NEW d \in Devices \cup {None}
      PROVE  Asked(op, t, n, u, f, d) \in Request
  BY DEF Asked, Request, TypeOK
<1>1. ASSUME NEW q \in Request, NEW s \in {"scan", "lock"}, Begin(p, q, s)
      PROVE  TypeOK'
  BY <1>1 DEF Begin, TypeOK, Stage
<1>2. CASE BeginCreate(p)
  BY <1>1, <1>2, <1>0 DEF BeginCreate, FreshTokens, FreshFamilies, Ops, TypeOK
<1>3. CASE BeginRotate(p)
  BY <1>1, <1>3, <1>0 DEF BeginRotate, FreshTokens, Ops, TypeOK, Row
<1>4. CASE BeginLogout(p)
  BY <1>1, <1>4, <1>0 DEF BeginLogout, Ops, TypeOK, Row
<1>5. CASE BeginRevokeFamily(p)
  BY <1>1, <1>5, <1>0 DEF BeginRevokeFamily, Ops, TypeOK, Row
<1>6. CASE BeginRevokeOthers(p)
  BY <1>1, <1>6, <1>0 DEF BeginRevokeOthers, Live, Ops, TypeOK, Row
<1>7. CASE BeginRevokeAll(p)
  BY <1>1, <1>7, <1>0 DEF BeginRevokeAll, Ops, TypeOK
<1> QED BY <1>2, <1>3, <1>4, <1>5, <1>6, <1>7 DEF Call

\* Every statement of a transaction is typed.
LEMMA StatementType ==
  ASSUME IInv, NEW p \in Proc, Statement(p) \/ DeadlockVictim(p) \/ ConnectionLost(p)
  PROVE  TypeOK'
<1> USE DEF IInv
<1>0. TypeOK
  OBVIOUS
<1>1. CASE Scan(p)
  BY <1>1, StartUpdateType DEF Scan, TypeOK
<1>2. CASE UpdateRow(p)
  <2> PICK t \in todo[p] :
        /\ IF Matches(req[p], row[t])
           THEN /\ owner' = [owner EXCEPT ![t] = p]
                /\ draft' = [draft EXCEPT ![t] = Revoke(row[t])]
           ELSE UNCHANGED <<owner, draft>>
        /\ todo' = [todo EXCEPT ![p] = @ \ {t}]
        /\ pc' = [pc EXCEPT ![p] = IF todo[p] = {t} THEN AfterUpdate(req[p]) ELSE @]
    BY <1>2 DEF UpdateRow
  <2>1. t \in Tokens
    BY DEF TypeOK
  <2>2. owner' \in [Tokens -> Proc \cup {None}] /\ draft' \in [Tokens -> Row \cup {None}]
    <3>1. Matches(req[p], row[t]) => Revoke(row[t]) \in Row
      BY <2>1, RevokeSpend DEF TypeOK, Matches
    <3> QED BY <2>1, <3>1 DEF TypeOK
  <2>3. pc' \in [Proc -> Stage]
    BY DEF TypeOK, AfterUpdate, Stage
  <2>4. todo' \in [Proc -> SUBSET Tokens]
    BY DEF TypeOK
  <2>5. UNCHANGED <<now, row, req, seen>>
    BY <1>2 DEF UpdateRow
  <2> QED BY <2>2, <2>3, <2>4, <2>5 DEF TypeOK
<1>3. CASE LockToken(p)
  <2> DEFINE t == req[p].token
  <2>1. t \in Tokens /\ row[t] \in Row /\ req[p].at \in Nat
    BY <1>3 DEF LockToken, RotationKnowsItsRow, TypeOK, Request
  <2>2. owner' \in [Tokens -> Proc \cup {None}]
    BY <1>3, <2>1 DEF LockToken, TypeOK
  <2>3. CASE Unusable(row[t], req[p].at)
    BY <1>3, <2>2, <2>3, StartUpdateType DEF LockToken, TypeOK
  <2>4. CASE ~Unusable(row[t], req[p].at)
    <3>1. Spend(row[t], req[p].at) \in Row
      BY <2>1, RevokeSpend
    <3> QED BY <1>3, <2>1, <2>2, <2>4, <3>1 DEF LockToken, TypeOK, Stage
  <2> QED BY <2>3, <2>4
<1>4. CASE Insert(p)
  <2>1. /\ req[p].fresh \in Tokens /\ NewRow(req[p]) \in Row
    BY <1>4, NewRowType DEF Insert, FreshIsPrivate, RotationKnowsItsRow, TypeOK, Request
  <2> QED BY <1>4, <2>1 DEF Insert, TypeOK, Stage
<1>5. CASE InsertFails(p) \/ DeadlockVictim(p) \/ ConnectionLost(p)
  BY <1>5, NoRequestType DEF InsertFails, DeadlockVictim, ConnectionLost, Rollback, Finish, TypeOK, Stage
<1>6. CASE Commit(p)
  BY <1>6, NoRequestType DEF Commit, Finish, TypeOK, Stage
<1> QED BY <1>1, <1>2, <1>3, <1>4, <1>5, <1>6 DEF Statement

\* The clock stays within its bound.
LEMMA TickType ==
  ASSUME TypeOK, Tick
  PROVE  TypeOK'
  BY TimeAssumption DEF TypeOK, Tick

\* The invariant survives the start of a call, provided what the call knows is
\* consistent with the table.
LEMMA BeginInv ==
  ASSUME IInv, NEW p \in Proc, Call(p)
  PROVE  IInv'
<1> USE DEF IInv
<1>0. TypeOK'
  BY BeginType
<1>1. ASSUME NEW op \in Ops, NEW t \in Tokens \cup {None}, NEW n \in Tokens \cup {None},
             NEW u \in Users \cup {None}, NEW f \in Families \cup {None},
             NEW d \in Devices \cup {None}, NEW s \in {"scan", "lock"},
             Begin(p, Asked(op, t, n, u, f, d), s),
             s = "lock" => op = "rotate",
             op \in {"create", "rotate"} =>
                 n \in FreshTokens /\ u \in Users /\ f \in Families /\ d \in Devices,
             op = "rotate" => t # None /\ row[t] # None /\ row[t].family = f /\ row[t].user = u,
             op \notin {"create", "rotate"} => n = None,
             op = "create" => f \in FreshFamilies,
             op # "create" => f = None \/ \E r \in Tokens : row[r] # None /\ row[r].family = f
      PROVE  IInv'
  <2> DEFINE Q == Asked(op, t, n, u, f, d)
  <2>1. /\ pc[p] = "idle" /\ pc' = [pc EXCEPT ![p] = s] /\ req' = [req EXCEPT ![p] = Q]
        /\ UNCHANGED <<now, row, draft, owner, todo, seen>>
    BY <1>1 DEF Begin
  <2>2. /\ Q.op = op /\ Q.token = t /\ Q.fresh = n /\ Q.user = u /\ Q.family = f
        /\ Q.device = d
    BY DEF Asked
  <2>3. /\ req'[p] = Q /\ pc'[p] = s
        /\ \A q \in Proc : q # p => req'[q] = req[q] /\ pc'[q] = pc[q]
    BY <2>1 DEF TypeOK
  <2> HIDE DEF Q
  <2>4. \A r \in Tokens : owner[r] # p
    BY <2>1, NoneAssumption DEF LockDiscipline
  <2>5. LockDiscipline'
    BY <2>1, <2>3, <2>4 DEF LockDiscipline, TypeOK
  <2>6. FreshIsPrivate'
    <3>1. ASSUME NEW q \in Proc, req'[q].op \in {"create", "rotate"}
          PROVE  /\ req'[q].fresh # None /\ row[req'[q].fresh] = None
                 /\ req'[q].user # None /\ req'[q].family # None /\ req'[q].device # None
                 /\ \A r \in Proc : req'[r].fresh = req'[q].fresh => r = q
      BY <1>1, <2>2, <2>3, <3>1, NoneAssumption DEF FreshIsPrivate, FreshTokens
    <3>2. ASSUME NEW q \in Proc, req'[q].op = "create"
          PROVE  /\ \A r \in Tokens : row[r] # None => row[r].family # req'[q].family
                 /\ \A r \in Proc : req'[r].family = req'[q].family => r = q
      BY <1>1, <2>2, <2>3, <3>2, NoneAssumption DEF FreshIsPrivate, FreshFamilies
    <3> QED BY <2>1, <2>3, <3>1, <3>2 DEF FreshIsPrivate
  <2>7. RotationKnowsItsRow'
    BY <1>1, <2>1, <2>2, <2>3 DEF RotationKnowsItsRow
  <2>8. RotationSpends'
    <3> SUFFICES ASSUME NEW q \in Proc, req'[q].op = "rotate", Spending(q)'
                 PROVE  /\ owner[req'[q].token] = q /\ draft[req'[q].token] # None
                        /\ Live(row[req'[q].token])
                        /\ req'[q].at < row[req'[q].token].expires
      BY <2>1 DEF RotationSpends, Live
    <3>1. q # p
      BY <2>3, <1>1 DEF Spending
    <3> QED BY <2>1, <2>3, <3>1 DEF RotationSpends, Spending
  <2>9. DraftsAreRevocationsOrNew'
    <3> SUFFICES ASSUME NEW r \in Tokens, draft[r] # None, pc[owner[r]] = "commit",
                        req[owner[r]].op \in {"create", "rotate"},
                        r = req[owner[r]].fresh, draft[r] = NewRow(req[owner[r]])
                 PROVE  /\ pc'[owner[r]] = "commit"
                        /\ req'[owner[r]].op \in {"create", "rotate"}
                        /\ r = req'[owner[r]].fresh /\ draft[r] = NewRow(req[owner[r]])'
      BY <2>1 DEF DraftsAreRevocationsOrNew
    <3>1. owner[r] \in Proc /\ owner[r] # p
      BY <2>4 DEF LockDiscipline, TypeOK
    <3> QED BY <2>1, <2>3, <3>1 DEF NewRow
  <2>10. IndexCoversDrafts'
    BY <2>1 DEF IndexCoversDrafts, Live, SameDevice
  <2>11. OneLivePerFamily' /\ OneLivePerDevice' /\ LifetimeIsAbsolute'
    BY <2>1 DEF OneLivePerFamily, OneLivePerDevice, LifetimeIsAbsolute, Live
  <2> QED BY <1>0, <2>5, <2>6, <2>7, <2>8, <2>9, <2>10, <2>11
<1>2. CASE BeginCreate(p)
  BY <1>1, <1>2 DEF BeginCreate, FreshTokens, FreshFamilies, Ops
<1>3. CASE BeginRotate(p)
  <2> PICK t \in Tokens, d \in Devices, n \in FreshTokens :
        row[t] # None /\ Begin(p, Asked("rotate", t, n, row[t].user, row[t].family, d), "lock")
    BY <1>3 DEF BeginRotate
  <2>1. row[t].user \in Users /\ row[t].family \in Families /\ n \in Tokens /\ t # None
    BY NoneAssumption DEF TypeOK, Row, FreshTokens
  <2> QED BY <1>1, <2>1 DEF Ops
<1>4. CASE BeginLogout(p)
  <2> PICK t \in Tokens :
        row[t] # None /\ Begin(p, Asked("logout", t, None, row[t].user, row[t].family, None), "scan")
    BY <1>4 DEF BeginLogout
  <2>1. row[t].user \in Users /\ row[t].family \in Families
    BY DEF TypeOK, Row
  <2> QED BY <1>1, <2>1 DEF Ops
<1>5. CASE BeginRevokeFamily(p)
  <2> PICK t \in Tokens :
        row[t] # None /\ Begin(p, Asked("family", None, None, row[t].user, row[t].family, None), "scan")
    BY <1>5 DEF BeginRevokeFamily
  <2>1. row[t].user \in Users /\ row[t].family \in Families
    BY DEF TypeOK, Row
  <2> QED BY <1>1, <2>1 DEF Ops
<1>6. CASE BeginRevokeOthers(p)
  <2> PICK t \in Tokens :
        Live(row[t]) /\ Begin(p, Asked("others", t, None, row[t].user, row[t].family, None), "scan")
    BY <1>6 DEF BeginRevokeOthers
  <2>1. row[t].user \in Users /\ row[t].family \in Families /\ row[t] # None
    BY DEF TypeOK, Row, Live
  <2> QED BY <1>1, <2>1 DEF Ops
<1>7. CASE BeginRevokeAll(p)
  BY <1>1, <1>7 DEF BeginRevokeAll, Ops
<1> QED BY <1>2, <1>3, <1>4, <1>5, <1>6, <1>7 DEF Call

\* What a step that only moves a thread between statements has to show.
LEMMA RowsFrame ==
  ASSUME UNCHANGED row
  PROVE  /\ OneLivePerFamily' <=> OneLivePerFamily
         /\ OneLivePerDevice' <=> OneLivePerDevice
         /\ LifetimeIsAbsolute' <=> LifetimeIsAbsolute
  BY DEF OneLivePerFamily, OneLivePerDevice, LifetimeIsAbsolute, Live

LEMMA ScanInv ==
  ASSUME IInv, NEW p \in Proc, Scan(p)
  PROVE  IInv'
<1> USE DEF IInv
<1>0. TypeOK'
  BY StatementType DEF Statement
<1>1. /\ pc[p] = "scan" /\ pc'[p] \in {"update", "insert", "commit"}
      /\ pc'[p] = "insert" => req[p].op = "create"
      /\ \A q \in Proc : q # p => pc'[q] = pc[q]
      /\ UNCHANGED <<row, draft, owner, req>>
  BY DEF Scan, StartUpdate, AfterUpdate, TypeOK
<1>2. \A t \in Tokens : owner[t] # p
  BY <1>1, NoneAssumption DEF LockDiscipline
<1>3. LockDiscipline'
  BY <1>1, <1>2 DEF LockDiscipline, TypeOK
<1>4. FreshIsPrivate' /\ RotationKnowsItsRow'
  BY <1>1 DEF FreshIsPrivate, RotationKnowsItsRow
<1>5. RotationSpends'
  <2> SUFFICES ASSUME NEW q \in Proc, req[q].op = "rotate", Spending(q)'
               PROVE  /\ owner[req[q].token] = q /\ draft[req[q].token] # None
                      /\ Live(row[req[q].token])
                      /\ req[q].at < row[req[q].token].expires
    BY <1>1 DEF RotationSpends, Live
  <2>1. q # p
    <3> SUFFICES ASSUME q = p PROVE FALSE
      OBVIOUS
    <3>1. pc'[p] = "commit" /\ draft[req[p].fresh] # None
      BY <1>1 DEF Spending
    <3>2. req[p].fresh \in Tokens
      BY DEF FreshIsPrivate, TypeOK, Request
    <3>3. row[req[p].fresh] = None
      BY DEF FreshIsPrivate
    <3>4. PICK r \in Tokens : r = req[p].fresh
      BY <3>2
    <3>5. owner[r] \in Proc /\ req[owner[r]].op \in {"create", "rotate"} /\ r = req[owner[r]].fresh
      BY <3>1, <3>3, <3>4 DEF DraftsAreRevocationsOrNew, LockDiscipline, TypeOK
    <3> QED BY <3>5, <3>4, <1>2 DEF FreshIsPrivate
  <2> QED BY <1>1, <2>1 DEF RotationSpends, Spending
<1>6. DraftsAreRevocationsOrNew'
  BY <1>1, <1>2 DEF DraftsAreRevocationsOrNew, NewRow, LockDiscipline, TypeOK
<1>7. IndexCoversDrafts'
  BY <1>1 DEF IndexCoversDrafts, Live, SameDevice
<1> QED BY <1>0, <1>1, <1>3, <1>4, <1>5, <1>6, <1>7, RowsFrame

LEMMA UpdateRowInv ==
  ASSUME IInv, NEW p \in Proc, UpdateRow(p)
  PROVE  IInv'
<1> USE DEF IInv
<1>0. TypeOK'
  BY StatementType DEF Statement
<1>1. PICK t \in todo[p] :
        /\ owner[t] \in {None, p}
        /\ IF Matches(req[p], row[t])
           THEN /\ owner' = [owner EXCEPT ![t] = p]
                /\ draft' = [draft EXCEPT ![t] = Revoke(row[t])]
           ELSE UNCHANGED <<owner, draft>>
        /\ pc' = [pc EXCEPT ![p] = IF todo[p] = {t} THEN AfterUpdate(req[p]) ELSE @]
  BY DEF UpdateRow
<1>2. /\ pc[p] = "update" /\ pc'[p] \in {"update", "insert", "commit"}
      /\ pc'[p] = "insert" => req[p].op = "create"
      /\ \A q \in Proc : q # p => pc'[q] = pc[q]
      /\ UNCHANGED <<row, req>>
  BY <1>1 DEF UpdateRow, AfterUpdate, TypeOK
<1>3. t \in Tokens
  BY DEF TypeOK
\* Either the row was skipped, or it exists and is now drafted as revoked.
<1>4. \/ UNCHANGED <<owner, draft>>
      \/ /\ row[t] \in Row /\ row[t] # None
         /\ owner' = [owner EXCEPT ![t] = p] /\ draft' = [draft EXCEPT ![t] = Revoke(row[t])]
         /\ Revoke(row[t]) \in Row /\ Revoke(row[t]).revoked
         /\ Revoke(row[t]).user = row[t].user /\ Revoke(row[t]).family = row[t].family
         /\ Revoke(row[t]).expires = row[t].expires /\ Revoke(row[t]).used < Revoke(row[t]).expires
  <2> SUFFICES ASSUME Matches(req[p], row[t]) PROVE <1>4!2
    BY <1>1
  <2>1. row[t] \in Row /\ row[t] # None /\ row[t].used < row[t].expires
    BY <1>3 DEF TypeOK, Matches, LifetimeIsAbsolute
  <2> QED BY <1>1, <2>1, RevokeSpend DEF Row
<1>5. LockDiscipline'
  BY <1>2, <1>3, <1>4, NoneAssumption DEF LockDiscipline, TypeOK
<1>6. FreshIsPrivate' /\ RotationKnowsItsRow'
  BY <1>2 DEF FreshIsPrivate, RotationKnowsItsRow
<1>7. RotationSpends'
  <2> SUFFICES ASSUME NEW q \in Proc, req[q].op = "rotate", Spending(q)'
               PROVE  /\ owner'[req[q].token] = q /\ draft'[req[q].token] # None
                      /\ Live(row[req[q].token])
                      /\ req[q].at < row[req[q].token].expires
    BY <1>2 DEF RotationSpends, Live
  <2>1. req[q].fresh \in Tokens /\ row[req[q].fresh] = None /\ req[q].token \in Tokens
    BY DEF FreshIsPrivate, RotationKnowsItsRow, TypeOK, Request
  <2>2. draft'[req[q].fresh] = draft[req[q].fresh]
    BY <1>3, <1>4, <2>1 DEF TypeOK
  <2>3. q # p
    <3> SUFFICES ASSUME q = p PROVE FALSE
      OBVIOUS
    <3>1. draft[req[p].fresh] # None
      BY <1>2, <2>2 DEF Spending
    <3>2. PICK r \in Tokens : r = req[p].fresh
      BY <2>1
    <3>3. owner[r] \in Proc /\ pc[owner[r]] = "commit" /\ req[owner[r]].fresh = req[p].fresh
      BY <3>1, <3>2, <2>1 DEF DraftsAreRevocationsOrNew, LockDiscipline, TypeOK
    <3> QED BY <1>2, <3>3 DEF FreshIsPrivate
  <2>4. Spending(q)
    BY <1>2, <2>2, <2>3 DEF Spending
  <2>5. req[q].token # t
    BY <1>1, <2>3, <2>4, NoneAssumption DEF RotationSpends
  <2> QED BY <1>3, <1>4, <2>1, <2>4, <2>5 DEF RotationSpends, TypeOK
<1>8. DraftsAreRevocationsOrNew'
  <2> SUFFICES ASSUME NEW r \in Tokens, draft'[r] # None, r # t
               PROVE  \/ /\ row[r] # None /\ draft'[r].revoked
                         /\ draft'[r].user = row[r].user /\ draft'[r].family = row[r].family
                         /\ draft'[r].expires = row[r].expires /\ draft'[r].used < draft'[r].expires
                      \/ /\ pc'[owner'[r]] = "commit"
                         /\ req[owner'[r]].op \in {"create", "rotate"}
                         /\ r = req[owner'[r]].fresh
                         /\ draft'[r] = NewRow(req[owner'[r]])
    <3>1. \/ draft'[t] = draft[t] /\ UNCHANGED <<owner, draft>>
          \/ /\ draft'[t] = Revoke(row[t]) /\ row[t] # None
             /\ Revoke(row[t]).revoked
             /\ Revoke(row[t]).user = row[t].user /\ Revoke(row[t]).family = row[t].family
             /\ Revoke(row[t]).expires = row[t].expires /\ Revoke(row[t]).used < Revoke(row[t]).expires
      BY <1>3, <1>4 DEF TypeOK
    <3>2. \A q : NewRow(req[q])' = NewRow(req[q])
      BY <1>2 DEF NewRow
    <3>3. draft[t] # None /\ UNCHANGED <<owner, draft>> =>
            row[t] # None /\ draft[t].revoked
            /\ draft[t].user = row[t].user /\ draft[t].family = row[t].family
            /\ draft[t].expires = row[t].expires /\ draft[t].used < draft[t].expires
      BY <1>1, <1>2, <1>3 DEF DraftsAreRevocationsOrNew, LockDiscipline
    <3> QED BY <1>2, <3>1, <3>2, <3>3 DEF DraftsAreRevocationsOrNew
  <2>1. draft'[r] = draft[r] /\ owner'[r] = owner[r]
    BY <1>3, <1>4 DEF TypeOK
  <2>2. owner[r] = p => pc[owner[r]] # "commit"
    BY <1>2
  <2> QED BY <1>2, <2>1, <2>2 DEF DraftsAreRevocationsOrNew, NewRow, LockDiscipline, TypeOK
<1>9. IndexCoversDrafts'
  <2> SUFFICES ASSUME NEW r \in Tokens, NEW u \in Tokens, Live(draft'[r])
               PROVE  /\ SameDevice(draft'[r], draft'[u]) => r = u
                      /\ SameDevice(draft'[r], row[u]) => owner'[u] = owner'[r] /\ draft'[u] # None
    BY <1>2 DEF IndexCoversDrafts, Live, SameDevice
  <2>1. draft'[r] = draft[r] /\ owner'[r] = owner[r]
    BY <1>3, <1>4 DEF TypeOK, Live
  <2>2. Live(draft'[u]) => draft'[u] = draft[u]
    BY <1>3, <1>4 DEF TypeOK, Live
  <2>3. SameDevice(draft[r], draft'[u]) => SameDevice(draft[r], draft[u])
    BY <2>2 DEF SameDevice
  <2>4. ASSUME SameDevice(draft[r], row[u])
        PROVE  owner'[u] = owner[r] /\ draft'[u] # None
    <3>1. owner[u] = owner[r] /\ draft[u] # None
      BY <2>1, <2>4 DEF IndexCoversDrafts
    <3>2. u = t => owner[u] = p
      BY <1>1, <3>1 DEF LockDiscipline
    <3> QED BY <1>3, <1>4, <3>1, <3>2, NoneAssumption, RowAssumption DEF TypeOK
  <2> QED BY <2>1, <2>3, <2>4 DEF IndexCoversDrafts
<1> QED BY <1>0, <1>2, <1>5, <1>6, <1>7, <1>8, <1>9, RowsFrame

\* The new row of a call exists only once the call is ready to commit, and a
\* lock on it is the call's own.
LEMMA FreshDraft ==
  ASSUME IInv, NEW q \in Proc, req[q].op \in {"create", "rotate"}
  PROVE  /\ req[q].fresh \in Tokens /\ row[req[q].fresh] = None
         /\ draft[req[q].fresh] # None => pc[q] = "commit" /\ owner[req[q].fresh] = q
<1> USE DEF IInv
<1>1. req[q].fresh \in Tokens /\ row[req[q].fresh] = None
  BY DEF FreshIsPrivate, TypeOK, Request
<1>2. PICK r \in Tokens : r = req[q].fresh
  BY <1>1
<1>3. draft[r] # None => owner[r] \in Proc /\ pc[owner[r]] = "commit" /\ req[owner[r]].fresh = r
  BY <1>1, <1>2 DEF DraftsAreRevocationsOrNew, LockDiscipline, TypeOK
<1> QED BY <1>1, <1>2, <1>3 DEF FreshIsPrivate

LEMMA LockTokenInv ==
  ASSUME IInv, NEW p \in Proc, LockToken(p)
  PROVE  IInv'
<1> USE DEF IInv
<1> DEFINE t == req[p].token
<1>0. TypeOK'
  BY StatementType DEF Statement
<1>1. /\ pc[p] = "lock" /\ req[p].op = "rotate" /\ req[p].at \in Nat
      /\ t \in Tokens /\ row[t] \in Row /\ row[t] # None /\ owner[t] = None /\ draft[t] = None
      /\ UNCHANGED <<row, req>> /\ owner' = [owner EXCEPT ![t] = p]
  BY DEF LockToken, RotationKnowsItsRow, LockDiscipline, TypeOK, Request
<1>2. \/ /\ pc'[p] \in {"update", "commit"}
         /\ \A q \in Proc : q # p => pc'[q] = pc[q]
         /\ UNCHANGED draft
      \/ /\ pc'[p] = "insert"
         /\ \A q \in Proc : q # p => pc'[q] = pc[q]
         /\ ~row[t].revoked /\ req[p].at < row[t].expires
         /\ draft' = [draft EXCEPT ![t] = Spend(row[t], req[p].at)]
  <2>1. CASE Unusable(row[t], req[p].at)
    BY <1>1, <2>1 DEF LockToken, Unusable, StartUpdate, AfterUpdate, TypeOK
  <2>2. CASE ~Unusable(row[t], req[p].at)
    BY <1>1, <2>2 DEF LockToken, Unusable, Expired, Row, TypeOK
  <2> QED BY <2>1, <2>2
<1>3. \A r \in Tokens : r # t => owner'[r] = owner[r] /\ draft'[r] = draft[r]
  BY <1>1, <1>2 DEF TypeOK
<1>4. /\ owner'[t] = p
      /\ draft'[t] = None \/ draft'[t] = Spend(row[t], req[p].at)
      /\ pc'[p] = "insert" => draft'[t] = Spend(row[t], req[p].at)
  BY <1>1, <1>2 DEF TypeOK
<1>5. /\ Spend(row[t], req[p].at) \in Row /\ Spend(row[t], req[p].at).revoked
      /\ Spend(row[t], req[p].at).user = row[t].user
      /\ Spend(row[t], req[p].at).family = row[t].family
      /\ Spend(row[t], req[p].at).expires = row[t].expires
      /\ Spend(row[t], req[p].at).used = req[p].at
  BY <1>1, RevokeSpend
<1>6. \A q \in Proc : q # p => pc'[q] = pc[q]
  BY <1>2
<1>7. pc'[p] \in {"update", "insert", "commit"}
  BY <1>2
<1>8. \A r \in Tokens : owner[r] # p
  BY <1>1, NoneAssumption DEF LockDiscipline
<1> HIDE DEF t
<1>9. LockDiscipline'
  BY <1>1, <1>3, <1>4, <1>6, <1>7, NoneAssumption DEF LockDiscipline, TypeOK
<1>10. FreshIsPrivate' /\ RotationKnowsItsRow'
  BY <1>1, <1>6, <1>7 DEF FreshIsPrivate, RotationKnowsItsRow
<1>11. RotationSpends'
  <2> SUFFICES ASSUME NEW q \in Proc, req[q].op = "rotate", Spending(q)'
               PROVE  /\ owner'[req[q].token] = q /\ draft'[req[q].token] # None
                      /\ Live(row[req[q].token])
                      /\ req[q].at < row[req[q].token].expires
    BY <1>1 DEF RotationSpends, Live
  <2>0. draft'[req[q].fresh] = draft[req[q].fresh]
    BY <1>1, <1>3, FreshDraft
  <2>1. CASE q = p
    <3>1. pc'[p] = "insert"
      BY <1>1, <1>2, <2>0, <2>1, FreshDraft DEF Spending
    <3> QED BY <1>1, <1>2, <1>4, <1>5, <2>1, <3>1, RowAssumption DEF Live, t
  <2>2. CASE q # p
    <3>1. Spending(q)
      BY <1>1, <1>6, <2>0, <2>2 DEF Spending
    <3>2. req[q].token \in Tokens /\ req[q].token # t
      BY <1>1, <2>2, <3>1, NoneAssumption DEF RotationSpends, RotationKnowsItsRow, TypeOK, Request
    <3> QED BY <1>3, <3>1, <3>2 DEF RotationSpends
  <2> QED BY <2>1, <2>2
<1>12. DraftsAreRevocationsOrNew'
  <2> SUFFICES ASSUME NEW r \in Tokens, draft'[r] # None
               PROVE  \/ /\ row[r] # None /\ draft'[r].revoked
                         /\ draft'[r].user = row[r].user /\ draft'[r].family = row[r].family
                         /\ draft'[r].expires = row[r].expires /\ draft'[r].used < draft'[r].expires
                      \/ /\ pc'[owner'[r]] = "commit"
                         /\ req[owner'[r]].op \in {"create", "rotate"}
                         /\ r = req[owner'[r]].fresh
                         /\ draft'[r] = NewRow(req[owner'[r]])
    <3>2. \A q : NewRow(req[q])' = NewRow(req[q])
      BY <1>1 DEF NewRow
    <3> QED BY <1>1, <3>2 DEF DraftsAreRevocationsOrNew
  <2>1. CASE r = t
    BY <1>1, <1>2, <1>4, <1>5, <2>1
  <2>2. CASE r # t
    BY <1>3, <1>6, <1>8, <2>2 DEF DraftsAreRevocationsOrNew, LockDiscipline, TypeOK
  <2> QED BY <2>1, <2>2
<1>13. IndexCoversDrafts'
  <2> SUFFICES ASSUME NEW r \in Tokens, NEW u \in Tokens, Live(draft'[r])
               PROVE  /\ SameDevice(draft'[r], draft'[u]) => r = u
                      /\ SameDevice(draft'[r], row[u]) => owner'[u] = owner'[r] /\ draft'[u] # None
    BY <1>1 DEF IndexCoversDrafts, Live, SameDevice
  <2>1. r # t /\ draft'[r] = draft[r] /\ owner'[r] = owner[r]
    BY <1>3, <1>4, <1>5 DEF Live
  <2>2. Live(draft'[u]) => draft'[u] = draft[u]
    BY <1>3, <1>4, <1>5 DEF Live
  <2>3. SameDevice(draft[r], draft'[u]) => SameDevice(draft[r], draft[u])
    BY <2>2 DEF SameDevice
  <2>4. ASSUME SameDevice(draft[r], row[u])
        PROVE  owner'[u] = owner[r] /\ draft'[u] # None
    <3>1. owner[u] = owner[r] /\ draft[u] # None
      BY <2>1, <2>4 DEF IndexCoversDrafts
    <3> QED BY <1>1, <1>3, <3>1
  <2> QED BY <2>1, <2>3, <2>4 DEF IndexCoversDrafts
<1> QED BY <1>0, <1>1, <1>9, <1>10, <1>11, <1>12, <1>13, RowsFrame

LEMMA InsertInv ==
  ASSUME IInv, NEW p \in Proc, Insert(p)
  PROVE  IInv'
<1> USE DEF IInv
<1> DEFINE n == req[p].fresh
           R == NewRow(req[p])
<1>0. TypeOK'
  BY StatementType DEF Statement
<1>1. /\ pc[p] = "insert" /\ pc'[p] = "commit" /\ req[p].op \in {"create", "rotate"}
      /\ \A q \in Proc : q # p => pc'[q] = pc[q]
      /\ \A r \in Tokens : ~Duplicate(p, r) /\ ~Undecided(p, r)
      /\ UNCHANGED <<row, req>>
  BY DEF Insert, RotationKnowsItsRow, TypeOK
<1>2. n \in Tokens /\ row[n] = None /\ draft[n] = None
  BY <1>1, FreshDraft
<1>3. /\ R \in Row /\ R # None /\ ~R.revoked
      /\ R.user = req[p].user /\ R.device = req[p].device
  BY <1>1, NewRowType, RowAssumption DEF FreshIsPrivate, RotationKnowsItsRow, NewRow, Live
<1>4. /\ owner'[n] = p /\ draft'[n] = R
      /\ \A r \in Tokens : r # n => owner'[r] = owner[r] /\ draft'[r] = draft[r]
  BY <1>2 DEF Insert, TypeOK
<1>5. \A q : NewRow(req[q])' = NewRow(req[q])
  BY <1>1 DEF NewRow
<1> HIDE DEF n, R
<1>6. LockDiscipline'
  BY <1>1, <1>3, <1>4, NoneAssumption DEF LockDiscipline, TypeOK
<1>7. FreshIsPrivate' /\ RotationKnowsItsRow'
  BY <1>1 DEF FreshIsPrivate, RotationKnowsItsRow
<1>8. RotationSpends'
  <2> SUFFICES ASSUME NEW q \in Proc, req[q].op = "rotate", Spending(q)'
               PROVE  /\ owner'[req[q].token] = q /\ draft'[req[q].token] # None
                      /\ Live(row[req[q].token])
                      /\ req[q].at < row[req[q].token].expires
    BY <1>1 DEF RotationSpends, Live
  <2>1. req[q].token \in Tokens /\ req[q].token # n
    BY <1>2 DEF RotationKnowsItsRow, TypeOK, Request
  <2>2. Spending(q)
    <3>1. CASE q = p
      BY <1>1, <3>1 DEF Spending
    <3>2. CASE q # p
      <4>1. req[q].fresh # n /\ req[q].fresh \in Tokens
        BY <1>1, <3>2, FreshDraft DEF FreshIsPrivate, n
      <4> QED BY <1>1, <1>4, <3>2, <4>1 DEF Spending
    <3> QED BY <3>1, <3>2
  <2> QED BY <1>4, <2>1, <2>2 DEF RotationSpends
<1>9. DraftsAreRevocationsOrNew'
  <2> SUFFICES ASSUME NEW r \in Tokens, draft'[r] # None
               PROVE  \/ /\ row[r] # None /\ draft'[r].revoked
                         /\ draft'[r].user = row[r].user /\ draft'[r].family = row[r].family
                         /\ draft'[r].expires = row[r].expires /\ draft'[r].used < draft'[r].expires
                      \/ /\ pc'[owner'[r]] = "commit"
                         /\ req[owner'[r]].op \in {"create", "rotate"}
                         /\ r = req[owner'[r]].fresh
                         /\ draft'[r] = NewRow(req[owner'[r]])
    BY <1>1, <1>5 DEF DraftsAreRevocationsOrNew
  <2>1. CASE r = n
    BY <1>1, <1>4, <2>1 DEF n, R
  <2>2. CASE r # n
    BY <1>1, <1>4, <2>2 DEF DraftsAreRevocationsOrNew, LockDiscipline, TypeOK
  <2> QED BY <2>1, <2>2
<1>10. IndexCoversDrafts'
  <2> SUFFICES ASSUME NEW r \in Tokens, NEW u \in Tokens, Live(draft'[r])
               PROVE  /\ SameDevice(draft'[r], draft'[u]) => r = u
                      /\ SameDevice(draft'[r], row[u]) => owner'[u] = owner'[r] /\ draft'[u] # None
    BY <1>1 DEF IndexCoversDrafts, Live, SameDevice
  \* No other version, committed or not, of the new row's device is live.
  <2>1. ASSUME NEW w \in Tokens, SameDevice(R, row[w])
        PROVE  owner[w] = p /\ draft[w] # None
    BY <1>1, <1>3, <2>1 DEF Duplicate, Undecided, SameDevice
  <2>2. ASSUME NEW w \in Tokens, SameDevice(R, draft[w]) \/ SameDevice(draft[w], R), Live(draft[w])
        PROVE  FALSE
    <3>1. SameDevice(req[p], draft[w]) /\ draft[w] # None /\ ~draft[w].revoked
      BY <1>3, <2>2 DEF SameDevice, Live
    <3>2. owner[w] = p
      BY <1>1, <3>1 DEF Undecided
    <3> QED BY <1>1, <3>1, <3>2 DEF DraftsAreRevocationsOrNew
  <2>3. CASE r = n /\ u = n
    BY <1>2, <1>4, <2>3 DEF SameDevice, Live
  <2>4. CASE r = n /\ u # n
    BY <1>4, <2>1, <2>2, <2>4 DEF SameDevice
  <2>5. CASE r # n /\ u = n
    BY <1>2, <1>4, <2>2, <2>5 DEF SameDevice, Live
  <2>6. CASE r # n /\ u # n
    BY <1>4, <2>6 DEF IndexCoversDrafts
  <2> QED BY <2>3, <2>4, <2>5, <2>6
<1> QED BY <1>0, <1>1, <1>6, <1>7, <1>8, <1>9, <1>10, RowsFrame

\* A transaction that ends without committing: its locks and drafts go.
LEMMA RollbackInv ==
  ASSUME IInv, NEW p \in Proc, InsertFails(p) \/ DeadlockVictim(p) \/ ConnectionLost(p)
  PROVE  IInv'
<1> USE DEF IInv
<1>0. TypeOK'
  BY StatementType DEF Statement
<1>1. /\ pc' = [pc EXCEPT ![p] = "idle"] /\ req' = [req EXCEPT ![p] = NoRequest]
      /\ owner' = [t \in Tokens |-> IF owner[t] = p THEN None ELSE owner[t]]
      /\ draft' = [t \in Tokens |-> IF owner[t] = p THEN None ELSE draft[t]]
      /\ UNCHANGED row
  BY DEF InsertFails, DeadlockVictim, ConnectionLost, Rollback, Finish
<1>2. /\ pc'[p] = "idle" /\ req'[p] = NoRequest
      /\ \A q \in Proc : q # p => pc'[q] = pc[q] /\ req'[q] = req[q]
  BY <1>1 DEF TypeOK
<1>3. /\ NoRequest.op = "all" /\ NoRequest.fresh = None /\ NoRequest.family = None
  BY DEF NoRequest
<1>4. LockDiscipline'
  BY <1>1, <1>2, NoneAssumption DEF LockDiscipline, TypeOK
<1>5. FreshIsPrivate'
  BY <1>1, <1>2, <1>3, NoneAssumption DEF FreshIsPrivate
<1>6. RotationKnowsItsRow'
  BY <1>1, <1>2, <1>3 DEF RotationKnowsItsRow
<1>7. RotationSpends'
  <2> SUFFICES ASSUME NEW q \in Proc, req'[q].op = "rotate", Spending(q)'
               PROVE  /\ owner'[req'[q].token] = q /\ draft'[req'[q].token] # None
                      /\ Live(row[req'[q].token])
                      /\ req'[q].at < row[req'[q].token].expires
    BY <1>1 DEF RotationSpends, Live
  <2>1. q # p /\ req'[q] = req[q]
    BY <1>2, <1>3
  <2>2. req[q].token \in Tokens /\ req[q].fresh \in Tokens
    BY <2>1, FreshDraft DEF RotationKnowsItsRow, TypeOK, Request
  <2>3. Spending(q)
    BY <1>1, <1>2, <2>1, <2>2 DEF Spending
  <2> QED BY <1>1, <2>1, <2>2, <2>3 DEF RotationSpends
<1>8. DraftsAreRevocationsOrNew'
  <2> SUFFICES ASSUME NEW r \in Tokens, draft'[r] # None
               PROVE  \/ /\ row[r] # None /\ draft'[r].revoked
                         /\ draft'[r].user = row[r].user /\ draft'[r].family = row[r].family
                         /\ draft'[r].expires = row[r].expires /\ draft'[r].used < draft'[r].expires
                      \/ /\ pc'[owner'[r]] = "commit"
                         /\ req'[owner'[r]].op \in {"create", "rotate"}
                         /\ r = req'[owner'[r]].fresh
                         /\ draft'[r] = NewRow(req[owner[r]])'
    BY <1>1 DEF DraftsAreRevocationsOrNew
  <2>1. owner[r] # p /\ draft'[r] = draft[r] /\ owner'[r] = owner[r] /\ owner[r] \in Proc
    BY <1>1 DEF LockDiscipline, TypeOK
  <2>2. \A q : NewRow(q)' = NewRow(q)
    BY <1>1 DEF NewRow
  <2> QED BY <1>1, <1>2, <2>1, <2>2 DEF DraftsAreRevocationsOrNew, NewRow
<1>9. IndexCoversDrafts'
  BY <1>1, NoneAssumption DEF IndexCoversDrafts, Live, SameDevice, TypeOK
<1> QED BY <1>0, <1>1, <1>4, <1>5, <1>6, <1>7, <1>8, <1>9, RowsFrame

\* The rows that a commit changes: revocations of committed rows, and at most
\* one new row, that of the committing call.
LEMMA CommitRows ==
  ASSUME IInv, NEW p \in Proc, Commit(p), NEW t \in Tokens
  PROVE  \/ row'[t] = row[t] /\ (owner[t] # p \/ draft[t] = None)
         \/ /\ owner[t] = p /\ draft[t] # None /\ row'[t] = draft[t]
            /\ \/ /\ row[t] # None /\ row'[t].revoked /\ row'[t].user = row[t].user
                  /\ row'[t].family = row[t].family /\ row'[t].expires = row[t].expires
                  /\ row'[t].used < row'[t].expires
               \/ /\ t = req[p].fresh /\ row[t] = None /\ req[p].op \in {"create", "rotate"}
                  /\ row'[t] = NewRow(req[p])
<1> USE DEF IInv
<1>1. row'[t] = IF owner[t] = p /\ draft[t] # None THEN draft[t] ELSE row[t]
  BY DEF Commit
<1>2. CASE owner[t] = p /\ draft[t] # None
  BY <1>1, <1>2, FreshDraft DEF DraftsAreRevocationsOrNew
<1> QED BY <1>1, <1>2

LEMMA CommitInv ==
  ASSUME IInv, NEW p \in Proc, Commit(p)
  PROVE  IInv'
<1> USE DEF IInv
<1> DEFINE n == req[p].fresh
           R == NewRow(req[p])
<1>0. TypeOK'
  BY StatementType DEF Statement
<1>1. /\ pc' = [pc EXCEPT ![p] = "idle"] /\ req' = [req EXCEPT ![p] = NoRequest]
      /\ owner' = [t \in Tokens |-> IF owner[t] = p THEN None ELSE owner[t]]
      /\ draft' = [t \in Tokens |-> IF owner[t] = p THEN None ELSE draft[t]]
      /\ pc[p] = "commit"
  BY DEF Commit, Finish
<1>2. /\ pc'[p] = "idle" /\ req'[p] = NoRequest
      /\ \A q \in Proc : q # p => pc'[q] = pc[q] /\ req'[q] = req[q]
  BY <1>1 DEF TypeOK
<1>3. /\ NoRequest.op = "all" /\ NoRequest.fresh = None /\ NoRequest.family = None
  BY DEF NoRequest
\* What the new row is, when there is one.
<1>4. ASSUME req[p].op \in {"create", "rotate"}, draft[n] # None
      PROVE  /\ R \in Row /\ R # None /\ ~R.revoked
             /\ R.user = req[p].user /\ R.family = req[p].family
             /\ R.used < R.expires
             /\ n \in Tokens /\ draft[n] = R
             /\ \A s \in Tokens : row[s] # None /\ row[s].family = R.family =>
                   R.user = row[s].user /\ R.expires = row[s].expires
  <2>1. R \in Row /\ R # None /\ ~R.revoked /\ R.user = req[p].user /\ R.family = req[p].family
    BY <1>4, NewRowType, RowAssumption DEF FreshIsPrivate, RotationKnowsItsRow, NewRow, Live
  <2>2. n \in Tokens /\ row[n] = None /\ owner[n] = p
    BY <1>4, FreshDraft
  <2>3. draft[n] = R
    BY <1>4, <2>2 DEF DraftsAreRevocationsOrNew
  <2>4. CASE req[p].op = "create"
    <3>1. R.used = req[p].at /\ R.expires = req[p].at + Lifetime /\ req[p].at \in Nat
      BY <2>4 DEF NewRow, TypeOK, Request
    <3>2. R.used < R.expires
      BY <3>1, TimeAssumption
    <3> QED BY <2>1, <2>2, <2>3, <2>4, <3>2 DEF FreshIsPrivate
  <2>5. CASE req[p].op = "rotate"
    <3>1. R.used = req[p].at /\ R.expires = row[req[p].token].expires
      BY <2>5 DEF NewRow
    <3>2. req[p].token \in Tokens /\ row[req[p].token] # None
          /\ row[req[p].token].family = req[p].family /\ row[req[p].token].user = req[p].user
      BY <2>5 DEF RotationKnowsItsRow, TypeOK, Request
    <3>3. R.used < R.expires
      BY <1>1, <1>4, <2>5, <3>1 DEF RotationSpends, Spending
    <3> QED BY <2>1, <2>2, <2>3, <3>1, <3>2, <3>3 DEF LifetimeIsAbsolute
  <2> QED BY <1>4, <2>4, <2>5
\* Every row of the new table is an old one, a revocation of one, or the new row.
<1>5. \A t \in Tokens : row'[t] # None =>
        \/ row'[t] = row[t] /\ (owner[t] # p \/ draft[t] = None)
        \/ /\ row[t] # None /\ row'[t].revoked /\ row'[t].user = row[t].user
           /\ row'[t].family = row[t].family /\ row'[t].expires = row[t].expires
           /\ row'[t].used < row'[t].expires
        \/ t = n /\ row'[t] = R /\ draft[t] # None /\ req[p].op \in {"create", "rotate"}
  BY CommitRows
<1>6. \A t \in Tokens : row[t] # None => row'[t] # None
  BY CommitRows, <1>0, RowAssumption DEF TypeOK
<1>7. \A t \in Tokens : row'[t] # None => row[t] # None \/ (t = n /\ req[p].op \in {"create", "rotate"})
  BY CommitRows
<1> HIDE DEF n, R
<1>8. LockDiscipline'
  BY <1>1, <1>2, NoneAssumption DEF LockDiscipline, TypeOK
<1>9. FreshIsPrivate'
  <2>1. ASSUME NEW q \in Proc, req'[q].op \in {"create", "rotate"}
        PROVE  /\ req'[q].fresh # None /\ row'[req'[q].fresh] = None
               /\ req'[q].user # None /\ req'[q].family # None /\ req'[q].device # None
               /\ \A r \in Proc : req'[r].fresh = req'[q].fresh => r = q
    <3>1. q # p /\ req'[q] = req[q]
      BY <1>2, <1>3, <2>1
    <3>2. req[q].fresh \in Tokens /\ row[req[q].fresh] = None /\ req[q].fresh # n
      BY <2>1, <3>1, FreshDraft DEF FreshIsPrivate, n
    <3>3. row'[req[q].fresh] = None
      BY <1>7, <3>2
    <3> QED BY <1>2, <1>3, <2>1, <3>1, <3>3, NoneAssumption DEF FreshIsPrivate
  <2>2. ASSUME NEW q \in Proc, req'[q].op = "create"
        PROVE  /\ \A r \in Tokens : row'[r] # None => row'[r].family # req'[q].family
               /\ \A r \in Proc : req'[r].family = req'[q].family => r = q
    <3>1. q # p /\ req'[q] = req[q]
      BY <1>2, <1>3, <2>2
    <3>2. ASSUME NEW r \in Tokens, row'[r] # None PROVE row'[r].family # req[q].family
      <4>1. CASE r = n /\ row'[r] = R /\ draft[r] # None /\ req[p].op \in {"create", "rotate"}
        BY <1>4, <3>1, <2>2, <4>1 DEF FreshIsPrivate
      <4>2. CASE row[r] # None /\ row'[r].family = row[r].family
        BY <3>1, <2>2, <4>2 DEF FreshIsPrivate
      <4> QED BY <1>5, <3>2, <4>1, <4>2
    <3>3. req[q].family # None
      BY <2>2, <3>1 DEF FreshIsPrivate
    <3> QED BY <1>2, <1>3, <2>2, <3>1, <3>2, <3>3 DEF FreshIsPrivate
  <2> QED BY <1>1, <1>2, <2>1, <2>2 DEF FreshIsPrivate
<1>10. RotationKnowsItsRow'
  <2> SUFFICES ASSUME NEW q \in Proc, req'[q].op = "rotate"
               PROVE  /\ req'[q].token # None /\ row'[req'[q].token] # None
                      /\ row'[req'[q].token].family = req'[q].family
                      /\ row'[req'[q].token].user = req'[q].user
    BY <1>2 DEF RotationKnowsItsRow
  <2>1. q # p /\ req'[q] = req[q]
    BY <1>2, <1>3
  <2>2. req[q].token \in Tokens /\ row[req[q].token] # None
    BY <2>1 DEF RotationKnowsItsRow, TypeOK, Request
  <2>3. row'[req[q].token].family = row[req[q].token].family
        /\ row'[req[q].token].user = row[req[q].token].user
    BY <2>2, CommitRows
  <2> QED BY <1>6, <2>1, <2>2, <2>3 DEF RotationKnowsItsRow
<1>11. ASSUME NEW q \in Proc, q # p, req[q].op = "rotate", Spending(q)
       PROVE  row'[req[q].token] = row[req[q].token] /\ req[q].token \in Tokens
  <2>1. req[q].token \in Tokens /\ owner[req[q].token] = q
    BY <1>11 DEF RotationKnowsItsRow, RotationSpends, TypeOK, Request
  <2> QED BY <1>11, <2>1, CommitRows
<1>12. RotationSpends'
  <2> SUFFICES ASSUME NEW q \in Proc, req'[q].op = "rotate", Spending(q)'
               PROVE  /\ owner'[req'[q].token] = q /\ draft'[req'[q].token] # None
                      /\ Live(row'[req'[q].token])
                      /\ req'[q].at < row'[req'[q].token].expires
    BY DEF RotationSpends, Live
  <2>1. q # p /\ req'[q] = req[q]
    BY <1>2, <1>3
  <2>2. req[q].fresh \in Tokens
    BY <2>1, FreshDraft
  <2>3. Spending(q)
    BY <1>1, <1>2, <2>1, <2>2 DEF Spending
  <2> QED BY <1>1, <1>11, <2>1, <2>3 DEF RotationSpends
<1>13. DraftsAreRevocationsOrNew'
  <2> SUFFICES ASSUME NEW r \in Tokens, draft'[r] # None
               PROVE  \/ /\ row'[r] # None /\ draft'[r].revoked
                         /\ draft'[r].user = row'[r].user /\ draft'[r].family = row'[r].family
                         /\ draft'[r].expires = row'[r].expires /\ draft'[r].used < draft'[r].expires
                      \/ /\ pc'[owner'[r]] = "commit"
                         /\ req'[owner'[r]].op \in {"create", "rotate"}
                         /\ r = req'[owner'[r]].fresh
                         /\ draft'[r] = NewRow(req[owner[r]])'
    BY <1>1 DEF DraftsAreRevocationsOrNew
  <2>1. owner[r] # p /\ draft'[r] = draft[r] /\ owner'[r] = owner[r] /\ owner[r] \in Proc
    BY <1>1 DEF LockDiscipline, TypeOK
  <2>2. row'[r] = row[r]
    BY <2>1, CommitRows
  <2>3. CASE row[r] # None /\ draft[r].revoked
    <3>1. /\ draft[r].user = row[r].user /\ draft[r].family = row[r].family
          /\ draft[r].expires = row[r].expires /\ draft[r].used < draft[r].expires
      BY <2>1, <2>3 DEF DraftsAreRevocationsOrNew, FreshIsPrivate
    <3> QED BY <2>1, <2>2, <2>3, <3>1
  <2>4. CASE ~(row[r] # None /\ draft[r].revoked)
    <3> DEFINE q == owner[r]
    <3>1. /\ pc[q] = "commit" /\ req[q].op \in {"create", "rotate"} /\ r = req[q].fresh
          /\ draft[r] = NewRow(req[q])
      BY <2>1, <2>4 DEF DraftsAreRevocationsOrNew
    <3>2. req[q].op = "rotate" => row'[req[q].token] = row[req[q].token]
      BY <1>11, <2>1, <3>1 DEF Spending
    <3>3. NewRow(req[q])' = NewRow(req[q])
      BY <1>2, <2>1, <3>2 DEF NewRow
    <3> QED BY <1>2, <2>1, <3>1, <3>3 DEF NewRow
  <2> QED BY <2>3, <2>4
\* A live row of the new table is an old live row that p did not revoke, or the
\* new row.
<1>14. ASSUME NEW t \in Tokens, Live(row'[t])
       PROVE  \/ row'[t] = row[t] /\ Live(row[t]) /\ (owner[t] # p \/ draft[t] = None)
              \/ t = n /\ row'[t] = R /\ draft[n] # None /\ req[p].op \in {"create", "rotate"}
  BY <1>5, <1>14 DEF Live
<1>15. IndexCoversDrafts'
  <2> SUFFICES ASSUME NEW r \in Tokens, NEW u \in Tokens, Live(draft'[r])
               PROVE  /\ SameDevice(draft'[r], draft'[u]) => r = u
                      /\ SameDevice(draft'[r], row'[u]) => owner'[u] = owner'[r] /\ draft'[u] # None
    BY DEF IndexCoversDrafts, Live, SameDevice
  <2>1. owner[r] # p /\ draft'[r] = draft[r] /\ owner'[r] = owner[r]
    BY <1>1 DEF Live
  <2>2. SameDevice(draft[r], draft'[u]) => SameDevice(draft[r], draft[u])
    BY <1>1 DEF SameDevice, Live
  <2>3. ASSUME SameDevice(draft[r], row'[u]), row'[u] = row[u]
        PROVE  owner'[u] = owner[r] /\ draft'[u] # None
    <3>1. owner[u] = owner[r] /\ draft[u] # None
      BY <2>1, <2>3 DEF IndexCoversDrafts
    <3> QED BY <1>1, <2>1, <3>1
  <2>4. ASSUME SameDevice(draft[r], row'[u]), u = n, row'[u] = R, draft[n] # None,
               req[p].op \in {"create", "rotate"}
        PROVE  FALSE
    <3>1. owner[n] = p
      BY <2>4, FreshDraft DEF n
    <3>2. draft[n] = R /\ n \in Tokens
      BY <1>4, <2>4
    <3>3. r = n
      BY <2>1, <2>4, <3>2 DEF IndexCoversDrafts
    <3> QED BY <2>1, <3>1, <3>3
  <2>5. SameDevice(draft[r], row'[u]) => Live(row'[u])
    BY DEF SameDevice
  <2> QED BY <1>14, <2>1, <2>2, <2>3, <2>4, <2>5 DEF IndexCoversDrafts
<1>16. OneLivePerFamily'
  <2>1. ASSUME NEW s \in Tokens, NEW t \in Tokens, Live(row'[s]), Live(row'[t]),
               row'[s].family = row'[t].family, s = n, row'[s] = R, draft[n] # None,
               req[p].op \in {"create", "rotate"}, row'[t] = row[t], Live(row[t]),
               owner[t] # p \/ draft[t] = None
        PROVE  FALSE
    <3>1. row[t] # None /\ row[t].family = req[p].family
      BY <1>4, <2>1 DEF Live
    <3>2. req[p].op = "rotate"
      BY <2>1, <3>1 DEF FreshIsPrivate
    <3>3. /\ owner[req[p].token] = p /\ draft[req[p].token] # None /\ Live(row[req[p].token])
          /\ row[req[p].token].family = req[p].family /\ req[p].token \in Tokens
      BY <1>1, <2>1, <3>2 DEF RotationSpends, RotationKnowsItsRow, Spending, TypeOK, Request, n
    <3>4. req[p].token = t
      BY <2>1, <3>1, <3>3 DEF OneLivePerFamily
    <3> QED BY <2>1, <3>3, <3>4
  <2> QED BY <1>14, <2>1 DEF OneLivePerFamily
<1>17. OneLivePerDevice'
  <2>1. ASSUME NEW s \in Tokens, NEW t \in Tokens, Live(row'[s]), Live(row'[t]),
               row'[s].user = row'[t].user, row'[s].device = row'[t].device,
               s = n, row'[s] = R, draft[n] # None,
               req[p].op \in {"create", "rotate"}, row'[t] = row[t], Live(row[t]),
               owner[t] # p \/ draft[t] = None
        PROVE  FALSE
    <3>1. draft[n] = R /\ Live(draft[n]) /\ owner[n] = p /\ n \in Tokens
      BY <1>4, <2>1, FreshDraft DEF Live, n
    <3>2. SameDevice(draft[n], row[t])
      BY <2>1, <3>1 DEF SameDevice
    <3> QED BY <2>1, <3>1, <3>2 DEF IndexCoversDrafts
  <2> QED BY <1>14, <2>1 DEF OneLivePerDevice
<1>18. LifetimeIsAbsolute'
  <2>1. \A s \in Tokens : row'[s] # None => row'[s].used < row'[s].expires
    BY <1>4, <1>5 DEF LifetimeIsAbsolute
  <2>2. \A s, t \in Tokens :
            row'[s] # None /\ row'[t] # None /\ row'[s].family = row'[t].family =>
               row'[s].user = row'[t].user /\ row'[s].expires = row'[t].expires
    <3>1. \A s \in Tokens : row'[s] # None =>
             \/ /\ row[s] # None /\ row'[s].user = row[s].user
                /\ row'[s].family = row[s].family /\ row'[s].expires = row[s].expires
             \/ s = n /\ row'[s] = R /\ draft[n] # None /\ req[p].op \in {"create", "rotate"}
      BY <1>5
    <3> QED BY <1>4, <3>1 DEF LifetimeIsAbsolute
  <2>3. \A s, t \in Tokens :
            row'[s] # None /\ row'[t] # None /\ row'[s].family = row'[t].family =>
               row'[s].used < row'[t].expires
    BY <2>1, <2>2
  <2> QED BY <2>2, <2>3 DEF LifetimeIsAbsolute
<1> QED BY <1>0, <1>8, <1>9, <1>10, <1>12, <1>13, <1>15, <1>16, <1>17, <1>18

\* The clock is read only when a call begins or a family's activity is checked.
LEMMA TickInv ==
  ASSUME IInv, Tick
  PROVE  IInv'
<1>1. UNCHANGED <<row, draft, owner, pc, req, todo, seen>> /\ TypeOK'
  BY TickType DEF Tick, IInv
<1> QED BY <1>1 DEF IInv, LockDiscipline, FreshIsPrivate, RotationKnowsItsRow, RotationSpends,
        Spending, DraftsAreRevocationsOrNew, NewRow, IndexCoversDrafts, SameDevice, Live,
        OneLivePerFamily, OneLivePerDevice, LifetimeIsAbsolute

-----------------------------------------------------------------------------
\* Init satisfies the invariant.
LEMMA InitInv == Init => IInv
  BY NoRequestType, TimeAssumption
  DEF Init, IInv, TypeOK, Stage, LockDiscipline, FreshIsPrivate, RotationKnowsItsRow,
      RotationSpends, Spending, DraftsAreRevocationsOrNew, IndexCoversDrafts, Live, SameDevice,
      OneLivePerFamily, OneLivePerDevice, LifetimeIsAbsolute, NoRequest

\* The invariant is inductive.
LEMMA NextInv == IInv /\ [Next]_vars => IInv'
<1> SUFFICES ASSUME IInv, [Next]_vars PROVE IInv'
  OBVIOUS
<1>1. ASSUME NEW p \in Proc, Call(p) PROVE IInv'
  BY <1>1, BeginInv
<1>2. ASSUME NEW p \in Proc, Statement(p) PROVE IInv'
  BY <1>2, ScanInv, UpdateRowInv, LockTokenInv, InsertInv, RollbackInv, CommitInv DEF Statement
<1>3. ASSUME NEW p \in Proc, DeadlockVictim(p) \/ ConnectionLost(p) PROVE IInv'
  BY <1>3, RollbackInv
<1>4. CASE Tick
  BY <1>4, TickInv
<1>5. CASE UNCHANGED vars
  BY <1>5 DEF vars, IInv, TypeOK, LockDiscipline, FreshIsPrivate, RotationKnowsItsRow, RotationSpends,
        Spending, DraftsAreRevocationsOrNew, NewRow, IndexCoversDrafts, SameDevice, Live,
        OneLivePerFamily, OneLivePerDevice, LifetimeIsAbsolute
<1> QED BY <1>1, <1>2, <1>3, <1>4, <1>5 DEF Next

\* The invariant holds in every reachable state.
LEMMA Invariance == Spec => []IInv
  BY InitInv, NextInv, PTL DEF Spec

\* Every variable of the session table and of the threads keeps its type.
THEOREM TypeCorrect == Spec => []TypeOK
<1>1. IInv => TypeOK
  BY DEF IInv
<1> QED BY <1>1, Invariance, PTL

\* A family never has two usable refresh tokens, however rotations, replays,
\* logins and revocations interleave.
THEOREM AtMostOneLivePerFamily == Spec => []OneLivePerFamily
<1>1. IInv => OneLivePerFamily
  BY DEF IInv
<1> QED BY <1>1, Invariance, PTL

\* A browser profile never has two live sessions of one user.
THEOREM AtMostOneLivePerDevice == Spec => []OneLivePerDevice
<1>1. IInv => OneLivePerDevice
  BY DEF IInv
<1> QED BY <1>1, Invariance, PTL

\* No sequence of rotations extends a session past the deadline of its login
\* or carries it to another user.
THEOREM DeadlineNeverExtended == Spec => []LifetimeIsAbsolute
<1>1. IInv => LifetimeIsAbsolute
  BY DEF IInv
<1> QED BY <1>1, Invariance, PTL

-----------------------------------------------------------------------------
(* The statements of a transaction: what is known of the rows an UPDATE found, *)
(* of the rows a call may draft and of the rows a rotation drafts.            *)

\* An UPDATE that has rows left to reach is being executed; a row it found is
\* still there and, while it is live, still the call's to revoke; a row it has
\* passed is no longer live or is drafted as revoked under the call's lock.
UpdateCoversSeen ==
    \A p \in Proc :
        /\ pc[p] \in {"idle", "scan", "lock"} => seen[p] = {}
        /\ pc[p] # "update" => todo[p] = {}
        /\ todo[p] \subseteq seen[p]
        /\ \A t \in seen[p] : row[t] # None /\ (Live(row[t]) => Matches(req[p], row[t]))
        /\ \A t \in seen[p] \ todo[p] :
              Live(row[t]) => owner[t] = p /\ draft[t] # None /\ draft[t].revoked

\* A logout knows the family and user of the token it was given.
LogoutKnowsItsRow ==
    \A p \in Proc : req[p].op = "logout" =>
        /\ req[p].token # None /\ row[req[p].token] # None
        /\ row[req[p].token].family = req[p].family
        /\ row[req[p].token].user = req[p].user

\* A call drafts no version of another user's row.
DraftsAreOwn ==
    \A t \in Tokens : draft[t] # None /\ row[t] # None => row[t].user = req[owner[t]].user

\* A rotation that spends its token drafts that row and its successor only.
RotationDraftsTwo ==
    \A p \in Proc : req[p].op = "rotate" /\ Spending(p) =>
        \A t \in Tokens : owner[t] = p /\ draft[t] # None => t \in {req[p].token, req[p].fresh}

SInv == IInv /\ UpdateCoversSeen /\ LogoutKnowsItsRow /\ DraftsAreOwn /\ RotationDraftsTwo

LEMMA InitSInv == Init => SInv
  BY InitInv, NoRequestType
  DEF Init, SInv, UpdateCoversSeen, LogoutKnowsItsRow, DraftsAreOwn, RotationDraftsTwo, NoRequest

\* A call that begins leaves the statements of all threads alone, and knows the
\* row of the token it was given.
LEMMA BeginFacts ==
  ASSUME IInv, NEW p \in Proc, Call(p)
  PROVE  /\ pc[p] = "idle" /\ pc'[p] \in {"scan", "lock"}
         /\ UNCHANGED <<row, draft, owner, todo, seen>>
         /\ \A q \in Proc : q # p => pc'[q] = pc[q] /\ req'[q] = req[q]
         /\ req'[p].op = "logout" =>
              /\ req'[p].token # None /\ row[req'[p].token] # None
              /\ row[req'[p].token].family = req'[p].family
              /\ row[req'[p].token].user = req'[p].user
<1> USE DEF IInv
<1>1. ASSUME NEW q, NEW s \in {"scan", "lock"}, Begin(p, q, s)
      PROVE  /\ pc[p] = "idle" /\ pc'[p] \in {"scan", "lock"} /\ req'[p] = q
             /\ UNCHANGED <<row, draft, owner, todo, seen>>
             /\ \A o \in Proc : o # p => pc'[o] = pc[o] /\ req'[o] = req[o]
  BY <1>1 DEF Begin, TypeOK
<1>2. ASSUME NEW op, NEW t, NEW n, NEW u, NEW f, NEW d
      PROVE  /\ Asked(op, t, n, u, f, d).op = op /\ Asked(op, t, n, u, f, d).token = t
             /\ Asked(op, t, n, u, f, d).family = f /\ Asked(op, t, n, u, f, d).user = u
  BY DEF Asked
<1>3. CASE BeginCreate(p)
  BY <1>1, <1>2, <1>3 DEF BeginCreate
<1>4. CASE BeginRotate(p)
  BY <1>1, <1>2, <1>4 DEF BeginRotate
<1>5. CASE BeginLogout(p)
  BY <1>1, <1>2, <1>5, NoneAssumption DEF BeginLogout
<1>6. CASE BeginRevokeFamily(p)
  BY <1>1, <1>2, <1>6 DEF BeginRevokeFamily
<1>7. CASE BeginRevokeOthers(p)
  BY <1>1, <1>2, <1>7 DEF BeginRevokeOthers
<1>8. CASE BeginRevokeAll(p)
  BY <1>1, <1>2, <1>8 DEF BeginRevokeAll
<1> QED BY <1>3, <1>4, <1>5, <1>6, <1>7, <1>8 DEF Call

\* A thread that has not finished its first statement holds no lock.
LEMMA NoLocksBefore ==
  ASSUME IInv, NEW p \in Proc, pc[p] \in {"idle", "scan", "lock"}
  PROVE  \A t \in Tokens : owner[t] # p
  BY NoneAssumption DEF IInv, LockDiscipline

LEMMA BeginSInv ==
  ASSUME SInv, NEW p \in Proc, Call(p)
  PROVE  SInv'
<1> USE DEF SInv
<1>0. IInv'
  BY BeginInv
<1>1. /\ pc[p] = "idle" /\ pc'[p] \in {"scan", "lock"}
      /\ UNCHANGED <<row, draft, owner, todo, seen>>
      /\ \A q \in Proc : q # p => pc'[q] = pc[q] /\ req'[q] = req[q]
      /\ req'[p].op = "logout" =>
              /\ req'[p].token # None /\ row[req'[p].token] # None
              /\ row[req'[p].token].family = req'[p].family
              /\ row[req'[p].token].user = req'[p].user
  BY BeginFacts
<1>2. \A t \in Tokens : owner[t] # p
  BY <1>1, NoLocksBefore
<1>3. UpdateCoversSeen'
  <2> SUFFICES ASSUME NEW q \in Proc
               PROVE  /\ pc'[q] \in {"idle", "scan", "lock"} => seen[q] = {}
                      /\ pc'[q] # "update" => todo[q] = {}
                      /\ todo[q] \subseteq seen[q]
                      /\ \A t \in seen[q] : row[t] # None /\ (Live(row[t]) => Matches(req'[q], row[t]))
                      /\ \A t \in seen[q] \ todo[q] :
                            Live(row[t]) => owner[t] = q /\ draft[t] # None /\ draft[t].revoked
    BY <1>1 DEF UpdateCoversSeen, Live, Matches
  <2> QED BY <1>1 DEF UpdateCoversSeen
<1>4. LogoutKnowsItsRow'
  BY <1>1 DEF LogoutKnowsItsRow
<1>5. DraftsAreOwn'
  BY <1>1, <1>2 DEF DraftsAreOwn, LockDiscipline, IInv, TypeOK
<1>6. RotationDraftsTwo'
  <2> SUFFICES ASSUME NEW q \in Proc, req'[q].op = "rotate", Spending(q)',
                      NEW t \in Tokens, owner[t] = q, draft[t] # None
               PROVE  t \in {req'[q].token, req'[q].fresh}
    BY <1>1 DEF RotationDraftsTwo
  <2> QED BY <1>1, <1>2 DEF RotationDraftsTwo, Spending
<1> QED BY <1>0, <1>3, <1>4, <1>5, <1>6

\* What the start of an UPDATE leaves: its snapshot, all of it still to reach.
LEMMA SnapshotCovers ==
  ASSUME SInv, NEW p \in Proc, StartUpdate(p), UNCHANGED <<row, req>>,
         \A t \in Tokens : \A q \in Proc :
            q # p /\ owner[t] = q => owner'[t] = q /\ draft'[t] = draft[t]
  PROVE  UpdateCoversSeen'
<1> USE DEF SInv, IInv
<1> DEFINE S == {t \in Tokens : Matches(req[p], row[t])}
<1>1. /\ todo' = [todo EXCEPT ![p] = S] /\ seen' = [seen EXCEPT ![p] = S]
      /\ pc' = [pc EXCEPT ![p] = IF S = {} THEN AfterUpdate(req[p]) ELSE "update"]
  BY DEF StartUpdate
<1>2. \A t \in S : row[t] # None /\ Matches(req[p], row[t])
  BY DEF Matches
<1> HIDE DEF S
<1>3. /\ todo'[p] = S /\ seen'[p] = S /\ pc'[p] \in {"update", "insert", "commit"}
      /\ pc'[p] # "update" => S = {}
  BY <1>1 DEF TypeOK, AfterUpdate
<1> SUFFICES ASSUME NEW q \in Proc
             PROVE  /\ pc'[q] \in {"idle", "scan", "lock"} => seen'[q] = {}
                    /\ pc'[q] # "update" => todo'[q] = {}
                    /\ todo'[q] \subseteq seen'[q]
                    /\ \A t \in seen'[q] : row[t] # None /\ (Live(row[t]) => Matches(req[q], row[t]))
                    /\ \A t \in seen'[q] \ todo'[q] :
                          Live(row[t]) => owner'[t] = q /\ draft'[t] # None /\ draft'[t].revoked
  BY DEF UpdateCoversSeen, Live, Matches
<1>4. CASE q = p
  BY <1>2, <1>3, <1>4
<1>5. CASE q # p
  <2>1. todo'[q] = todo[q] /\ seen'[q] = seen[q] /\ pc'[q] = pc[q] /\ seen[q] \subseteq Tokens
    BY <1>1, <1>5 DEF TypeOK
  <2>2. \A t \in seen[q] : owner[t] = q => owner'[t] = q /\ draft'[t] = draft[t]
    BY <2>1, <1>5
  <2>3. \A t \in seen[q] : row[t] # None /\ (Live(row[t]) => Matches(req[q], row[t]))
    BY DEF UpdateCoversSeen
  <2>4. \A t \in seen[q] \ todo[q] :
                          Live(row[t]) => owner[t] = q /\ draft[t] # None /\ draft[t].revoked
    BY DEF UpdateCoversSeen
  <2>5. \A t \in seen[q] \ todo[q] :
                          Live(row[t]) => owner'[t] = q /\ draft'[t] # None /\ draft'[t].revoked
    BY <2>2, <2>4
  <2>6. /\ pc[q] \in {"idle", "scan", "lock"} => seen[q] = {}
        /\ pc[q] # "update" => todo[q] = {}
        /\ todo[q] \subseteq seen[q]
    BY DEF UpdateCoversSeen
  <2> QED BY <2>1, <2>3, <2>5, <2>6
<1> QED BY <1>4, <1>5

LEMMA ScanSInv ==
  ASSUME SInv, NEW p \in Proc, Scan(p)
  PROVE  SInv'
<1> USE DEF SInv
<1>0. IInv'
  BY ScanInv
<1>1. /\ pc[p] = "scan" /\ pc'[p] \in {"update", "insert", "commit"}
      /\ pc'[p] = "insert" => req[p].op = "create"
      /\ \A q \in Proc : q # p => pc'[q] = pc[q]
      /\ UNCHANGED <<row, draft, owner, req>>
  BY DEF Scan, StartUpdate, AfterUpdate, TypeOK, IInv
<1>2. \A t \in Tokens : owner[t] # p
  BY <1>1, NoLocksBefore
<1>3. UpdateCoversSeen'
  BY <1>1, SnapshotCovers DEF Scan
<1>4. LogoutKnowsItsRow' /\ DraftsAreOwn'
  BY <1>1 DEF LogoutKnowsItsRow, DraftsAreOwn
<1>5. RotationDraftsTwo'
  <2> SUFFICES ASSUME NEW q \in Proc, req[q].op = "rotate", Spending(q)',
                      NEW t \in Tokens, owner[t] = q, draft[t] # None
               PROVE  t \in {req[q].token, req[q].fresh}
    BY <1>1 DEF RotationDraftsTwo
  <2> QED BY <1>1, <1>2 DEF RotationDraftsTwo, Spending
<1> QED BY <1>0, <1>3, <1>4, <1>5

LEMMA UpdateRowSInv ==
  ASSUME SInv, NEW p \in Proc, UpdateRow(p)
  PROVE  SInv'
<1> USE DEF SInv, IInv
<1>0. IInv'
  BY UpdateRowInv
<1>1. PICK t \in todo[p] :
        /\ owner[t] \in {None, p}
        /\ IF Matches(req[p], row[t])
           THEN /\ owner' = [owner EXCEPT ![t] = p]
                /\ draft' = [draft EXCEPT ![t] = Revoke(row[t])]
           ELSE UNCHANGED <<owner, draft>>
        /\ todo' = [todo EXCEPT ![p] = @ \ {t}]
        /\ pc' = [pc EXCEPT ![p] = IF todo[p] = {t} THEN AfterUpdate(req[p]) ELSE @]
  BY DEF UpdateRow
<1>2. /\ pc[p] = "update" /\ pc'[p] \in {"update", "insert", "commit"}
      /\ pc'[p] = "insert" => req[p].op = "create"
      /\ pc'[p] # "update" => todo[p] = {t}
      /\ todo'[p] = todo[p] \ {t}
      /\ \A q \in Proc : q # p => pc'[q] = pc[q] /\ todo'[q] = todo[q]
      /\ UNCHANGED <<row, req, seen>>
  BY <1>1 DEF UpdateRow, AfterUpdate, TypeOK
<1>3. t \in Tokens /\ row[t] # None /\ (Live(row[t]) => Matches(req[p], row[t]))
  BY DEF TypeOK, UpdateCoversSeen
<1>4. row[t] \in Row /\ Revoke(row[t]) \in Row /\ Revoke(row[t]).revoked /\ Revoke(row[t]) # None
  BY <1>3, RevokeSpend, RowAssumption DEF TypeOK, Row
<1>5. \A r \in Tokens : r # t => owner'[r] = owner[r] /\ draft'[r] = draft[r]
  BY <1>1, <1>3 DEF TypeOK
<1>6. Matches(req[p], row[t]) => owner'[t] = p /\ draft'[t] = Revoke(row[t])
  BY <1>1, <1>3 DEF TypeOK
<1>7. \A r \in Tokens : owner[r] \notin {None, p} => owner'[r] = owner[r] /\ draft'[r] = draft[r]
  BY <1>1, <1>5
<1>8. UpdateCoversSeen'
  <2> SUFFICES ASSUME NEW q \in Proc
               PROVE  /\ pc'[q] \in {"idle", "scan", "lock"} => seen[q] = {}
                      /\ pc'[q] # "update" => todo'[q] = {}
                      /\ todo'[q] \subseteq seen[q]
                      /\ \A r \in seen[q] : row[r] # None /\ (Live(row[r]) => Matches(req[q], row[r]))
                      /\ \A r \in seen[q] \ todo'[q] :
                            Live(row[r]) => owner'[r] = q /\ draft'[r] # None /\ draft'[r].revoked
    BY <1>2 DEF UpdateCoversSeen, Live, Matches
  <2>1. /\ pc'[q] \in {"idle", "scan", "lock"} => seen[q] = {}
        /\ pc'[q] # "update" => todo'[q] = {}
        /\ todo'[q] \subseteq seen[q]
        /\ \A r \in seen[q] : row[r] # None /\ (Live(row[r]) => Matches(req[q], row[r]))
    BY <1>2 DEF UpdateCoversSeen
  <2>2. ASSUME NEW r \in seen[q] \ todo'[q], Live(row[r])
        PROVE  owner'[r] = q /\ draft'[r] # None /\ draft'[r].revoked
    <3>1. r \in Tokens
      BY DEF TypeOK
    <3>2. CASE q = p /\ r = t
      BY <1>3, <1>4, <1>6, <2>2, <3>2
    <3>3. CASE q # p \/ r # t
      <4>1. r \notin todo[q]
        BY <1>2, <3>3
      <4>2. owner[r] = q /\ draft[r] # None /\ draft[r].revoked
        BY <2>2, <4>1 DEF UpdateCoversSeen
      <4>3. owner'[r] = q /\ draft'[r] = draft[r]
        BY <1>5, <1>7, <3>1, <3>3, <4>2, NoneAssumption
      <4> QED BY <4>2, <4>3
    <3> QED BY <3>2, <3>3
  <2> QED BY <2>1, <2>2
<1>9. LogoutKnowsItsRow'
  BY <1>2 DEF LogoutKnowsItsRow
<1>10. DraftsAreOwn'
  <2>1. Matches(req[p], row[t]) => row[t].user = req[p].user
    <3> SUFFICES ASSUME req[p].op \in {"rotate", "logout"}, row[t].family = req[p].family
                 PROVE  row[t].user = req[p].user
      BY DEF Matches
    <3>1. /\ req[p].token \in Tokens /\ row[req[p].token] # None
          /\ row[req[p].token].family = req[p].family /\ row[req[p].token].user = req[p].user
      BY DEF RotationKnowsItsRow, LogoutKnowsItsRow, TypeOK, Request
    <3> QED BY <1>3, <3>1 DEF LifetimeIsAbsolute
  <2>2. ~Matches(req[p], row[t]) => UNCHANGED <<owner, draft>>
    BY <1>1
  <2> SUFFICES ASSUME NEW r \in Tokens, draft'[r] # None, row[r] # None
               PROVE  row[r].user = req[owner'[r]].user
    BY <1>2 DEF DraftsAreOwn
  <2>3. CASE r = t /\ Matches(req[p], row[t])
    BY <1>6, <2>1, <2>3
  <2>4. CASE ~(r = t /\ Matches(req[p], row[t]))
    BY <1>5, <2>2, <2>4 DEF DraftsAreOwn
  <2> QED BY <2>3, <2>4
<1>11. RotationDraftsTwo'
  <2> SUFFICES ASSUME NEW q \in Proc, req[q].op = "rotate", Spending(q)',
                      NEW r \in Tokens, owner'[r] = q, draft'[r] # None
               PROVE  r \in {req[q].token, req[q].fresh}
    BY <1>2 DEF RotationDraftsTwo
  <2>1. req[q].fresh \in Tokens /\ row[req[q].fresh] = None
    BY FreshDraft
  <2>2. draft'[req[q].fresh] = draft[req[q].fresh]
    BY <1>3, <1>5, <2>1
  <2>3. q # p
    BY <1>2, <2>2, FreshDraft DEF Spending
  <2>4. Spending(q)
    BY <1>2, <2>2, <2>3 DEF Spending
  <2>5. owner[r] = q /\ draft[r] # None
    <3>1. CASE r # t
      BY <1>5, <3>1
    <3>2. CASE r = t
      BY <1>1, <1>6, <2>3, <3>2
    <3> QED BY <3>1, <3>2
  <2> QED BY <2>4, <2>5 DEF RotationDraftsTwo
<1> QED BY <1>0, <1>8, <1>9, <1>10, <1>11

LEMMA LockTokenSInv ==
  ASSUME SInv, NEW p \in Proc, LockToken(p)
  PROVE  SInv'
<1> USE DEF SInv, IInv
<1> DEFINE t == req[p].token
<1>0. IInv'
  BY LockTokenInv
<1>1. /\ pc[p] = "lock" /\ req[p].op = "rotate" /\ seen[p] = {} /\ todo[p] = {}
      /\ t \in Tokens /\ row[t] # None /\ row[t].user = req[p].user
      /\ owner[t] = None /\ draft[t] = None
      /\ UNCHANGED <<row, req>> /\ owner' = [owner EXCEPT ![t] = p]
  BY DEF LockToken, RotationKnowsItsRow, LockDiscipline, UpdateCoversSeen, TypeOK, Request
<1>2. \A r \in Tokens : owner[r] # p
  BY <1>1, NoLocksBefore
<1>3. \A r \in Tokens : r # t => owner'[r] = owner[r] /\ draft'[r] = draft[r]
  BY <1>1 DEF LockToken, TypeOK
<1>4. owner'[t] = p
  BY <1>1 DEF TypeOK
<1>5. \A r \in Tokens, q \in Proc : owner[r] = q => r # t
  BY <1>1, NoneAssumption
<1>6. UpdateCoversSeen'
  <2>1. CASE StartUpdate(p)
    BY <1>1, <1>3, <1>5, <2>1, SnapshotCovers
  <2>2. CASE pc' = [pc EXCEPT ![p] = "insert"] /\ UNCHANGED <<todo, seen>>
    <3> SUFFICES ASSUME NEW q \in Proc
                 PROVE  /\ pc'[q] \in {"idle", "scan", "lock"} => seen[q] = {}
                        /\ pc'[q] # "update" => todo[q] = {}
                        /\ todo[q] \subseteq seen[q]
                        /\ \A r \in seen[q] : row[r] # None /\ (Live(row[r]) => Matches(req[q], row[r]))
                        /\ \A r \in seen[q] \ todo[q] :
                              Live(row[r]) => owner'[r] = q /\ draft'[r] # None /\ draft'[r].revoked
      BY <1>1, <2>2 DEF UpdateCoversSeen, Live, Matches
    <3>1. seen[q] \subseteq Tokens
      BY DEF TypeOK
    <3>2. ASSUME NEW r \in seen[q] \ todo[q], Live(row[r])
          PROVE  owner'[r] = q /\ draft'[r] # None /\ draft'[r].revoked
      <4>1. owner[r] = q /\ draft[r] # None /\ draft[r].revoked
        BY <3>2 DEF UpdateCoversSeen
      <4> QED BY <1>3, <1>5, <3>1, <4>1
    <3>3. pc'[q] = pc[q] \/ (q = p /\ pc'[q] = "insert")
      BY <2>2 DEF TypeOK
    <3> QED BY <1>1, <3>2, <3>3 DEF UpdateCoversSeen
  <2> QED BY <2>1, <2>2 DEF LockToken
<1>7. LogoutKnowsItsRow'
  BY <1>1 DEF LogoutKnowsItsRow
<1>8. DraftsAreOwn'
  BY <1>1, <1>3, <1>4 DEF DraftsAreOwn
<1>9. RotationDraftsTwo'
  <2> SUFFICES ASSUME NEW q \in Proc, req[q].op = "rotate", Spending(q)',
                      NEW r \in Tokens, owner'[r] = q, draft'[r] # None
               PROVE  r \in {req[q].token, req[q].fresh}
    BY <1>1 DEF RotationDraftsTwo
  <2>1. CASE q = p
    BY <1>2, <1>3, <2>1
  <2>2. CASE q # p
    <3>1. r # t /\ owner[r] = q /\ draft[r] # None
      BY <1>3, <1>4, <2>2
    <3>2. req[q].fresh \in Tokens /\ row[req[q].fresh] = None
      BY FreshDraft
    <3>3. draft'[req[q].fresh] = draft[req[q].fresh]
      BY <1>1, <1>3, <3>2
    <3>4. pc'[q] = pc[q]
      BY <2>2 DEF LockToken, StartUpdate, TypeOK
    <3> QED BY <1>1, <3>1, <3>3, <3>4 DEF RotationDraftsTwo, Spending
  <2> QED BY <2>1, <2>2
<1> QED BY <1>0, <1>6, <1>7, <1>8, <1>9

LEMMA InsertSInv ==
  ASSUME SInv, NEW p \in Proc, Insert(p)
  PROVE  SInv'
<1> USE DEF SInv, IInv
<1> DEFINE n == req[p].fresh
<1>0. IInv'
  BY InsertInv
<1>1. /\ pc[p] = "insert" /\ pc' = [pc EXCEPT ![p] = "commit"]
      /\ req[p].op \in {"create", "rotate"} /\ n \in Tokens /\ row[n] = None /\ draft[n] = None
      /\ owner' = [owner EXCEPT ![n] = p]
      /\ draft' = [draft EXCEPT ![n] = NewRow(req[p])]
      /\ UNCHANGED <<row, req, todo, seen>>
  <2>1. pc[p] = "insert" /\ req[p].op \in {"create", "rotate"}
    BY DEF Insert, RotationKnowsItsRow
  <2> QED BY <2>1, FreshDraft DEF Insert
<1>2. \A r \in Tokens : r # n => owner'[r] = owner[r] /\ draft'[r] = draft[r]
  BY <1>1 DEF TypeOK
<1>3. owner'[n] = p /\ pc'[p] = "commit" /\ \A q \in Proc : q # p => pc'[q] = pc[q]
  BY <1>1 DEF TypeOK
<1> HIDE DEF n
<1>4. UpdateCoversSeen'
  <2> SUFFICES ASSUME NEW q \in Proc
               PROVE  /\ pc'[q] \in {"idle", "scan", "lock"} => seen[q] = {}
                      /\ pc'[q] # "update" => todo[q] = {}
                      /\ todo[q] \subseteq seen[q]
                      /\ \A r \in seen[q] : row[r] # None /\ (Live(row[r]) => Matches(req[q], row[r]))
                      /\ \A r \in seen[q] \ todo[q] :
                            Live(row[r]) => owner'[r] = q /\ draft'[r] # None /\ draft'[r].revoked
    BY <1>1 DEF UpdateCoversSeen, Live, Matches
  <2>1. \A r \in seen[q] : r \in Tokens /\ r # n
    BY <1>1 DEF UpdateCoversSeen, TypeOK
  <2>2. \A r \in seen[q] \ todo[q] :
           Live(row[r]) => owner[r] = q /\ draft[r] # None /\ draft[r].revoked
    BY DEF UpdateCoversSeen
  <2> QED BY <1>1, <1>2, <1>3, <2>1, <2>2 DEF UpdateCoversSeen
<1>5. LogoutKnowsItsRow'
  BY <1>1 DEF LogoutKnowsItsRow
<1>6. DraftsAreOwn'
  BY <1>1, <1>2 DEF DraftsAreOwn
<1>7. RotationDraftsTwo'
  <2> SUFFICES ASSUME NEW q \in Proc, req[q].op = "rotate", Spending(q)',
                      NEW r \in Tokens, owner'[r] = q, draft'[r] # None
               PROVE  r \in {req[q].token, req[q].fresh}
    BY <1>1 DEF RotationDraftsTwo
  <2>1. CASE r = n
    BY <1>3, <2>1 DEF n
  <2>2. CASE r # n /\ q = p
    BY <1>1, <1>2, <2>2 DEF RotationDraftsTwo, Spending
  <2>3. CASE r # n /\ q # p
    <3>1. req[q].fresh \in Tokens /\ req[q].fresh # n
      BY <1>1, <2>3, FreshDraft DEF FreshIsPrivate, n
    <3> QED BY <1>1, <1>2, <1>3, <2>3, <3>1 DEF RotationDraftsTwo, Spending
  <2> QED BY <2>1, <2>2, <2>3
<1> QED BY <1>0, <1>4, <1>5, <1>6, <1>7

\* What the end of a transaction, by commit or rollback, has to show: the rows
\* that other threads hold, found or were given are still the same.
LEMMA FinishSInv ==
  ASSUME SInv, IInv', NEW p \in Proc, Finish(p),
         \A t \in Tokens : row[t] # None =>
            /\ row'[t] # None /\ row'[t].user = row[t].user /\ row'[t].family = row[t].family
            /\ Live(row'[t]) => row'[t] = row[t],
         \A t \in Tokens : owner[t] # p => row'[t] = row[t]
  PROVE  SInv'
<1> USE DEF SInv, IInv
<1>1. /\ \A t \in Tokens : owner[t] = p => owner'[t] = None /\ draft'[t] = None
      /\ \A t \in Tokens : owner[t] # p => owner'[t] = owner[t] /\ draft'[t] = draft[t]
      /\ pc'[p] = "idle" /\ req'[p] = NoRequest /\ todo'[p] = {} /\ seen'[p] = {}
      /\ \A q \in Proc : q # p => /\ pc'[q] = pc[q] /\ req'[q] = req[q]
                                  /\ todo'[q] = todo[q] /\ seen'[q] = seen[q]
  BY DEF Finish, TypeOK
<1>2. NoRequest.op = "all"
  BY DEF NoRequest
<1>3. UpdateCoversSeen'
  <2> SUFFICES ASSUME NEW q \in Proc, q # p
               PROVE  /\ pc'[q] \in {"idle", "scan", "lock"} => seen'[q] = {}
                      /\ pc'[q] # "update" => todo'[q] = {}
                      /\ todo'[q] \subseteq seen'[q]
                      /\ \A r \in seen'[q] : row'[r] # None /\ (Live(row'[r]) => Matches(req'[q], row'[r]))
                      /\ \A r \in seen'[q] \ todo'[q] :
                            Live(row'[r]) => owner'[r] = q /\ draft'[r] # None /\ draft'[r].revoked
    BY <1>1 DEF UpdateCoversSeen, Live, Matches
  <2>1. seen[q] \subseteq Tokens
    BY DEF TypeOK
  <2>2. /\ pc[q] \in {"idle", "scan", "lock"} => seen[q] = {}
        /\ pc[q] # "update" => todo[q] = {}
        /\ todo[q] \subseteq seen[q]
        /\ \A r \in seen[q] : row[r] # None /\ (Live(row[r]) => Matches(req[q], row[r]))
    BY DEF UpdateCoversSeen
  <2>3. \A r \in seen[q] \ todo[q] :
           Live(row[r]) => owner[r] = q /\ draft[r] # None /\ draft[r].revoked
    BY DEF UpdateCoversSeen
  <2>4. \A r \in seen[q] : row'[r] # None /\ (Live(row'[r]) => Matches(req[q], row'[r]))
    BY <2>1, <2>2
  <2>5. \A r \in seen[q] : Live(row'[r]) => Live(row[r])
    BY <2>1, <2>2
  <2>6. \A r \in seen[q] \ todo[q] :
           Live(row'[r]) => owner'[r] = q /\ draft'[r] # None /\ draft'[r].revoked
    BY <1>1, <2>1, <2>3, <2>5
  <2> QED BY <1>1, <2>2, <2>4, <2>6
<1>4. LogoutKnowsItsRow'
  <2> SUFFICES ASSUME NEW q \in Proc, q # p, req[q].op = "logout"
               PROVE  /\ req[q].token # None /\ row'[req[q].token] # None
                      /\ row'[req[q].token].family = req[q].family
                      /\ row'[req[q].token].user = req[q].user
    BY <1>1, <1>2 DEF LogoutKnowsItsRow
  <2>1. req[q].token \in Tokens
    BY DEF LogoutKnowsItsRow, TypeOK, Request
  <2> QED BY <2>1 DEF LogoutKnowsItsRow
<1>5. DraftsAreOwn'
  <2> SUFFICES ASSUME NEW t \in Tokens, draft'[t] # None, row'[t] # None
               PROVE  row'[t].user = req'[owner'[t]].user
    BY DEF DraftsAreOwn
  <2>1. owner[t] # p /\ owner'[t] = owner[t] /\ draft'[t] = draft[t] /\ row'[t] = row[t]
    BY <1>1
  <2>2. owner[t] \in Proc
    BY <2>1 DEF LockDiscipline, TypeOK
  <2> QED BY <1>1, <2>1, <2>2 DEF DraftsAreOwn
<1>6. RotationDraftsTwo'
  <2> SUFFICES ASSUME NEW q \in Proc, q # p, req[q].op = "rotate", Spending(q)',
                      NEW t \in Tokens, owner'[t] = q, draft'[t] # None
               PROVE  t \in {req[q].token, req[q].fresh}
    BY <1>1, <1>2 DEF RotationDraftsTwo
  <2>1. owner[t] = q /\ draft[t] # None
    BY <1>1
  <2>2. req[q].fresh \in Tokens
    BY FreshDraft
  <2>3. Spending(q)
    BY <1>1, <2>2 DEF Spending
  <2> QED BY <2>1, <2>3 DEF RotationDraftsTwo
<1> QED BY <1>3, <1>4, <1>5, <1>6

LEMMA RollbackSInv ==
  ASSUME SInv, NEW p \in Proc, InsertFails(p) \/ DeadlockVictim(p) \/ ConnectionLost(p)
  PROVE  SInv'
<1>1. Finish(p) /\ UNCHANGED row
  BY DEF InsertFails, DeadlockVictim, ConnectionLost, Rollback
<1>2. IInv'
  BY RollbackInv DEF SInv
<1> QED BY <1>1, <1>2, FinishSInv

LEMMA CommitSInv ==
  ASSUME SInv, NEW p \in Proc, Commit(p)
  PROVE  SInv'
<1>1. Finish(p) /\ IInv'
  BY CommitInv DEF SInv, Commit
<1>2. ASSUME NEW t \in Tokens, row[t] # None
      PROVE  /\ row'[t] # None /\ row'[t].user = row[t].user /\ row'[t].family = row[t].family
             /\ Live(row'[t]) => row'[t] = row[t]
  BY <1>2, CommitRows DEF SInv, Live
<1>3. \A t \in Tokens : owner[t] # p => row'[t] = row[t]
  BY CommitRows DEF SInv
<1> QED BY <1>1, <1>2, <1>3, FinishSInv

LEMMA TickSInv ==
  ASSUME SInv, Tick
  PROVE  SInv'
<1>1. UNCHANGED <<row, draft, owner, pc, req, todo, seen>> /\ IInv'
  BY TickInv DEF Tick, SInv
<1> QED BY <1>1 DEF SInv, UpdateCoversSeen, LogoutKnowsItsRow, DraftsAreOwn, RotationDraftsTwo,
        Spending, Live, Matches

\* The larger invariant is inductive too.
LEMMA NextSInv == SInv /\ [Next]_vars => SInv'
<1> SUFFICES ASSUME SInv, [Next]_vars PROVE SInv'
  OBVIOUS
<1>1. ASSUME NEW p \in Proc, Call(p) PROVE SInv'
  BY <1>1, BeginSInv
<1>2. ASSUME NEW p \in Proc, Statement(p) PROVE SInv'
  BY <1>2, ScanSInv, UpdateRowSInv, LockTokenSInv, InsertSInv, RollbackSInv, CommitSInv DEF Statement
<1>3. ASSUME NEW p \in Proc, DeadlockVictim(p) \/ ConnectionLost(p) PROVE SInv'
  BY <1>3, RollbackSInv
<1>4. CASE Tick
  BY <1>4, TickSInv
<1>5. CASE UNCHANGED vars
  <2>1. IInv'
    BY <1>5, NextInv DEF SInv
  <2> QED BY <1>5, <2>1 DEF vars, SInv, UpdateCoversSeen, LogoutKnowsItsRow, DraftsAreOwn,
          RotationDraftsTwo, Spending, Live, Matches
<1> QED BY <1>1, <1>2, <1>3, <1>4, <1>5 DEF Next

LEMMA StatementInvariance == Spec => []SInv
  BY InitSInv, NextSInv, PTL DEF Spec

\* A committed revocation revokes: whichever transactions rotated, revoked or
\* held a row meanwhile, no row that the UPDATE found is live after the commit.
THEOREM RevocationMissesNothing == Spec => RevokesWhatItSaw
<1> DEFINE Revoked == \A p \in Proc : Commit(p) => \A t \in seen[p] : ~Live(row'[t])
<1>1. ASSUME SInv, [Next]_vars PROVE [Revoked]_vars
  <2> SUFFICES ASSUME NEW p \in Proc, Commit(p), NEW t \in seen[p], Live(row'[t])
               PROVE  FALSE
    OBVIOUS
  <2>1. t \in Tokens /\ row[t] # None /\ todo[p] = {}
    BY <1>1 DEF SInv, IInv, TypeOK, UpdateCoversSeen, Commit
  <2>2. row'[t] = row[t] /\ (owner[t] # p \/ draft[t] = None)
    BY <1>1, <2>1, CommitRows DEF SInv, Live
  <2> QED BY <1>1, <2>1, <2>2 DEF SInv, UpdateCoversSeen
<1> HIDE DEF Revoked
<1>2. Spec => [][Revoked]_vars
  BY <1>1, StatementInvariance, PTL DEF Spec
<1> QED BY <1>2 DEF RevokesWhatItSaw, Revoked

\* No call made on behalf of one user changes another user's rows, although a
\* logout and a replay select rows by family alone.
THEOREM UsersAreIsolated == Spec => IsolatesUsers
<1> DEFINE Isolated == \A p \in Proc : Commit(p) =>
                          \A t \in Tokens : row'[t] # row[t] => row'[t].user = req[p].user
<1>1. ASSUME SInv, [Next]_vars PROVE [Isolated]_vars
  <2> SUFFICES ASSUME NEW p \in Proc, Commit(p), NEW t \in Tokens, row'[t] # row[t]
               PROVE  row'[t].user = req[p].user
    OBVIOUS
  <2>1. owner[t] = p /\ draft[t] # None
    BY <1>1, CommitRows DEF SInv
  <2>2. CASE row[t] # None /\ row'[t].user = row[t].user
    BY <1>1, <2>1, <2>2 DEF SInv, DraftsAreOwn
  <2>3. CASE row'[t] = NewRow(req[p])
    BY <2>3 DEF NewRow
  <2> QED BY <1>1, <2>2, <2>3, CommitRows DEF SInv
<1> HIDE DEF Isolated
<1>2. Spec => [][Isolated]_vars
  BY <1>1, StatementInvariance, PTL DEF Spec
<1> QED BY <1>2 DEF IsolatesUsers, Isolated

-----------------------------------------------------------------------------
(* The refinement of SessionFamilies: a commit opens, rotates or ends families, *)
(* any other step leaves the committed table, hence the promise, unchanged.    *)

\* The CHOOSE in CurrentToken has one candidate: the family's live row.
LEMMA CurrentIsTheLiveRow ==
  ASSUME IInv, NEW f \in Families
  PROVE  /\ \A t \in Tokens : Live(row[t]) /\ row[t].family = f => CurrentToken[f] = t
         /\ (\A t \in Tokens : ~(Live(row[t]) /\ row[t].family = f)) => CurrentToken[f] = None
<1>1. CASE \E t \in Tokens : Live(row[t]) /\ row[t].family = f
  <2> PICK t \in Tokens : Live(row[t]) /\ row[t].family = f
    BY <1>1
  <2>1. LiveTokens(f) = {t}
    BY DEF LiveTokens, IInv, OneLivePerFamily
  <2> QED BY <2>1 DEF CurrentToken, LiveTokens
<1>2. CASE \A t \in Tokens : ~(Live(row[t]) /\ row[t].family = f)
  BY <1>2 DEF CurrentToken, LiveTokens
<1> QED BY <1>1, <1>2

\* The same in the next state.
LEMMA CurrentIsTheLiveRowNext ==
  ASSUME IInv', NEW f \in Families
  PROVE  /\ \A t \in Tokens : Live(row'[t]) /\ row'[t].family = f => CurrentToken'[f] = t
         /\ (\A t \in Tokens : ~(Live(row'[t]) /\ row'[t].family = f)) => CurrentToken'[f] = None
<1>1. CASE \E t \in Tokens : Live(row'[t]) /\ row'[t].family = f
  <2> PICK t \in Tokens : Live(row'[t]) /\ row'[t].family = f
    BY <1>1
  <2>1. LiveTokens(f)' = {t}
    BY DEF LiveTokens, IInv, OneLivePerFamily, Live
  <2> QED BY <2>1 DEF CurrentToken, LiveTokens, Live
<1>2. CASE \A t \in Tokens : ~(Live(row'[t]) /\ row'[t].family = f)
  BY <1>2 DEF CurrentToken, LiveTokens, Live
<1> QED BY <1>1, <1>2

\* A step that leaves the committed table alone is a stutter of the promise.
LEMMA TableUnchanged ==
  ASSUME UNCHANGED row
  PROVE  UNCHANGED Promise!vars
  BY DEF Promise!vars, OpenedFamilies, CurrentToken, LiveTokens, SpentTokens, Live

LEMMA InitPromise == Init => Promise!Init
<1> SUFFICES ASSUME Init PROVE Promise!Init
  OBVIOUS
<1>1. \A t \in Tokens : row[t] = None /\ ~Live(row[t])
  BY DEF Init, Live
<1>2. OpenedFamilies = {} /\ SpentTokens = {}
  BY <1>1 DEF OpenedFamilies, SpentTokens
<1>3. \A f \in Families : LiveTokens(f) = {}
  BY <1>1 DEF LiveTokens
<1>4. CurrentToken = [f \in Families |-> None]
  BY <1>3 DEF CurrentToken
<1> QED BY <1>2, <1>4 DEF Promise!Init

\* The new row of a login or a rotation is being committed.
Opens(p) == req[p].op \in {"create", "rotate"} /\ draft[req[p].fresh] # None

\* The families whose live row the commit revokes.
Ended == {f \in Families :
            \E t \in Tokens : Live(row[t]) /\ row[t].family = f /\ ~Live(row'[t])}

\* What a commit does to the rows, as far as the promise looks at them.
LEMMA CommitTable ==
  ASSUME SInv, NEW p \in Proc, Commit(p)
  PROVE  /\ \A t \in Tokens : row[t] # None =>
              /\ row'[t] # None /\ row'[t].family = row[t].family
              /\ Live(row'[t]) => row'[t] = row[t]
              /\ row[t].revoked => row'[t].revoked
         /\ \A t \in Tokens : row[t] = None /\ row'[t] # None => Opens(p) /\ t = req[p].fresh
         /\ Opens(p) => /\ req[p].fresh \in Tokens /\ row[req[p].fresh] = None
                        /\ Live(row'[req[p].fresh]) /\ row'[req[p].fresh] # None
                        /\ row'[req[p].fresh].family = req[p].family
                        /\ req[p].family \in Families
<1> USE DEF SInv, IInv
<1>1. ASSUME NEW t \in Tokens, row[t] # None
      PROVE  /\ row'[t] # None /\ row'[t].family = row[t].family
             /\ Live(row'[t]) => row'[t] = row[t]
             /\ row[t].revoked => row'[t].revoked
  BY <1>1, CommitRows DEF Live
<1>2. ASSUME NEW t \in Tokens, row[t] = None, row'[t] # None
      PROVE  Opens(p) /\ t = req[p].fresh
  BY <1>2, CommitRows DEF Opens
<1>3. ASSUME Opens(p)
      PROVE  /\ req[p].fresh \in Tokens /\ row[req[p].fresh] = None
             /\ Live(row'[req[p].fresh]) /\ row'[req[p].fresh] # None
             /\ row'[req[p].fresh].family = req[p].family
             /\ req[p].family \in Families
  <2> DEFINE n == req[p].fresh
  <2>1. n \in Tokens /\ row[n] = None /\ owner[n] = p /\ draft[n] # None
    BY <1>3, FreshDraft DEF Opens
  <2>2. row'[n] = NewRow(req[p])
    BY <2>1, CommitRows
  <2>3. NewRow(req[p]) \in Row /\ NewRow(req[p]) # None
    BY <1>3, NewRowType, RowAssumption DEF Opens, FreshIsPrivate, RotationKnowsItsRow
  <2>4. ~NewRow(req[p]).revoked /\ NewRow(req[p]).family = req[p].family
    BY DEF NewRow
  <2>5. req[p].family \in Families
    BY <1>3 DEF Opens, FreshIsPrivate, TypeOK, Request
  <2> QED BY <2>1, <2>2, <2>3, <2>4, <2>5 DEF Live
<1> QED BY <1>1, <1>2, <1>3

\* What a commit does to the opened families, the current and the spent tokens.
LEMMA CommitPromise ==
  ASSUME SInv, SInv', NEW p \in Proc, Commit(p)
  PROVE  /\ Ended \subseteq OpenedFamilies
         /\ OpenedFamilies' = OpenedFamilies \cup (IF Opens(p) THEN {req[p].family} ELSE {})
         /\ SpentTokens' = SpentTokens \cup ({CurrentToken[f] : f \in Ended} \ {None})
         /\ CurrentToken' =
              [f \in Families |-> IF Opens(p) /\ f = req[p].family THEN req[p].fresh
                                  ELSE IF f \in Ended THEN None ELSE CurrentToken[f]]
<1> USE DEF SInv, IInv
<1>0. \A t \in Tokens : row[t] # None => row[t].family \in Families
  BY DEF TypeOK, Row
<1>1. \A t \in Tokens : row[t] # None =>
              /\ row'[t] # None /\ row'[t].family = row[t].family
              /\ Live(row'[t]) => row'[t] = row[t]
              /\ row[t].revoked => row'[t].revoked
  BY CommitTable
<1>2. \A t \in Tokens : row[t] = None /\ row'[t] # None => Opens(p) /\ t = req[p].fresh
  BY CommitTable
<1>3. Opens(p) => /\ req[p].fresh \in Tokens /\ row[req[p].fresh] = None
                  /\ Live(row'[req[p].fresh]) /\ row'[req[p].fresh] # None
                  /\ row'[req[p].fresh].family = req[p].family
                  /\ req[p].family \in Families
  BY CommitTable
<1>4. Ended \subseteq OpenedFamilies
  BY DEF Ended, OpenedFamilies, Live
<1>5. OpenedFamilies' = OpenedFamilies \cup (IF Opens(p) THEN {req[p].family} ELSE {})
  <2>1. ASSUME NEW f \in OpenedFamilies' PROVE f \in OpenedFamilies \/ (Opens(p) /\ f = req[p].family)
    <3> PICK t \in Tokens : row'[t] # None /\ f = row'[t].family
      BY <2>1 DEF OpenedFamilies
    <3> QED BY <1>1, <1>2, <1>3 DEF OpenedFamilies
  <2>2. ASSUME NEW f \in OpenedFamilies PROVE f \in OpenedFamilies'
    <3> PICK t \in Tokens : row[t] # None /\ f = row[t].family
      BY <2>2 DEF OpenedFamilies
    <3>1. row'[t] # None /\ f = row'[t].family
      BY <1>1
    <3> QED BY <3>1 DEF OpenedFamilies
  <2>3. Opens(p) => req[p].family \in OpenedFamilies'
    BY <1>3 DEF OpenedFamilies
  <2> QED BY <2>1, <2>2, <2>3
\* A family that ends had one live row, which is spent now.
<1>6. ASSUME NEW f \in Ended
      PROVE  \E t \in Tokens : /\ Live(row[t]) /\ row[t].family = f /\ CurrentToken[f] = t
                               /\ t # None /\ row'[t] # None /\ row'[t].revoked
                               /\ \A s \in Tokens : ~(row[s] # None /\ Live(row'[s]) /\ row'[s].family = f)
  <2> PICK t \in Tokens : Live(row[t]) /\ row[t].family = f /\ ~Live(row'[t])
    BY DEF Ended
  <2>1. f \in Families
    BY DEF Ended
  <2>2. CurrentToken[f] = t /\ t # None
    BY <2>1, CurrentIsTheLiveRow, NoneAssumption
  <2>3. row'[t] # None /\ row'[t].revoked
    BY <1>1 DEF Live
  <2>4. ASSUME NEW s \in Tokens, row[s] # None, Live(row'[s]), row'[s].family = f
        PROVE  FALSE
    <3>1. row'[s] = row[s] /\ Live(row[s]) /\ row[s].family = f
      BY <1>1, <2>4
    <3>2. s = t
      BY <3>1 DEF OneLivePerFamily
    <3> QED BY <2>4, <3>2
  <2> QED BY <2>2, <2>3, <2>4
<1>7. SpentTokens' = SpentTokens \cup ({CurrentToken[f] : f \in Ended} \ {None})
  <2>1. ASSUME NEW t \in SpentTokens', t \notin SpentTokens
        PROVE  \E f \in Ended : CurrentToken[f] = t /\ t # None
    <3>1. t \in Tokens /\ row'[t] # None /\ row'[t].revoked /\ ~Live(row'[t])
      BY DEF SpentTokens, Live
    <3>2. row[t] # None
      BY <1>2, <1>3, <3>1
    <3>3. Live(row[t])
      BY <2>1, <3>1, <3>2 DEF SpentTokens, Live
    <3>4. row[t].family \in Ended
      BY <1>0, <3>1, <3>2, <3>3 DEF Ended
    <3>5. CurrentToken[row[t].family] = t /\ t # None
      BY <1>0, <3>1, <3>2, <3>3, CurrentIsTheLiveRow, NoneAssumption
    <3> QED BY <3>4, <3>5
  <2>2. SpentTokens \subseteq SpentTokens'
    BY <1>1 DEF SpentTokens
  <2>3. ASSUME NEW f \in Ended PROVE CurrentToken[f] \in SpentTokens'
    BY <1>6 DEF SpentTokens
  <2> QED BY <2>1, <2>2, <2>3
<1>8. ASSUME NEW f \in Families
      PROVE  CurrentToken'[f] = IF Opens(p) /\ f = req[p].family THEN req[p].fresh
                                ELSE IF f \in Ended THEN None ELSE CurrentToken[f]
  <2>1. CASE Opens(p) /\ f = req[p].family
    BY <1>3, <2>1, CurrentIsTheLiveRowNext
  <2>2. CASE ~(Opens(p) /\ f = req[p].family)
    <3>1. \A s \in Tokens : Live(row'[s]) /\ row'[s].family = f => row[s] # None
      BY <1>2, <1>3, <2>2 DEF Live
    <3>2. CASE f \in Ended
      <4>1. \A s \in Tokens : ~(Live(row'[s]) /\ row'[s].family = f)
        BY <1>6, <3>1, <3>2
      <4> QED BY <2>2, <3>2, <4>1, CurrentIsTheLiveRowNext
    <3>3. CASE f \notin Ended /\ \E t \in Tokens : Live(row[t]) /\ row[t].family = f
      <4> PICK t \in Tokens : Live(row[t]) /\ row[t].family = f
        BY <3>3
      <4>1. Live(row'[t]) /\ row'[t].family = f
        BY <1>1, <3>3 DEF Ended, Live
      <4> QED BY <2>2, <3>3, <4>1, CurrentIsTheLiveRow, CurrentIsTheLiveRowNext
    <3>4. CASE f \notin Ended /\ \A t \in Tokens : ~(Live(row[t]) /\ row[t].family = f)
      <4>1. \A s \in Tokens : ~(Live(row'[s]) /\ row'[s].family = f)
        BY <1>1, <3>1, <3>4
      <4> QED BY <2>2, <3>4, <4>1, CurrentIsTheLiveRow, CurrentIsTheLiveRowNext
    <3> QED BY <3>2, <3>3, <3>4
  <2> QED BY <2>1, <2>2
<1>9. CurrentToken' = [f \in Families |-> CurrentToken'[f]]
  BY DEF CurrentToken
<1> QED BY <1>4, <1>5, <1>7, <1>8, <1>9

\* Every commit is a step of the promise: with a new row it opens or rotates a
\* family, without one it ends the families whose rows it revoked.
LEMMA CommitKeepsPromise ==
  ASSUME SInv, SInv', NEW p \in Proc, Commit(p)
  PROVE  Promise!Next
<1> USE DEF SInv, IInv
<1> DEFINE n == req[p].fresh
           f == req[p].family
<1>1. /\ Ended \subseteq OpenedFamilies
      /\ OpenedFamilies' = OpenedFamilies \cup (IF Opens(p) THEN {f} ELSE {})
      /\ SpentTokens' = SpentTokens \cup ({CurrentToken[g] : g \in Ended} \ {None})
      /\ CurrentToken' = [g \in Families |-> IF Opens(p) /\ g = f THEN n
                                             ELSE IF g \in Ended THEN None ELSE CurrentToken[g]]
  BY CommitPromise
\* The new token is nobody's token so far.
<1>2. ASSUME Opens(p)
      PROVE  n \in Tokens /\ f \in Families /\ n \notin Promise!Issued
  <2>1. n \in Tokens /\ f \in Families /\ row[n] = None
    BY <1>2, CommitTable
  <2>2. n \notin SpentTokens
    BY <2>1 DEF SpentTokens
  <2>3. ASSUME NEW g \in Families PROVE CurrentToken[g] # n
    <3>1. CASE \E t \in Tokens : Live(row[t]) /\ row[t].family = g
      BY <2>1, <3>1, CurrentIsTheLiveRow DEF Live
    <3>2. CASE \A t \in Tokens : ~(Live(row[t]) /\ row[t].family = g)
      BY <2>1, <3>2, CurrentIsTheLiveRow, NoneAssumption
    <3> QED BY <3>1, <3>2
  <2> QED BY <2>1, <2>2, <2>3 DEF Promise!Issued
<1>3. CASE ~Opens(p)
  <2>1. Promise!End(Ended)
    BY <1>1, <1>3 DEF Promise!End, Promise!Without, Promise!CurrentOf
  <2> QED BY <1>1, <2>1 DEF Promise!Next
<1>4. CASE Opens(p) /\ req[p].op = "create"
  <2>1. f \notin OpenedFamilies
    BY <1>4 DEF OpenedFamilies, FreshIsPrivate
  <2>2. CurrentToken' = [Promise!Without(Ended) EXCEPT ![f] = n]
    BY <1>1, <1>2, <1>4 DEF Promise!Without
  <2>3. Promise!Open(f, n, Ended)
    BY <1>1, <1>2, <1>4, <2>1, <2>2 DEF Promise!Open, Promise!CurrentOf
  <2> QED BY <1>1, <1>2, <1>4, <2>3 DEF Promise!Next
<1>5. CASE Opens(p) /\ req[p].op = "rotate"
  <2> DEFINE t == req[p].token
  <2>1. /\ t \in Tokens /\ owner[t] = p /\ draft[t] # None /\ Live(row[t]) /\ row[t].family = f
    BY <1>5 DEF Opens, Commit, Spending, RotationSpends, RotationKnowsItsRow, TypeOK, Request
  <2>2. ~Live(row'[t])
    BY <2>1, CommitRows DEF Live
  <2>3. CurrentToken[f] = t /\ t # None
    BY <1>2, <1>5, <2>1, CurrentIsTheLiveRow, NoneAssumption
  <2>4. Ended = {f}
    <3>1. f \in Ended
      BY <1>2, <1>5, <2>1, <2>2 DEF Ended
    <3>2. ASSUME NEW g \in Ended PROVE g = f
      <4> PICK s \in Tokens : Live(row[s]) /\ row[s].family = g /\ ~Live(row'[s])
        BY DEF Ended
      <4>1. owner[s] = p /\ draft[s] # None
        BY CommitRows
      <4>2. s \in {t, n}
        BY <1>5, <4>1 DEF Opens, Commit, Spending, RotationDraftsTwo
      <4>3. s # n
        BY <1>5, CommitTable DEF Live
      <4> QED BY <2>1, <4>2, <4>3
    <3> QED BY <3>1, <3>2
  <2>5. OpenedFamilies' = OpenedFamilies
    BY <1>1, <2>4
  <2>6. SpentTokens' = SpentTokens \cup {CurrentToken[f]}
    BY <1>1, <2>3, <2>4
  <2>7. CurrentToken' = [CurrentToken EXCEPT ![f] = n]
    <3>1. CurrentToken = [g \in Families |-> CurrentToken[g]]
      BY DEF CurrentToken
    <3> QED BY <1>1, <1>5, <2>4, <3>1
  <2>8. Promise!Rotate(f, n)
    BY <1>2, <1>5, <2>3, <2>5, <2>6, <2>7 DEF Promise!Rotate
  <2> QED BY <1>2, <1>5, <2>8 DEF Promise!Next
<1> QED BY <1>3, <1>4, <1>5 DEF Opens

\* Only a commit changes the committed table.
LEMMA OnlyCommitsChangeRows ==
  ASSUME [Next]_vars, \A p \in Proc : ~Commit(p)
  PROVE  UNCHANGED row
  BY DEF Next, Call, BeginCreate, BeginRotate, BeginLogout, BeginRevokeFamily, BeginRevokeOthers,
         BeginRevokeAll, Begin, Statement, Scan, UpdateRow, LockToken, Insert, InsertFails,
         DeadlockVictim, ConnectionLost, Rollback, Tick, vars

\* The session table implements SessionFamilies: a token is spent once, an
\* ended family never comes back, a new token was never issued before.
THEOREM TableKeepsPromise == Spec => KeepsPromise
<1>1. Init => Promise!Init
  BY InitPromise
<1>2. SInv /\ SInv' /\ [Next]_vars => [Promise!Next]_(Promise!vars)
  <2> SUFFICES ASSUME SInv, SInv', [Next]_vars PROVE Promise!Next \/ UNCHANGED Promise!vars
    OBVIOUS
  <2>1. CASE \E p \in Proc : Commit(p)
    BY <2>1, CommitKeepsPromise
  <2>2. CASE \A p \in Proc : ~Commit(p)
    BY <2>2, OnlyCommitsChangeRows, TableUnchanged
  <2> QED BY <2>1, <2>2
<1> QED BY <1>1, <1>2, StatementInvariance, PTL DEF Spec, Promise!Spec, KeepsPromise
=============================================================================
