-------------------------- MODULE RefreshSessions --------------------------
(***************************************************************************)
(* The refresh-session table and the six repository functions that change  *)
(* it (app/repositories/refresh_session_repository.py), at the granularity *)
(* at which PostgreSQL interleaves them: every function is one READ        *)
(* COMMITTED transaction, every statement of it takes its own snapshot, a  *)
(* statement that meets a row another transaction has locked waits for     *)
(* that transaction and then looks at the row again, and nothing a         *)
(* transaction wrote is visible before it commits.                         *)
(*                                                                         *)
(* Proc is the set of worker threads that serve requests concurrently; a   *)
(* thread runs one function at a time.  A row is identified by its token   *)
(* hash, which is unique in the table.  The time at which a row was        *)
(* revoked is never read by the code, only whether there is one, so a row  *)
(* records a Boolean.                                                      *)
(***************************************************************************)
EXTENDS Naturals, FiniteSets

CONSTANTS
    Users, Families, Tokens, Devices,
    Proc,         \* request threads
    None,         \* SQL NULL / Python None / "no such row"
    Lifetime,     \* REFRESH_TOKEN_EXPIRES_DAYS: the absolute limit
    IdleLimit,    \* REFRESH_TOKEN_IDLE_DAYS: the idle limit
    MaxNow        \* bound on the clock

ASSUME NoneAssumption == None \notin Users \cup Families \cup Tokens \cup Devices \cup Proc
ASSUME TimeAssumption == /\ Lifetime \in Nat \ {0}
                         /\ IdleLimit \in Nat \ {0}
                         /\ MaxNow \in Nat

VARIABLES
    now,      \* the clock
    row,      \* committed rows: token -> row, or None
    draft,    \* the uncommitted version of a row, written by its lock's owner
    owner,    \* row locks: token -> the thread whose transaction holds the lock
    pc,       \* the statement a thread is about to execute
    req,      \* the call a thread is serving
    todo,     \* rows an UPDATE found in its snapshot and has not reached yet
    seen      \* rows the UPDATE found (history of todo)

vars == <<now, row, draft, owner, pc, req, todo, seen>>

Row == [user: Users, family: Families, device: Devices,
        expires: Nat, used: Nat, revoked: BOOLEAN]

ASSUME RowAssumption == None \notin Row

Ops == {"create", "rotate", "logout", "family", "others", "all"}

Request == [op: Ops, token: Tokens \cup {None}, fresh: Tokens \cup {None},
            user: Users \cup {None}, family: Families \cup {None},
            device: Devices \cup {None}, at: Nat]

NoRequest == [op |-> "all", token |-> None, fresh |-> None, user |-> None,
              family |-> None, device |-> None, at |-> 0]

Stage == {"idle", "scan", "lock", "update", "insert", "commit"}

TypeOK ==
    /\ now \in 0..MaxNow
    /\ row \in [Tokens -> Row \cup {None}]
    /\ draft \in [Tokens -> Row \cup {None}]
    /\ owner \in [Tokens -> Proc \cup {None}]
    /\ pc \in [Proc -> Stage]
    /\ req \in [Proc -> Request]
    /\ todo \in [Proc -> SUBSET Tokens]
    /\ seen \in [Proc -> SUBSET Tokens]

-----------------------------------------------------------------------------
(* Rows.  A definition called Mutant_... is a deliberate mistake that nothing *)
(* refers to: put in place of the definition after it, it makes a property   *)
(* fail, which shows that the property says something (see the README).      *)

Live(r) == r # None /\ ~r.revoked

Mutant_TouchOnly(r) == r

Revoke(r) == [r EXCEPT !.revoked = TRUE]

Mutant_SpendWithoutRevoking(r, at) == [r EXCEPT !.used = at]

\* A rotation also stamps the row it spends.
Spend(r, at) == [r EXCEPT !.revoked = TRUE, !.used = at]

Mutant_MatchesOtherUsers(q, r) ==
    /\ r # None
    /\ CASE q.op = "create" -> r.user = q.user /\ r.device = q.device /\ ~r.revoked
         [] q.op = "others" -> r.family # q.family /\ ~r.revoked
         [] q.op = "all"    -> r.user = q.user /\ ~r.revoked
         [] OTHER           -> r.family = q.family

\* The WHERE clause of the UPDATE each function runs.
Matches(q, r) ==
    /\ r # None
    /\ \/ /\ q.op = "create"
          /\ r.user = q.user /\ r.device = q.device /\ ~r.revoked
       \/ /\ q.op \in {"rotate", "logout"}
          /\ r.family = q.family
       \/ /\ q.op = "family"
          /\ r.user = q.user /\ r.family = q.family /\ ~r.revoked
       \/ /\ q.op = "others"
          /\ r.user = q.user /\ r.family # q.family /\ ~r.revoked
       \/ /\ q.op = "all"
          /\ r.user = q.user /\ ~r.revoked

Expired(r, at) == r.expires <= at \/ r.used + IdleLimit <= at

Mutant_UnusableByAge(r, at) == Expired(r, at)

\* A presented token that is not rotated: spent before, expired or idle.
Unusable(r, at) == r.revoked \/ Expired(r, at)

\* Tokens and families are random (token_urlsafe, uuid4): never drawn twice.
FreshTokens == {t \in Tokens : row[t] = None /\ \A p \in Proc : req[p].fresh # t}

FreshFamilies ==
    {f \in Families : /\ \A t \in Tokens : row[t] # None => row[t].family # f
                      /\ \A p \in Proc : req[p].family # f}

-----------------------------------------------------------------------------
(* The calls.  Each Begin action reads the clock and, where the function    *)
(* starts with a SELECT that takes no lock, runs that SELECT; a call that   *)
(* returns there without touching the table is not a step.                  *)

Begin(p, q, stage) ==
    /\ pc[p] = "idle"
    /\ req' = [req EXCEPT ![p] = q]
    /\ pc' = [pc EXCEPT ![p] = stage]
    /\ UNCHANGED <<now, row, draft, owner, todo, seen>>

\* The call as the thread knows it: presented token, new token, user, family,
\* device, and the time it read.
Asked(op, t, n, u, f, d) ==
    [op |-> op, token |-> t, fresh |-> n, user |-> u, family |-> f, device |-> d, at |-> now]

BeginCreate(p) ==
    \E u \in Users, d \in Devices, f \in FreshFamilies, t \in FreshTokens :
        Begin(p, Asked("create", None, t, u, f, d), "scan")

\* The refresh cookie and the device cookie are sent by the client: any pair.
BeginRotate(p) ==
    \E t \in Tokens, d \in Devices, n \in FreshTokens :
        /\ row[t] # None
        /\ Begin(p, Asked("rotate", t, n, row[t].user, row[t].family, d), "lock")

BeginLogout(p) ==
    \E t \in Tokens :
        /\ row[t] # None
        /\ Begin(p, Asked("logout", t, None, row[t].user, row[t].family, None), "scan")

\* DELETE /auth/sessions/{family}, for one of the caller's families, and the
\* refresh of an account that has lost its access, for the rotated one.
BeginRevokeFamily(p) ==
    \E t \in Tokens :
        /\ row[t] # None
        /\ Begin(p, Asked("family", None, None, row[t].user, row[t].family, None), "scan")

BeginRevokeOthers(p) ==
    \E t \in Tokens :
        /\ Live(row[t])
        /\ row[t].expires > now
        /\ Begin(p, Asked("others", t, None, row[t].user, row[t].family, None), "scan")

BeginRevokeAll(p) ==
    \E u \in Users : Begin(p, Asked("all", None, None, u, None, None), "scan")

-----------------------------------------------------------------------------
(* The statements. *)

\* What follows an UPDATE that has no row left to reach.
AfterUpdate(q) == IF q.op = "create" THEN "insert" ELSE "commit"

\* The snapshot an UPDATE statement takes when it starts.
StartUpdate(p) ==
    LET S == {t \in Tokens : Matches(req[p], row[t])}
    IN  /\ todo' = [todo EXCEPT ![p] = S]
        /\ seen' = [seen EXCEPT ![p] = S]
        /\ pc' = [pc EXCEPT ![p] = IF S = {} THEN AfterUpdate(req[p]) ELSE "update"]

Scan(p) ==
    /\ pc[p] = "scan"
    /\ StartUpdate(p)
    /\ UNCHANGED <<now, row, draft, owner, req>>

\* UPDATE ... SET revoked_at: one row of the snapshot.  If another transaction
\* holds the row the statement waits; once it has the row it evaluates the
\* WHERE clause again on the version that is committed by then.
UpdateRow(p) ==
    /\ pc[p] = "update"
    /\ \E t \in todo[p] :
        /\ owner[t] \in {None, p}
        /\ IF Matches(req[p], row[t])
           THEN /\ owner' = [owner EXCEPT ![t] = p]
                /\ draft' = [draft EXCEPT ![t] = Revoke(row[t])]
           ELSE UNCHANGED <<owner, draft>>
        /\ todo' = [todo EXCEPT ![p] = @ \ {t}]
        /\ pc' = [pc EXCEPT ![p] = IF todo[p] = {t} THEN AfterUpdate(req[p]) ELSE @]
    /\ UNCHANGED <<now, row, req, seen>>

\* rotate_refresh_session: SELECT ... FOR UPDATE of the presented token, then
\* the branch on the row as it is once the lock is held: a spent, expired or
\* idle token revokes its whole family, any other is spent here.  The statement
\* after the SELECT is part of the step: what others do between the two neither
\* needs the lock nor changes the row, so it could as well come before both.
LockToken(p) ==
    LET t == req[p].token IN
    /\ pc[p] = "lock"
    /\ owner[t] = None
    /\ owner' = [owner EXCEPT ![t] = p]
    /\ IF Unusable(row[t], req[p].at)
       THEN /\ StartUpdate(p)
            /\ UNCHANGED draft
       ELSE /\ draft' = [draft EXCEPT ![t] = Spend(row[t], req[p].at)]
            /\ pc' = [pc EXCEPT ![p] = "insert"]
            /\ UNCHANGED <<todo, seen>>
    /\ UNCHANGED <<now, row, req>>

Mutant_SlidingNewRow(q) ==
    [user |-> q.user, family |-> q.family, device |-> q.device,
     expires |-> q.at + Lifetime, used |-> q.at, revoked |-> FALSE]

\* The row INSERTed: a rotation's successor keeps the family and the deadline.
NewRow(q) ==
    [user |-> q.user, family |-> q.family, device |-> q.device,
     expires |-> IF q.op = "rotate" THEN row[q.token].expires ELSE q.at + Lifetime,
     used |-> q.at, revoked |-> FALSE]

SameDevice(q, r) == Live(r) /\ r.user = q.user /\ r.device = q.device

\* The partial unique index on (user_id, device_hash): the INSERT fails on a
\* live committed row, and waits for a transaction that is inserting or
\* revoking one.
Mutant_NeverDuplicate(p, t) == FALSE

Duplicate(p, t) == SameDevice(req[p], row[t]) /\ draft[t] = None

Undecided(p, t) ==
    /\ owner[t] # p
    /\ draft[t] # None
    /\ SameDevice(req[p], row[t]) \/ SameDevice(req[p], draft[t])

Insert(p) ==
    /\ pc[p] = "insert"
    /\ \A t \in Tokens : ~Duplicate(p, t) /\ ~Undecided(p, t)
    /\ draft' = [draft EXCEPT ![req[p].fresh] = NewRow(req[p])]
    /\ owner' = [owner EXCEPT ![req[p].fresh] = p]
    /\ pc' = [pc EXCEPT ![p] = "commit"]
    /\ UNCHANGED <<now, row, req, todo, seen>>

-----------------------------------------------------------------------------
(* The end of the transaction: the "with get_connection()" block commits    *)
(* when it is left normally and rolls back when an exception leaves it.     *)

Mutant_FinishHoldingLocks(p) ==
    /\ draft' = [t \in Tokens |-> IF owner[t] = p THEN None ELSE draft[t]]
    /\ pc' = [pc EXCEPT ![p] = "idle"]
    /\ req' = [req EXCEPT ![p] = NoRequest]
    /\ todo' = [todo EXCEPT ![p] = {}]
    /\ seen' = [seen EXCEPT ![p] = {}]
    /\ UNCHANGED <<now, owner>>

Finish(p) ==
    /\ owner' = [t \in Tokens |-> IF owner[t] = p THEN None ELSE owner[t]]
    /\ draft' = [t \in Tokens |-> IF owner[t] = p THEN None ELSE draft[t]]
    /\ pc' = [pc EXCEPT ![p] = "idle"]
    /\ req' = [req EXCEPT ![p] = NoRequest]
    /\ todo' = [todo EXCEPT ![p] = {}]
    /\ seen' = [seen EXCEPT ![p] = {}]
    /\ UNCHANGED now

Commit(p) ==
    /\ pc[p] = "commit"
    /\ row' = [t \in Tokens |-> IF owner[t] = p /\ draft[t] # None THEN draft[t] ELSE row[t]]
    /\ Finish(p)

Rollback(p) == Finish(p) /\ UNCHANGED row

\* psycopg raises UniqueViolation; no caller catches it.
InsertFails(p) ==
    /\ pc[p] = "insert"
    /\ \E t \in Tokens : Duplicate(p, t)
    /\ Rollback(p)

\* The threads p waits for.
Blockers(p) ==
    CASE pc[p] = "lock"   -> {owner[req[p].token]} \ {None}
      [] pc[p] = "update" -> IF \E t \in todo[p] : owner[t] \in {None, p}
                             THEN {} ELSE {owner[t] : t \in todo[p]}
      [] pc[p] = "insert" -> {owner[t] : t \in {s \in Tokens : Undecided(p, s)}}
      [] OTHER -> {}

\* PostgreSQL's deadlock detector aborts one transaction of a waiting cycle.
DeadlockVictim(p) ==
    /\ \E S \in SUBSET Proc : p \in S /\ \A q \in S : Blockers(q) \cap S # {}
    /\ Rollback(p)

\* The connection or the server is lost, or the pool checkout times out.
ConnectionLost(p) ==
    /\ pc[p] # "idle"
    /\ Rollback(p)

Tick ==
    /\ now < MaxNow
    /\ now' = now + 1
    /\ UNCHANGED <<row, draft, owner, pc, req, todo, seen>>

-----------------------------------------------------------------------------
Init ==
    /\ now = 0
    /\ row = [t \in Tokens |-> None]
    /\ draft = [t \in Tokens |-> None]
    /\ owner = [t \in Tokens |-> None]
    /\ pc = [p \in Proc |-> "idle"]
    /\ req = [p \in Proc |-> NoRequest]
    /\ todo = [p \in Proc |-> {}]
    /\ seen = [p \in Proc |-> {}]

Call(p) ==
    \/ BeginCreate(p) \/ BeginRotate(p) \/ BeginLogout(p)
    \/ BeginRevokeFamily(p) \/ BeginRevokeOthers(p) \/ BeginRevokeAll(p)

Statement(p) ==
    \/ Scan(p) \/ UpdateRow(p) \/ LockToken(p) \/ Insert(p) \/ InsertFails(p)
    \/ Commit(p)

Next ==
    \/ \E p \in Proc : Call(p) \/ Statement(p) \/ DeadlockVictim(p) \/ ConnectionLost(p)
    \/ Tick

Spec == Init /\ [][Next]_vars

\* The lock manager queues waiters, so a transaction that keeps being able to
\* go on eventually does; the deadlock detector runs while a cycle lasts.
Fairness ==
    \A p \in Proc : SF_vars(Statement(p)) /\ WF_vars(DeadlockVictim(p))

FairSpec == Spec /\ Fairness

-----------------------------------------------------------------------------
(* Properties. *)

\* Rotation, replay detection and logins interleaved in any way never leave
\* a family with two usable refresh tokens: a rotation spends the presented
\* row and inserts its successor under one row lock.
OneLivePerFamily ==
    \A s, t \in Tokens :
        Live(row[s]) /\ Live(row[t]) /\ row[s].family = row[t].family => s = t

\* A browser profile has one live session per user: create_refresh_session
\* revokes the device's rows before it inserts, and where that races with a
\* rotation the partial unique index refuses the second row.
OneLivePerDevice ==
    \A s, t \in Tokens :
        /\ Live(row[s]) /\ Live(row[t])
        /\ row[s].user = row[t].user /\ row[s].device = row[t].device
        => s = t

\* However often a session is rotated, its tokens stay its user's, its
\* deadline stays the one its login set, and no token is used at or after it.
LifetimeIsAbsolute ==
    \A s, t \in Tokens :
        row[s] # None /\ row[t] # None /\ row[s].family = row[t].family =>
            /\ row[s].user = row[t].user
            /\ row[s].expires = row[t].expires
            /\ row[s].used < row[t].expires

\* Every row an UPDATE found when it started is revoked once its transaction
\* has committed, whoever else revoked, rotated or held it meanwhile.
RevokesWhatItSaw ==
    [][\A p \in Proc : Commit(p) => \A t \in seen[p] : ~Live(row'[t])]_vars

\* No call made on behalf of one user changes another user's sessions, not
\* even a logout or a replay, which select rows by family alone.
IsolatesUsers ==
    [][\A p \in Proc : Commit(p) =>
          \A t \in Tokens : row'[t] # row[t] => row'[t].user = req[p].user]_vars

\* Every call comes to an end: lock waits between rotations, replays, logouts
\* and revocations resolve, by a commit or by the deadlock detector.
CallsEnd == \A p \in Proc : pc[p] # "idle" ~> pc[p] = "idle"

\* Once a logout or the revocation of a family has committed, the check that
\* every authenticated request makes fails for that family.
RevocationTakesEffect ==
    [][\A p \in Proc : Commit(p) /\ req[p].op \in {"logout", "family"} =>
          ~\E t \in Tokens : Live(row'[t]) /\ row'[t].family = req[p].family]_vars

-----------------------------------------------------------------------------
(* The promise. *)

OpenedFamilies == {row[t].family : t \in {s \in Tokens : row[s] # None}}

LiveTokens(f) == {t \in Tokens : Live(row[t]) /\ row[t].family = f}

CurrentToken == [f \in Families |-> IF LiveTokens(f) = {} THEN None
                                    ELSE CHOOSE t \in LiveTokens(f) : TRUE]

SpentTokens == {t \in Tokens : row[t] # None /\ row[t].revoked}

Promise == INSTANCE SessionFamilies
           WITH opened <- OpenedFamilies, current <- CurrentToken, spent <- SpentTokens

\* The committed table changes only as SessionFamilies allows: one thread
\* spends a token, so two requests that present the same token never both get
\* a successor; an ended family stays ended; a spent token stays spent.
KeepsPromise == Promise!Spec

-----------------------------------------------------------------------------
(* The inductive invariant behind the row properties. *)

\* A lock is held by a transaction that is past its first statement, and an
\* uncommitted version exists only under a lock.
LockDiscipline ==
    \A t \in Tokens :
        /\ owner[t] = None => draft[t] = None
        /\ owner[t] # None => pc[owner[t]] \in {"update", "insert", "commit"}

\* A request's fresh token and a login's fresh family are its own.
FreshIsPrivate ==
    /\ \A p \in Proc : pc[p] = "idle" => req[p] = NoRequest
    /\ \A p \in Proc : req[p].op \in {"create", "rotate"} =>
            /\ req[p].fresh # None /\ row[req[p].fresh] = None
            /\ req[p].user # None /\ req[p].family # None /\ req[p].device # None
            /\ \A q \in Proc : req[q].fresh = req[p].fresh => q = p
    /\ \A p \in Proc : req[p].op = "create" =>
            /\ \A t \in Tokens : row[t] # None => row[t].family # req[p].family
            /\ \A q \in Proc : req[q].family = req[p].family => q = p

\* A rotation knows the family, user and row of the token it was given.
RotationKnowsItsRow ==
    \A p \in Proc :
        /\ pc[p] = "insert" => req[p].op \in {"create", "rotate"}
        /\ pc[p] = "lock" => req[p].op = "rotate"
        /\ req[p].op = "rotate" =>
             /\ req[p].token # None /\ row[req[p].token] # None
             /\ row[req[p].token].family = req[p].family
             /\ row[req[p].token].user = req[p].user

\* From the moment a rotation decides to spend its token until it commits, the
\* committed row is live, locked, and drafted as spent.
Spending(p) == pc[p] = "insert" \/ (pc[p] = "commit" /\ draft[req[p].fresh] # None)

RotationSpends ==
    \A p \in Proc : req[p].op = "rotate" /\ Spending(p) =>
        /\ owner[req[p].token] = p
        /\ draft[req[p].token] # None
        /\ Live(row[req[p].token])
        /\ req[p].at < row[req[p].token].expires

\* An uncommitted version either revokes the committed row or is the new row
\* of a request that is ready to commit.
DraftsAreRevocationsOrNew ==
    \A t \in Tokens : draft[t] # None =>
        \/ /\ row[t] # None
           /\ draft[t].revoked
           /\ draft[t].user = row[t].user /\ draft[t].family = row[t].family
           /\ draft[t].expires = row[t].expires /\ draft[t].used < draft[t].expires
        \/ /\ pc[owner[t]] = "commit"
           /\ req[owner[t]].op \in {"create", "rotate"}
           /\ t = req[owner[t]].fresh
           /\ draft[t] = NewRow(req[owner[t]])

\* The unique index also counts rows that are inserted but not committed.
IndexCoversDrafts ==
    \A s, t \in Tokens :
        Live(draft[s]) =>
            /\ SameDevice(draft[s], draft[t]) => s = t
            /\ SameDevice(draft[s], row[t]) => owner[t] = owner[s] /\ draft[t] # None

IInv ==
    /\ TypeOK
    /\ LockDiscipline /\ FreshIsPrivate /\ RotationKnowsItsRow /\ RotationSpends
    /\ DraftsAreRevocationsOrNew /\ IndexCoversDrafts
    /\ OneLivePerFamily /\ OneLivePerDevice /\ LifetimeIsAbsolute
=============================================================================
