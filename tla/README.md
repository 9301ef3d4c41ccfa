# Formal models of the Life Stack backend

TLA+ modules that model the parts of the backend (`src/app`) in which the order
of events matters, TLC configurations that check them on small instances, and
proofs, checked with TLAPS, of what matters most for instances of any size.

The backend is a FastAPI application over PostgreSQL (psycopg, a connection
pool, READ COMMITTED). Handlers are synchronous functions that FastAPI runs in
a pool of threads, so any number of requests are served at once; nothing is
shared between them but the database and three external services (Enable
Banking, OpenAI, TMDB). There are no background jobs. What is hard is therefore
what happens *between the statements of a transaction* and *between the
transactions of a handler*, in particular around calls of external services.

`PROJECT.json` lists, in machine-readable form, the components, the runs, the
correspondence of definitions to source lines (`map`), the hazards with the
properties that cover them, and the theorems.

## 1. Inventory

| Component (source) | State | Operations | What is hard | What makes it correct |
|---|---|---|---|---|
| Refresh sessions (`repositories/refresh_session_repository.py`) | `refresh_sessions`: token hash, family, device, deadlines, revoked | create, rotate (with replay detection), four revocations | statements of concurrent transactions, row locks, the partial unique index, deadlock, lost connections | one usable token per family and per device; spent stays spent; deadlines are absolute; revocations reach what they saw; users are isolated |
| Login throttling (`repositories/auth_rate_limit_repository.py`, `services/login_security_service.py`) | `auth_rate_limits`: counter and window per address and per account | consume, clear, clean-up | clocks read before the transaction, window ends, rounding | no more checks than the limit; nobody shortens a window; `Retry-After` is enough |
| Authentication handlers (`api/auth.py`, `services/auth_service.py`, `config.py`) | names, password hashes, addresses, allowlist, families | registration, login with hash upgrade, refresh, logout, session list, password change, profile | handlers of several transactions that race; redeployment | the allowlist holds; a change revokes what was there |
| Invoicing (`repositories/invoice_repository.py`, `api/invoicing.py`, `services/invoice_service.py`) | businesses, clients, invoices, items, payments, assets | drafts, numbering, issue, pay, un-pay, credit, logo | long sequences of legal calls, numbering across years, deletion order, rounding | numbers without gaps, issued is immutable, status equals payments, a credit note cancels to the cent |
| Banking (`api/banking.py`, `repositories/bank_repository.py`, `services/bank_sync_service.py`) | connections, accounts, transactions, imported expenses; consents at the provider | start, complete, sync, import, ignore, disconnect | provider calls between transactions, overlapping syncs, late answers, failures half-way, which days and pages a sync asks for | imports are final booked debits, once; history is kept; a pending connection owns nothing; of what the bank reports nothing is missed but what section 5 lists |
| To-do assessments and AI work (`api/todos.py`, `repositories/todo_ai*_repository.py`, `services/todo_ai*_service.py`) | to-do, assessment, work session, messages | edit, delete, assess, start, continue, edit draft | answers that arrive up to a minute later, edits meanwhile, resets without a lock | staleness is honest, nothing outlives a to-do, no handler leaves a session ready without a draft |
| Net worth (`api/net_worth.py`, `repositories/net_worth_repository.py`, `services/net_worth_service.py`) | items, links to bank accounts, snapshots of days | CRUD, snapshot of all items, history, summary | check and insert in two statements, snapshots that race with changes, backdated days, midnight, fractions of a cent | an account counts once; items have a history; the history ends, to the cent, in the summary |
| Recurring expenses (`api/recurring_expenses.py`, `repositories/recurring_expense_repository.py`, `services/recurring_forecast_service.py`) | rows, no interaction | CRUD, coverage | month ends and leap days | every payment is counted exactly once |
| Expenses, movies, PDF, branding, profile, shell | rows, one statement per request | CRUD, prompts, layout | little | not modelled but for imported expenses, see section 8 |

Interactions: the authentication handlers call the throttling service, then
the users table, then the session repository; every authenticated request asks
the session repository whether its family is active. A sync writes the
transactions that a review turns into expenses; deleting an expense detaches
it. A net-worth item may be linked to a bank account, whose balance it then has
and whose currency a sync may change. Everything else is scoped
to one user and one table family.

## 2. Modules

| Module | Models | Checked by | Proofs |
|---|---|---|---|
| `SessionFamilies` | the abstract promise of the session repository | refined by `RefreshSessions` | refined by `RefreshSessions` and by `AccountSessions` |
| `RefreshSessions` | its six functions, statement by statement | `MCRefreshSessions`, 3 runs | `RefreshSessionsProofs` |
| `LoginRateLimit` | throttling | `MCLoginRateLimit`, 1 run | `AuthProofs` |
| `AccountSessions` | the authentication handlers, transaction by transaction, over what `RefreshSessions` shows of the table | `MCAccountSessions`, 1 run | `AuthProofs` |
| `InvoiceMoney` | the arithmetic of invoice items | with `Invoicing` | `InvoicingProofs` |
| `Invoicing` | invoicing, one action per handler; extends `InvoiceMoney` | `MCInvoicing`, 1 run | `InvoicingProofs` |
| `Banking` | connections, synchronisation and review, with provider and bank: who may write what, and when | `MCBanking`, 1 run | `BankingProofs` |
| `BankFeed` | which payments a sync asks for, which reports it skips, and the keys it stores them under | `MCBankFeed`, 1 run | `BankFeedProofs` |
| `TodoWork` | one to-do, its assessment and its work session | `MCTodoWork`, 1 run | `TodoWorkProofs` |
| `NetWorth` | net-worth items, snapshots, history and summary | `MCNetWorth`, 1 run | `NetWorthProofs` |
| `RecurringForecast` | recurring expenses and their forecast over a calendar | `MCRecurringForecast`, 2 runs | `RecurringForecastProofs` |

The `MC` modules add the symmetry sets and the inputs of the instances: lists
of items (`MCInvoicing`), requests and balances (`MCNetWorth`), the calendar of
2024 to 2026 with a dozen commitments (`MCRecurringForecast`). Definitions
called `Mutant_...` are deliberate mistakes of the kind a change of the code
could introduce (a dropped guard, a missing reset, an off-by-one). Nothing
refers to them; put in place of the definition they stand before, each makes
one property fail. They document that the property depends on the code and not
on the shape of the model; every property of every passing run has one.

### Granularity

How much of a handler one action stands for follows from PostgreSQL:

* **Statement level** (`RefreshSessions`, `NetWorth`). Each statement takes its own
  snapshot (`Scan`), an UPDATE reaches one row at a time and waits for locks
  (`UpdateRow`), looks at the row again once it has it, and nothing is visible
  before `Commit`. `draft` is the uncommitted version of a row and `owner` its
  row lock. The INSERT waits for, or fails on, other rows of the partial
  unique index (`Undecided`, `Duplicate`). A thread may be the deadlock
  detector's victim or lose its connection at any point.
  In `NetWorth` what a transaction has written stays in `req` until `Commit`;
  a second transaction waits for the same row, link or (item, day). `Abort` is
  every way of ending without effect: an item that is gone (404), a unique
  link, a lost connection, a deadlock. The two SELECTs that validate a link are
  one step. The shared lock that a snapshot takes on its item is left out where
  where it could only make an update wait.
  In `RefreshSessions` the `SELECT ... FOR UPDATE` of a rotation and the
  statement after it are one step (`LockToken`): what others do in between
  neither needs that lock nor changes that row, so it could as well have
  happened before.
* **Transaction level** (`AccountSessions`, `Banking`, `BankFeed`, `TodoWork`). Each
  transaction and each provider call is an action; everything else may happen
  in between. Where a transaction reads without a lock and then writes, it is
  split: a revocation keeps what its UPDATE found (`scope`), starting a bank
  connection keeps what its DELETE found (`req.pending`), a reset of a work
  session is `FindSession`, `WipeMessages`, `ResetSession`.
* **Handler level** (`Invoicing`, `LoginRateLimit`'s consume,
  `RecurringForecast`). The handlers of
  `Invoicing` lock the invoice, then the business, before they decide and keep
  both until the commit; the upserts of the throttle keep their row locks
  until the commit. So each takes effect at once. Recurring expenses change by
  single statements, and their forecast is a pure function.

A request that is refused changes nothing and is no step; where a handler has
already done something, its failure is an action (`Fail`, `Die`,
`ConnectionLost`, `ReplyFails`, `FetchFails`).

### State and code, module by module

* `RefreshSessions`: `row` is the table, keyed by token hash; `req[p]` holds
  the arguments of the call thread `p` serves; `todo`/`seen` are the rows its
  UPDATE found. The WHERE clauses of the six functions are `Matches`. Clocks
  are read at `Begin...` and may be stale afterwards. The time a row was
  revoked is not read by the code and is a Boolean.
* `LoginRateLimit`: `count` and `start` are the row of a key; `admitted` is a
  history variable counting the password checks a window let through. Counting
  stops one above the limit, because a count is only compared with it. `Sec`
  ticks make a second, so that the rounding of `Retry-After` is visible. Its
  names differ from those of `AccountSessions` (`attempt` and `req`, `Threads`
  and `Proc`, `ThrottleSpec` and `Spec`), so that `AuthProofs` can extend both
  halves of `api/auth.py`.
* `AccountSessions`: `hash[u]` is the secret a hash is of and whether it is a
  bcrypt hash; `family` a session family with its generation (its live row);
  `scope` the generations a running revocation found. `hash` and `email` are
  `None` for a name that is not registered; the two lookups of a registration
  are one step, because the unique columns decide at its INSERT. An empty
  allowlist in development means that every address is allowed, which is the
  value `allowed = Emails`.
* `Invoicing`: an invoice has its items; prices are in cents, quantities in
  thousandths, tax rates in hundredths of a percent, and `InvoiceMoney` rounds
  as the code does. The items of a credit note have negative prices. Numbers
  are prefix, year and sequence number. `business[b].next` and `.year` are the
  counter. `asset` are stored logos; signatures work in the same way.
* `Banking`: `bank` and `consent` are external: the transactions of an account
  and the sessions the provider accepts. `req.reports` is what a sync fetched
  and has not stored yet. Transactions are identified by the bank's stable
  reference.
* `BankFeed`: time is counted in days, the unit of `date_from`. `bank` is what
  the bank now reports of each payment, pending or booked, usable or without
  amount or date, under a date it may give up to `Late` days late; `row` are the
  fingerprints stored, `settled` those stored as booked; `last` is the
  watermark. A payment without a stable reference has a fingerprint made of its
  account, its looks (`Look`: direction, amount, text, balance after it) and its
  date. The model has history: where the first sync began (`origin`), what was
  on pages nobody read (`cut`), and the payments whose reports went into a row
  (the second part of `row`), because payments that look the same share one.
* `TodoWork`: the text of a to-do is one of `Contents`, which is what the
  fingerprint tells apart. A text of the assistant is identified with the
  content it was generated from; `UserText` is what the user wrote, and `Blank`
  a text of which `strip()` leaves nothing, the user's or the assistant's.
* `NetWorth`: `account` is what a sync stores of a bank account, `item` and
  `snap` are the tables. Amounts are in cents. Kind and ownership of an item are
  one signed factor, `share`, in hundredths of a percent as the column has them,
  so that a sum counts ten-thousandths of a cent; the division in SQL is exact for
  amounts below ten billion. `overtaken` is history: the items that changed behind their newest
  snapshot, for which the last point of the history may rightly differ from
  the summary. `History` and `Summary` are the two read paths: the one as SQL adds
  it up, from a day `from` on, the other rounded by `Cents`.
* `RecurringForecast`: dates are day numbers, and `First`, the day on which each
  month begins, is a constant: any calendar whose months have 28 days or more.
  `Occurrence`, `FirstIndex` and `Counted` are `_occurrence_date`,
  `_first_candidate_index` and the loop of `count_occurrences`; `IsDue` says
  what is due without counting.

## 3. Runs and bounds

Every run takes less than four minutes. Symmetry is used only where no liveness
property is checked. Deadlock is checked everywhere except in `TodoWork`,
where deleting the to-do is the end.

| Run | Shows | Bounds |
|---|---|---|
| `RefreshSessions_safety` | one live token per family and device, deadlines are absolute, revocations revoke what they saw, users are isolated, and the table implements `SessionFamilies` | 2 users, 2 families, 3 tokens, 2 devices, 2 threads, clock 0..2, lifetime and idle limit 2 (1.7 million states) |
| `RefreshSessions_liveness` | every call ends | 2 families, 3 tokens, 2 threads, no symmetry |
| `LoginRateLimit` | limit, window, `Retry-After` | 1 address with limit 2, 2 accounts with limit 1, window 3 ticks, 2 ticks a second, clock 0..4 |
| `AccountSessions` | no session for an address that is not allowed; a change revokes what was live | 2 names, registered or not, 3 addresses (so that one is free to move to and one is taken), 2 secrets, 2 families, 2 threads, one rotation each |
| `Invoicing` | status, credits to the cent, immutability, numbers without gaps, parties and logos stay consistent | 2 businesses, 2 clients, 3 invoices, 2 payments, 1 logo (removed and uploaded anew; that another one takes its place is covered by the proof), 2 years; three lists of items, one free, one that rounds half a cent up, one of two lines with a tax that is rounded; totals to 2 (unpaid, partly paid, paid) |
| `Banking` | imports, stored transactions, history | 2 connections that share 1 account, 2 sessions, 1 transaction, 2 amounts, 2 handlers |
| `BankFeed` | nothing is missed but for four exceptions, only full pages are cut, booked rows are real | 1 account (what a sync does with others is a delay between its steps on this one), 2 payments that look the same, without reference (the harder case: with one, a key never changes; the proof has all), 2 syncs, 1 page of 1, clock 0..2, reports and syncs up to a day late, overlap and first window 2 days (5.4 million states) |
| `TodoWork` | nothing outlives a to-do, honest staleness, no handler leaves a session ready without a draft | 2 contents, a blank text, 3 messages, 2 handlers; any answer: a known or unknown phase with a text, a blank one or none |
| `NetWorth` | accounts count once, items have history, the history ends in the summary | 2 items, each a cent of which half is owned, or a debt, active or inactive, of half the balance of the one bank account, which is overdrawn by 3 cents when it reports, so that sums end in half a cent; 2 currencies, 2 transactions, 2 days (4 million states) |
| `RecurringForecast` | every payment is counted once, the covered total is what falls due | 2 rows out of 12 commitments of all frequencies, that begin on a 29th, 30th, 31st, a 29 February and the first day after it; ends of months of 2024 and 2025; horizons of 1, 31 and 366 days |

Why these are enough to be of use: every conflict in the code is between two
requests on one row or one key (a row lock, a unique key, a row read before it
is written), which needs two threads; a third token, family or invoice lets a
third party be the victim of the two. In `RefreshSessions_safety`, lifetime and
idle limit can both expire within the bound. In the throttling run a window
ends, is cleaned up and begins again within the bound. Two contents suffice for
a to-do because an overtaken answer needs an old and a new one. In `BankFeed`
two payments overflow the page of an account or share a fingerprint, a report
may be unusable when it is fetched and not later, and the watermark is passed by a midnight, by a late report and by another sync. In
`NetWorth` the second day lets a snapshot be backdated and a transaction pass
midnight. The calendar of `RecurringForecast` has every length of month and the
change from a leap year to others. Every action of every model fires in the
runs. Where there are proofs, they remove the bounds; `TypeOK` of
`RefreshSessions` and of `Invoicing` is proved and not run again.

The remaining two runs end with a violation on purpose, see section 5.

## 4. Fairness

`RefreshSessions_liveness` is the only liveness run: calls there wait for each
other. `FairSpec` assumes strong
fairness of each thread's statements and weak fairness of the deadlock
detector. The first is what PostgreSQL's lock manager gives: waiters for a row
queue in order, so a transaction whose next statement becomes possible again
and again is eventually served. The second is `deadlock_timeout`: a waiting
cycle lasts until a victim is chosen. No fairness is assumed of clients, of
the clock, or of failures. The other models state no liveness: a handler there
ends when its provider answers or times out, which nothing in the code can
delay.

## 5. Disagreements the models found

Each of two runs checks one statement of the repository and ends in a
counterexample; the wording and the lines are in `PROJECT.json`, `findings`.

| Run | Statement | What the code does |
|---|---|---|
| `RefreshSessions_revocation` | README.md:252, revocation takes effect | the revoking UPDATE does not see the successor that a rotation inserts while it waits; the family lives on |
| `RecurringForecast_ended` | README.md:31, the forecast respects end dates | what is left of a commitment is counted from the day of the forecast to its end, which is an error once the end has passed (`recurring_forecast_service.py:113` and `55`); one ended commitment makes the whole forecast fail |

The models contain these behaviours as well, for which there is no run:

* a login that verified the old password upgrades its hash after a password
  change and so restores the old password (README.md:247, `auth.py:211`):
  `BeginLogin`, a whole change, `UpgradeHash`;
* two password changes that verified the same old password both succeed
  (README.md:254: changes require the current password): `VerifyChange` of
  both, then `WritePassword` of both;
* a login that verified the old password opens its session after a change has
  revoked the others (README.md:254): `BeginLogin`, a whole change,
  `OpenSession`. `ChangeRevokesWhatWasThere` is what does hold;
* a rotation that waits for its row decides with the time it read before: a
  token may be rotated after its deadline or its idle limit
  (`refresh_session_repository.py:57`): `BeginRotate`, `Tick`, `LockToken`. The
  successor has the same deadline, which is what `LifetimeIsAbsolute` says;
* two registrations of one name or address both find it free, and the INSERT of
  the loser raises a `UniqueViolation` nobody handles, an error instead of a
  refusal: `BeginRegister` of both, then `CreateUser`;
* the counter of a business restarts at 1 in a year that is not its own
  (`invoice_repository.py:477`), also when it returns to a year that was used
  before; issuing then meets the unique number (`schema.sql:440`) and fails, and
  stays there: `IssueInvoice` in one year, in another, in the first again;
* deleting a payment of a credited invoice derives its status from the payments
  alone, so that it can be credited a second time: `CreateCreditNote`,
  `DeletePayment`, `CreateCreditNote`;
* a disconnect that read the connection while it was PENDING does not revoke
  the consent of a completion that commits before its UPDATE (README.md:290):
  `DisconnectBank`, `AuthorizeConnection`, `Disconnect`;
* a sync under way marks a disconnected connection AUTHORIZED, or ERROR, again:
  `Disconnect`, `MarkSynced`;
* a payment without stable reference that is booked under another date, or
  whose balance changes, has another fingerprint and becomes a second row
  (`bank_sync_service.py:72`; README.md:169 speaks of reconciling pending
  transactions):
  `BankPosts`, a sync, `BankBooks`, a sync. `BookedRowsAreReal` is what holds;
* more reports than twenty pages hold are dropped and the watermark moves on
  (`bank_sync_service.py:251`): an exception of `NothingIsLost`, with payments
  from before the first sync's window;
* a report without an amount or a date is skipped without a trace, and the
  watermark moves on (`bank_sync_service.py:99` and `103`). If the bank
  completes it under a date before the overlap, nobody asks for it again: the
  third exception;
* two payments without reference that look the same on one day have one
  fingerprint and one row (`bank_sync_service.py:72`); the user sees one of
  them: the fourth exception. `FeedMergesOnlyAlike` says that no others meet;
* a snapshot of all items that waits for an update of an item replaces today's
  snapshot by the version it had read before: `ReadItem`, `WriteOver`, `Commit`,
  `InsertSnapshot`. A snapshot for an earlier day stores the value of now.
  Inactive items stay in the history and are not in the summary, and an item
  that leaves a currency stays in the last point of its history. For these
  reasons the two may differ, and `HistoryMeetsSummary` excepts such items;
* the summary is rounded to the cent (`net_worth_service.py:20`) and the points
  of the history are not (`net_worth_repository.py:177`): of a cent of which half
  is owned the one says 0.00 and the other 0.005. `HistoryMeetsSummary` says
  that they agree once the point is rounded in the same way;
* the history starts at `date_from`, a year ago by default
  (`api/net_worth.py:84`). If every snapshot of a currency is older, it is empty
  although the summary is not;
* a draft of white space passes the length check, which comes before `strip()`
  (`api/todos.py:61` and `179`): the session is DRAFT_READY, and the PDF is
  refused because there is no draft (`api/todos.py:193`): `SaveDraft`.
  `OnlyUsersBlankDrafts` says that nothing else leaves such a session;
* a sync changes the currency of an account (EUR when the bank gives none,
  `bank_sync_service.py:140`) under an item that had to match it when it was
  written (`net_worth_repository.py:47`): `Sync` after `Commit`;
* an ongoing work session continues when its to-do has changed (TODO.md:30;
  `api/todos.py:154` does not compare fingerprints), and an answer is written to
  a session that was reset meanwhile (`todo_ai_work_repository.py:118`):
  `Continue` after `UpdateTodo`, or a whole start between `Reply` and `ApplyTurn`;
* of two starts after one change of a to-do, the slower deletes what the faster
  has already generated for the new task: `FindSession` of both, then
  `ResetSession` of both;
* an answer of the provider that is not JSON raises an exception that
  `continue_todo_ai_work` does not expect, and the user's message stays without
  an answer (`test_todo_ai_work_routes.py:82` shows the expected case):
  `ReplyRaises`.

Observed while reading and not the subject of a run: `create_client` and
`update_client` always raise, because `get_business` without a cursor uses
`get_connection()`, a context manager, without entering it (README.md:236
lists client CRUD) - the model has no action for them for that reason; the
status `EXPIRED` of a bank connection is never set; an imported expense
carries no currency; weekly and monthly reserves of a forecast divide by 52 and
12 whatever `horizon_days` is; the throttling window is configured in seconds
without an upper bound while rows are kept for a day (`config.py:60`), so a
window longer than a day forgets attempts.

## 6. What is proved

The proofs hold for every value of the constants that satisfies the named
assumptions, that is for any number of users, families, tokens, devices,
threads, payments, invoices and commitments and any limits.

**`RefreshSessionsProofs`** (assumptions: `NoneAssumption`, `TimeAssumption`,
`RowAssumption`, which only say that `None` is no value and times are numbers):

* `TypeCorrect`, `AtMostOneLivePerFamily`, `AtMostOneLivePerDevice`,
  `DeadlineNeverExtended`: `TypeOK`, `OneLivePerFamily`, `OneLivePerDevice` and
  `LifetimeIsAbsolute` are invariants of `Spec`.

None of the three is inductive: two rotations each hold an uncommitted
successor, so what keeps the committed table right is a fact about drafts and
locks. `IInv` adds it in named parts:

* `LockDiscipline`: an uncommitted version exists only under a lock, held by a
  transaction past its first statement;
* `FreshIsPrivate`: a new token or family is known to one thread only;
* `RotationKnowsItsRow`: what a rotation remembers of its row stays true
  (family, user and deadline of a row never change);
* `RotationSpends`: from the decision to rotate until the commit, the committed
  row is live, locked by this thread and drafted as spent - so nobody else can
  spend it, and the successor replaces it in the same commit;
* `DraftsAreRevocationsOrNew`: an uncommitted version is a revocation of the
  committed row or the new row of a transaction that is ready to commit, so a
  commit can only end sessions and add one;
* `IndexCoversDrafts`: the unique index also holds between uncommitted rows.

The proof
shows that `Init` implies it and that each action preserves it, one step per
action; `Commit` is the hard one.

What a call may do to rows it did not select needs more than `IInv`, and `SInv`
adds it: the rows an UPDATE found are drafted as revoked, still to be visited,
or no longer live (`UpdateCoversSeen`); a logout knows the family and the user
of the token it was given (`LogoutKnowsItsRow`); a draft is of a row of the
user of the call (`DraftsAreOwn`), which is not obvious for a replay and a
logout, whose UPDATE selects by family alone; and a rotation drafts its row and
its successor only (`RotationDraftsTwo`). From it follow

* `RevocationMissesNothing` and `UsersAreIsolated`: the action properties
  `RevokesWhatItSaw` and `IsolatesUsers`;
* `TableKeepsPromise`: the refinement `KeepsPromise`. The initial table maps to
  the initial state of `SessionFamilies`; a commit maps to `Open` (with the
  families of the same browser profile that it ends), `Rotate` or `End`, and
  every other step, which writes drafts and locks only, to a stutter.

**`AuthProofs`**, throttling (assumption `LimitAssumption`; it includes
`Window <= Retention`: the window is configured in seconds, 900 by default, and
rows are kept for a day):

* `ThrottleTypeCorrect` and `ThrottleLimits`: `CountersTypeOK` and
  `AdmittedWithinLimit`. The limit is not inductive by itself;
  `AdmittedAreCounted` adds that the checks a window admitted are also counted
  in its row, because an attempt is admitted only after it was counted and both
  are forgotten together;
* `WindowsAreServed`: the action property `WindowIsServed`, from
  `ClearsAfterRight` (counters are cleared only on behalf of a right password);
* `DelaySuffices`: the action property `RetryAfterSuffices`. Truncation loses
  less than the second that is added (`WholeSeconds`), so each exceeded scope's
  delay reaches the end of its window (`DelayReachesTheEnd`), and the reported
  one is the longest (`RetryAfterIsLongest`).

**`AuthProofs`**, handlers (assumptions: `NoneAssumption`, `RecordAssumption`,
`None` is no value and no row):

* `HandlersTypeCorrect`, `AllowlistHolds`, `ChangeRevokes`: `TypeOK` is an
  invariant of `AccountSessions`, and its action properties `AllowlistEnforced`
  and `ChangeRevokesWhatWasThere` hold;
* `HandlersKeepPromise`: `AccountSessions` implements `SessionFamilies`, with a
  generation as a token: opening a session is `Open`, a rotation `Rotate`, the
  commit of a revocation `End`, every other step a stutter. `RefreshSessions`
  implements the same module (`TableKeepsPromise`), so the two models of the
  session table cannot drift apart: no family lives again and no spent token
  becomes current in either.

`HandlerInv` says of every thread what it found in an earlier transaction and
still relies on: between the check of a login and the opening of its session
the address of the user is allowed, and an address about to be written is
allowed (`KeepsToAllowlist`); the tokens a password change found belong to
families of its user that have not gone back a generation (`BeforeIsPast`); a
revocation that is under way reaches each of them that is still live and not
kept (`ScopeCoversBefore`). Each step of another thread must keep this. Two
facts about every step but a redeployment are enough: no family changes its
user, goes back or lives again (`Ages`), and who had an allowed address has one
(`StaysAllowed`); a redeployment may change the allowlist because no request
survives it.

**`InvoicingProofs`** (assumptions: `RowAssumption`, no row is `None`, and
`InvoicingAssumption`, years are positive and the lists of items that requests
contain are finite and have totals from 0 to `MaxTotal`):

* `CreditedLineCancels`: the net amount and the tax of a line with the negated
  price are the negated ones, for every quantity, price and rate, because a half
  is rounded away from zero; `CreditedTotalCancels`: so is the total of a list
  of any length;
* `InvoicingTypeCorrect`, `NumbersNeverHaveGaps`, `PartiesAlwaysBelong`,
  `LogosStay`: `TypeOK`, `NumbersHaveNoGaps`, `PartiesBelong` and
  `SnapshotsKeepTheirLogo` are invariants;
* `StatusAlwaysMatches` and `CreditsAlwaysCancel`: so are
  `StatusMatchesPayments` and `CreditsCancel`;
* `IssuedNeverChanges`: the action property `IssuedIsImmutable`.

The inductive invariant adds: a draft has neither number nor snapshot, and is an
invoice (`DraftsAreBlank`); the items of an invoice are not negated
(`InvoicesArePlain`); the logo of a business is its own (`LogosAreOwn`), without
which a snapshot could lose its logo to another business; and in the year of
the counter every number below it was given out (`CounterIsReached`), without
which the next number could leave a gap. A counter that restarts keeps all of
this: the number it tries next is 1, or one above a number it gave out, and is
either free or refused. For the money it adds that payments are finitely many
and of stored invoices (`Paying`), that a total is the one of the stored items
and that a draft credits nothing (`Crediting`).

Sums over payments and items are `SumFunction` of the community modules, a fold.
What a proof needs of it - it is an integer, it is not negative when the terms
are not, one term more or less changes it by that term, negated terms negate
it - is proved by looking at a smallest counterexample: the subsets of a finite
set are well-founded under strict inclusion (`WFMin`), which needs no operator
parameter.

**`BankFeedProofs`** (assumptions: `NoneAssumption`; `FeedAssumption`, limits
are numbers; `OverlapAssumption`, the overlap is at least the days a report may
be late plus the days a sync may take, and at most the first window). The
defaults, 31 and 3 days, satisfy the last one for a bank that is two days late.
The accepted settings need not (`config.py:74`: from one day, `config.py:75`:
from zero), and then payments are missed:

* `FeedTypeCorrect`, `FeedLosesNothing`, `FeedInventsNothing`,
  `FeedCutsOnlyFullPages`: `TypeOK`, `NothingIsLost`, `BookedRowsAreReal` and
  `OnlyFullPagesCut` are invariants, for payments with and without reference;
* `FeedMergesOnlyAlike`: only payments of one account that look the same and
  have no reference ever share a row, so that the last exception of
  `NothingIsLost` is as narrow as the fingerprint.

`NothingIsLost` speaks of the watermark; that it survives `MarkSynced` depends
on what each sync has seen. `IInv` records it, leaving aside who else is in a
row (`NoReportMissed`): a sync is `Timely`, it `ReachesBack` far enough for
whatever watermark another one sets meanwhile; what it has `Processed` is in the
inbox, cannot be used, was before its window, or was reported since under a date
near its start; what it has `Fetched` and not saved is still what the bank
reports, or of that kind (`AnswersAreReports`, `Stages`, `OriginIsFirst`). That
rows are only shared by payments that look the same is `RowsAreTheirs`.

**`BankingProofs`** (assumptions: `NoneAssumption`, `RecordAssumption`):

* `TypeCorrect`, `OnlyEmptyConnectionsGo`, `StoredNeverAhead`, `ImportsAreFinal`:
  `TypeOK`, `PendingOwnsNothing`, `StoredFollowsBank` and
  `ExpensesAreBookedDebits` are invariants;
* `NothingSyncedIsLost`: the action property `HistoryIsKept`.

A sync saves what it fetched before others saved what they fetched later. That
this does no harm depends on what is in flight: `HandlersKnow` says that the
bank may have moved on from an answer but never contradicts it (`Follows`), for
every thread and whatever the bank does. `ReviewsMatch` ties an expense and its
transaction together, so that the import of a booked debit is final although
saving and reviewing overlap.

**`TodoWorkProofs`** (assumption `DistinctAssumption`, the texts, the blank one
and `None` differ):

* `TypeCorrect`, `DeletedStaysDeleted`, `FreshIsAboutNow`: `TypeOK`,
  `NothingOutlivesTodo` and `FreshnessIsReal` are invariants;
* `HandlersGiveDrafts`: the action property `OnlyUsersBlankDrafts`.

`FreshnessIsReal` compares an assessment with a to-do that may have been edited
while the provider was working; it follows from `MarksWhatItSaw`, an assessment
carries the fingerprint of what it is about. `HandlersKnow` says that a turn
that waits to be applied says that a draft is ready only together with one.

**`NetWorthProofs`** (assumption `InputAssumption`: values are not negative,
balances and shares are integers, inputs are rows):

* `TypeCorrect`, `OneItemPerAccount`, `HistoryIsComplete`, `HistoryEndsInSummary`:
  `TypeOK`, `AccountsCountOnce`, `ItemsHaveHistory` and `HistoryMeetsSummary`
  are invariants;
* `CentsAreNearest`: `quantize` moves a sum by half a cent at most, leaves whole
  cents alone, and treats what is owed like what is owned, so a point of the
  history and the summary are never further apart than that.

Several transactions write at the same time and see only what is committed.
`HeldApart` says that rows which are written and not committed keep others from
their item and their account, `TransactionsKnow` what a transaction has read and
written, `ShownItemsExist` and `HistoryGrounded` that snapshots are of items
that are there, and `ReadsAreCurrent` and `NewestIsCurrent` that a snapshot of
an item that nothing overtook is the item. The last one makes the sums of the
history and of the summary equal term by term, and so their rounded values.

**`RecurringForecastProofs`** (assumptions: `CalendarAssumption`, months follow
each other and have 28 days at least; `InputAssumption`):
`ForecastTypeCorrect`, `ForecastCountsExactly`, that is `CountIsExact`, and
`ForecastCoversWhatFallsDue`, that is `CoveredIsWhatFallsDue`. For
every calendar, every commitment and every range the loop counts as many
payments as are due. It is an argument about the data: dates increase with the
index (`OccurrencesIncrease`), those before the first candidate are before the
range (`NothingIsSkipped`), what the loop counts is due
(`CountedAreInRange`), what is due has an index (`DueIsOccurrence`), and so
indexes and days are in bijection (`CountedMatchDueDays`). The total adds up the
payments of finitely many commitments (`StoredAreFinite`), each of which counts
as often as it is due; the sums are reasoned about as in `InvoicingProofs`.

## 7. What is only model-checked

* Liveness (`CallsEnd`): fairness and ENABLED are out of the prover's reach.

Every other property of a passing run is stated by a theorem. The runs still
earn their place: they fire every action, TLC has also checked the inductive invariants
on the same instances, and the runs evaluate the assumptions
of the theorems. The two properties of section 5 are
violated, and nothing is proved about them.

## 8. What is not modelled

* JWT and cookie encoding, password hashing, encryption of provider tokens,
  prompts, PDF layout, image checks: pure functions, judged by other means.
* Listings and other reads that decide nothing.
* Avatars, language, the other profile fields; movies; creating and changing
  expenses: user-scoped writes of one statement, at most guarded by a unique
  constraint whose violation is handled, with nothing to interleave. Movie
  recommendations are scores and prompts that are not stored.
* Defaults of a business; signatures (as logos); validation of addresses and tax
  numbers, which only refuses requests; cancellation terms of a recurring
  expense, which decide nothing.
* Batches of assessments: `TodoWork` has one to-do. Two batches could meet the
  same rows in different orders and deadlock, which PostgreSQL resolves.
* The suggested category of a bank transaction, and the consent's expiry at the
  provider other than as a call that fails.
* The size of the connection pool: a checkout that times out is a lost
  connection or a failed handler.
* Migrations and seed data.

## 9. Plan

Done, in this order: `RefreshSessions` with `SessionFamilies` (the most
delicate code, and every other handler relies on it), its proofs,
`LoginRateLimit` and its proofs, `AccountSessions`, `Invoicing`, `Banking`,
`TodoWork`; then `BankFeed`, `InvoiceMoney`, `NetWorth`, `RecurringForecast`,
registration, and the proofs of `BankFeed`, `RecurringForecast` and `Invoicing`;
then the action properties and the refinement of `RefreshSessions`, and the
proofs of `TodoWork`, `Banking`, `NetWorth`, `AccountSessions`, the rest of
`LoginRateLimit`, and the sums of `Invoicing` and `RecurringForecast`.

Left, modelling: the de-duplication of movie recommendations, if it comes to be
stored; a statement-level `LoginRateLimit` that implements the present one;
batches of assessments.

Left, proving: that a revocation ends the generations its UPDATE found is an
action of `AccountSessions` and a theorem about `RefreshSessions`
(`RevocationMissesNothing`); `SessionFamilies` does not say it, because it has no
statements. For `BankFeed`, that the overlap of `OverlapAssumption` is also
necessary.
