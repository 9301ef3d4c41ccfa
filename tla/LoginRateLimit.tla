--------------------------- MODULE LoginRateLimit ---------------------------
(***************************************************************************)
(* Login throttling: the auth_rate_limits table                            *)
(* (app/repositories/auth_rate_limit_repository.py), the service that      *)
(* enforces it (app/services/login_security_service.py) and the part of    *)
(* the login and change-password handlers (app/api/auth.py) that consumes  *)
(* an attempt, checks a password and, on success, clears the counters.     *)
(*                                                                         *)
(* consume_auth_rate_limits is one transaction whose upserts keep their    *)
(* row locks until it commits, so it is one step; its clock is read before *)
(* the transaction, so it may be stale by the time the step is taken.      *)
(* Time is counted in ticks, Sec of them in a second, because the delay    *)
(* reported to the client is rounded to seconds.                           *)
(***************************************************************************)
EXTENDS Integers, FiniteSets

CONSTANTS
    Addresses,     \* client addresses (scope login_ip)
    Accounts,      \* account names (scope login_account)
    Threads,       \* request threads
    IpLimit, AccountLimit,
    Sec,           \* ticks in a second
    Window,        \* LOGIN_RATE_LIMIT_WINDOW_SECONDS, in ticks
    Retention,     \* one day, in ticks: older rows are cleaned up
    MaxNow,        \* bound on the clock
    Nothing        \* no row, no request

ASSUME LimitAssumption ==
    /\ IpLimit \in Nat \ {0} /\ AccountLimit \in Nat \ {0} /\ MaxNow \in Nat
    /\ Sec \in Nat \ {0} /\ Window \in Nat \ {0}
    /\ Retention \in Nat /\ Window <= Retention
    /\ Addresses \cap Accounts = {} /\ Nothing \notin Addresses \cup Accounts

VARIABLES
    now,       \* the clock
    count,     \* attempt_count of a key's row
    start,     \* window_started_at of a key's row, Nothing without a row
    progress, attempt,   \* each thread's progress and the request it serves
    admitted   \* history: password checks a key's current row has let through

throttleVars == <<now, count, start, progress, attempt, admitted>>

Keys == Addresses \cup Accounts

Limit(k) == IF k \in Addresses THEN IpLimit ELSE AccountLimit

Attempt == [ip: Addresses \cup {Nothing}, account: Accounts \cup {Nothing}, right: BOOLEAN, at: Nat]

NoAttempt == [ip |-> Nothing, account |-> Nothing, right |-> FALSE, at |-> 0]

CountersTypeOK ==
    /\ now \in 0..MaxNow
    /\ count \in [Keys -> Nat] /\ admitted \in [Keys -> Nat]
    /\ start \in [Keys -> Nat \cup {Nothing}]
    /\ progress \in [Threads -> {"idle", "consume", "verify", "clear"}]
    /\ attempt \in [Threads -> Attempt]

-----------------------------------------------------------------------------
(* Definitions called Mutant_... are deliberate mistakes that nothing refers *)
(* to: each replaces the definition after it to see a property fail.         *)

KeysOf(p) == {attempt[p].ip, attempt[p].account}

\* A request arrives with a password that is right or wrong; datetime.now().
Begin(p) ==
    /\ progress[p] = "idle"
    /\ progress' = [progress EXCEPT ![p] = "consume"]
    /\ \E ip \in Addresses, a \in Accounts, right \in BOOLEAN :
          attempt' = [attempt EXCEPT ![p] = [ip |-> ip, account |-> a, right |-> right, at |-> now]]
    /\ UNCHANGED <<now, count, start, admitted>>

\* DELETE ... WHERE window_started_at < now - 1 day.
CleanedUp(k, at) == start[k] # Nothing /\ start[k] < at - Retention

\* INSERT ... ON CONFLICT: a key without a row, or whose window is over, begins
\* a window with this attempt; any other counts it.  A count is only compared
\* with the limit, so the model stops counting one above it.
Mutant_EarlyWindow(k, at) ==
    start[k] = Nothing \/ CleanedUp(k, at) \/ start[k] <= at - Window + 1

BeginsWindow(k, at) == start[k] = Nothing \/ CleanedUp(k, at) \/ start[k] <= at - Window

CountAfter(k, at) ==
    IF BeginsWindow(k, at) THEN 1
    ELSE IF count[k] > Limit(k) THEN count[k] ELSE count[k] + 1

Mutant_StoreCutoff(k, at) == IF BeginsWindow(k, at) THEN at - Window ELSE start[k]

StartAfter(k, at) == IF BeginsWindow(k, at) THEN at ELSE start[k]

Mutant_OneMore(p) == {k \in KeysOf(p) : CountAfter(k, attempt[p].at) > Limit(k) + 1}

Exceeded(p) == {k \in KeysOf(p) : CountAfter(k, attempt[p].at) > Limit(k)}

Mutant_DelayTruncated(k, at) ==
    LET left == StartAfter(k, at) + Window - at
    IN  IF left < Sec THEN 1 ELSE left \div Sec

\* int(seconds) + 1 truncates towards zero, and the delay is at least a second.
Delay(k, at) ==
    LET left == StartAfter(k, at) + Window - at
        secs == IF left < 0 THEN 1 ELSE left \div Sec + 1
    IN  IF secs < 1 THEN 1 ELSE secs

\* The longest delay over the exceeded scopes, 0 when there is none.
RetryAfter(p) ==
    IF Exceeded(p) = {} THEN 0
    ELSE CHOOSE d \in {Delay(k, attempt[p].at) : k \in Exceeded(p)} :
            \A k \in Exceeded(p) : Delay(k, attempt[p].at) <= d

\* Every attempt is counted, also one that is rejected with a 429.
Consume(p) ==
    LET at == attempt[p].at IN
    /\ progress[p] = "consume"
    /\ count' = [k \in Keys |-> IF k \in KeysOf(p) THEN CountAfter(k, at)
                                ELSE IF CleanedUp(k, at) THEN 0 ELSE count[k]]
    /\ start' = [k \in Keys |-> IF k \in KeysOf(p) THEN StartAfter(k, at)
                                ELSE IF CleanedUp(k, at) THEN Nothing ELSE start[k]]
    /\ admitted' = [k \in Keys |->
          IF k \in KeysOf(p)
          THEN (IF BeginsWindow(k, at) THEN 0 ELSE admitted[k])
               + (IF RetryAfter(p) = 0 THEN 1 ELSE 0)
          ELSE IF CleanedUp(k, at) THEN 0 ELSE admitted[k]]
    /\ progress' = [progress EXCEPT ![p] = IF RetryAfter(p) = 0 THEN "verify" ELSE "idle"]
    /\ attempt' = [attempt EXCEPT ![p] = IF RetryAfter(p) = 0 THEN @ ELSE NoAttempt]
    /\ UNCHANGED now

Verify(p) ==
    /\ progress[p] = "verify"
    /\ progress' = [progress EXCEPT ![p] = IF attempt[p].right THEN "clear" ELSE "idle"]
    /\ attempt' = [attempt EXCEPT ![p] = IF attempt[p].right THEN @ ELSE NoAttempt]
    /\ UNCHANGED <<now, count, start, admitted>>

Clear(p) ==
    /\ progress[p] = "clear"
    /\ count' = [k \in Keys |-> IF k \in KeysOf(p) THEN 0 ELSE count[k]]
    /\ start' = [k \in Keys |-> IF k \in KeysOf(p) THEN Nothing ELSE start[k]]
    /\ admitted' = [k \in Keys |-> IF k \in KeysOf(p) THEN 0 ELSE admitted[k]]
    /\ progress' = [progress EXCEPT ![p] = "idle"]
    /\ attempt' = [attempt EXCEPT ![p] = NoAttempt]
    /\ UNCHANGED now

Tick ==
    /\ now < MaxNow
    /\ now' = now + 1
    /\ UNCHANGED <<count, start, progress, attempt, admitted>>

ThrottleInit ==
    /\ now = 0
    /\ count = [k \in Keys |-> 0] /\ admitted = [k \in Keys |-> 0]
    /\ start = [k \in Keys |-> Nothing]
    /\ progress = [p \in Threads |-> "idle"] /\ attempt = [p \in Threads |-> NoAttempt]

ThrottleNext == Tick \/ \E p \in Threads : Begin(p) \/ Consume(p) \/ Verify(p) \/ Clear(p)

ThrottleSpec == ThrottleInit /\ [][ThrottleNext]_throttleVars

-----------------------------------------------------------------------------
(* Properties. *)

\* However attempts overlap, the window of an address or an account never lets
\* more password checks through than its limit.
AdmittedWithinLimit == \A k \in Keys : admitted[k] <= Limit(k)

\* A counter is forgotten only when its window has passed by the clock of the
\* attempt that forgets it, or after a right password: no interleaving of stale
\* clocks, cleanups and clears shortens the window for anyone else.
WindowIsServed ==
    [][\A k \in Keys : start[k] # Nothing /\ start'[k] # start[k] =>
          \E p \in Threads : \/ Consume(p) /\ attempt[p].at >= start[k] + Window
                             \/ Clear(p) /\ attempt[p].right /\ k \in KeysOf(p)]_throttleVars

\* A client that waits as long as it was told is never turned away because of
\* the windows that turned it away now, rounding to seconds included.
RetryAfterSuffices ==
    [][\A p \in Threads : Consume(p) /\ RetryAfter(p) # 0 =>
          \A k \in KeysOf(p) : count'[k] > Limit(k) =>
              start'[k] <= attempt[p].at + RetryAfter(p) * Sec - Window]_throttleVars

-----------------------------------------------------------------------------
\* An admitted check was counted in the row it was admitted under.
AdmittedAreCounted ==
    /\ CountersTypeOK
    /\ \A p \in Threads : progress[p] # "idle" =>
          attempt[p].ip # Nothing /\ attempt[p].account # Nothing
    /\ \A k \in Keys : admitted[k] <= Limit(k) /\ admitted[k] <= count[k]
=============================================================================
