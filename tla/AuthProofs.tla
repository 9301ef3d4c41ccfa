----------------------------- MODULE AuthProofs -----------------------------
(***************************************************************************)
(* Proofs about the two models of app/api/auth.py.  LoginRateLimit, for any *)
(* limits, window, number of threads and staleness of their clocks: how    *)
(* many password checks a window lets through, that a window is served,    *)
(* and that the reported delay suffices.  AccountSessions, for any users,  *)
(* addresses, secrets, families and threads: the allowlist, what a password *)
(* change revokes, and that the session table is used as it promises.      *)
(***************************************************************************)
EXTENDS AccountSessions, LoginRateLimit, TLAPS

-----------------------------------------------------------------------------
(* Throttling. *)

\* What the quotient of a duration and a second is.
LEMMA WholeSeconds ==
  ASSUME NEW x \in Nat
  PROVE  x \div Sec \in Nat /\ x < (x \div Sec + 1) * Sec
<1>1. Sec \in Nat \ {0}
  BY LimitAssumption
<1> QED BY <1>1, SMTT(30)

\* The delay of an exceeded scope is at least a second, and reaches to the end of
\* its window although seconds are truncated.
LEMMA DelayReachesTheEnd ==
  ASSUME AdmittedAreCounted, NEW k \in Keys, NEW at \in Nat
  PROVE  /\ Delay(k, at) \in Nat \ {0}
         /\ StartAfter(k, at) \in Nat
         /\ StartAfter(k, at) + Window - at <= Delay(k, at) * Sec
<1> DEFINE left == StartAfter(k, at) + Window - at
<1>1. StartAfter(k, at) \in Nat /\ Window \in Nat /\ Sec \in Nat \ {0}
  BY LimitAssumption DEF StartAfter, BeginsWindow, AdmittedAreCounted, CountersTypeOK
<1>2. left \in Int
  BY <1>1
<1>3. CASE left < 0
  <2>1. Delay(k, at) = 1
    BY <1>3 DEF Delay
  <2> QED BY <1>1, <1>2, <1>3, <2>1
<1>4. CASE ~(left < 0)
  <2>1. left \in Nat
    BY <1>2, <1>4
  <2> HIDE DEF left
  <2>2. left \div Sec \in Nat /\ left < (left \div Sec + 1) * Sec
    BY <2>1, WholeSeconds
  <2>3. Delay(k, at) = IF left \div Sec + 1 < 1 THEN 1 ELSE left \div Sec + 1
    BY <1>4 DEF Delay, left
  <2>4. Delay(k, at) = left \div Sec + 1
    BY <2>2, <2>3
  <2>5. Delay(k, at) \in Nat \ {0} /\ left <= Delay(k, at) * Sec
    BY <1>1, <2>1, <2>2, <2>4
  <2> QED BY <1>1, <2>5 DEF left
<1> QED BY <1>3, <1>4

\* The reported delay is one of the delays of the exceeded scopes, and none of
\* them is longer.
LEMMA RetryAfterIsLongest ==
  ASSUME AdmittedAreCounted, NEW p \in Threads, progress[p] # "idle", Exceeded(p) # {}
  PROVE  /\ RetryAfter(p) \in Nat \ {0}
         /\ \A k \in Exceeded(p) : Delay(k, attempt[p].at) <= RetryAfter(p)
<1> DEFINE D(k) == Delay(k, attempt[p].at)
<1>1. /\ attempt[p].ip \in Keys /\ attempt[p].account \in Keys /\ attempt[p].at \in Nat
  BY DEF AdmittedAreCounted, CountersTypeOK, Attempt, Keys
<1>2. \A k \in Exceeded(p) : D(k) \in Nat \ {0}
  BY <1>1, DelayReachesTheEnd DEF Exceeded, KeysOf
<1>3. \E d \in {D(k) : k \in Exceeded(p)} : \A k \in Exceeded(p) : D(k) <= d
  <2>1. \A k \in Exceeded(p) : k = attempt[p].ip \/ k = attempt[p].account
    BY DEF Exceeded, KeysOf
  <2>2. PICK k \in Exceeded(p) : TRUE
    OBVIOUS
  <2>3. CASE attempt[p].ip \in Exceeded(p) /\ attempt[p].account \in Exceeded(p)
    <3>1. CASE D(attempt[p].ip) <= D(attempt[p].account)
      BY <1>2, <2>1, <2>3, <3>1
    <3>2. CASE ~(D(attempt[p].ip) <= D(attempt[p].account))
      BY <1>2, <2>1, <2>3, <3>2
    <3> QED BY <3>1, <3>2
  <2>4. CASE ~(attempt[p].ip \in Exceeded(p) /\ attempt[p].account \in Exceeded(p))
    <3>1. \A j \in Exceeded(p) : j = k
      BY <2>1, <2>2, <2>4
    <3> QED BY <1>2, <2>2, <3>1
  <2> QED BY <2>3, <2>4
<1>4. /\ RetryAfter(p) \in {D(k) : k \in Exceeded(p)}
      /\ \A k \in Exceeded(p) : D(k) <= RetryAfter(p)
  BY <1>3 DEF RetryAfter
<1>5. \E k \in Exceeded(p) : RetryAfter(p) = D(k)
  BY <1>4
<1> QED BY <1>2, <1>4, <1>5

\* A zero delay means that no scope is over its limit.
LEMMA ZeroDelay ==
  ASSUME AdmittedAreCounted, NEW p \in Threads, progress[p] # "idle", RetryAfter(p) = 0
  PROVE  Exceeded(p) = {}
  BY RetryAfterIsLongest

LEMMA NoAttemptType == NoAttempt \in Attempt
  BY DEF NoAttempt, Attempt

LEMMA ConsumeInv ==
  ASSUME AdmittedAreCounted, NEW p \in Threads, Consume(p)
  PROVE  AdmittedAreCounted'
<1> DEFINE at == attempt[p].at
<1>1. /\ attempt[p] \in Attempt /\ at \in Nat /\ CountersTypeOK /\ progress[p] = "consume"
  BY DEF AdmittedAreCounted, CountersTypeOK, Attempt, Consume
<1>2. \A k \in Keys : /\ Limit(k) \in Nat \ {0} /\ count[k] \in Nat /\ admitted[k] \in Nat
                      /\ CountAfter(k, at) \in Nat /\ CountAfter(k, at) >= 1
                      /\ StartAfter(k, at) \in Nat
                      /\ ~BeginsWindow(k, at) => CountAfter(k, at) >= count[k]
                      /\ ~BeginsWindow(k, at) /\ CountAfter(k, at) <= Limit(k)
                            => CountAfter(k, at) = count[k] + 1
  BY <1>1, LimitAssumption DEF AdmittedAreCounted, CountersTypeOK, Limit, CountAfter, StartAfter, BeginsWindow
<1>3. CountersTypeOK'
  <2>1. count' \in [Keys -> Nat] /\ start' \in [Keys -> Nat \cup {Nothing}]
    BY <1>1, <1>2 DEF Consume, CountersTypeOK
  <2>2. admitted' \in [Keys -> Nat]
    BY <1>1 DEF Consume, CountersTypeOK
  <2>3. progress' \in [Threads -> {"idle", "consume", "verify", "clear"}] /\ attempt' \in [Threads -> Attempt]
    BY <1>1, NoAttemptType DEF Consume, CountersTypeOK
  <2> QED BY <1>1, <2>1, <2>2, <2>3 DEF Consume, CountersTypeOK
<1>4. ASSUME NEW k \in Keys
      PROVE  admitted'[k] <= Limit(k) /\ admitted'[k] <= count'[k]
  <2>0. admitted[k] <= Limit(k) /\ admitted[k] <= count[k]
    BY DEF AdmittedAreCounted
  <2>1. CASE k \notin KeysOf(p)
    BY <1>2, <2>0, <2>1 DEF Consume
  <2>2. CASE k \in KeysOf(p) /\ RetryAfter(p) = 0
    <3>1. CountAfter(k, at) <= Limit(k)
      BY <1>1, <1>2, <2>2, ZeroDelay DEF Exceeded
    <3>2. /\ count'[k] = CountAfter(k, at)
          /\ admitted'[k] = (IF BeginsWindow(k, at) THEN 0 ELSE admitted[k]) + 1
      BY <2>2 DEF Consume
    <3> QED BY <1>2, <2>0, <3>1, <3>2
  <2>3. CASE k \in KeysOf(p) /\ RetryAfter(p) # 0
    <3>1. /\ count'[k] = CountAfter(k, at)
          /\ admitted'[k] = (IF BeginsWindow(k, at) THEN 0 ELSE admitted[k]) + 0
      BY <2>3 DEF Consume
    <3> QED BY <1>2, <2>0, <3>1
  <2> QED BY <2>1, <2>2, <2>3
<1>5. \A q \in Threads : progress'[q] # "idle" => attempt'[q].ip # Nothing /\ attempt'[q].account # Nothing
  BY <1>1 DEF Consume, AdmittedAreCounted, CountersTypeOK
<1> QED BY <1>3, <1>4, <1>5 DEF AdmittedAreCounted, Limit

LEMMA OtherStepsInv ==
  ASSUME AdmittedAreCounted,
         Tick \/ (\E p \in Threads : Begin(p) \/ Verify(p) \/ Clear(p)) \/ UNCHANGED throttleVars
  PROVE  AdmittedAreCounted'
<1> USE DEF AdmittedAreCounted, Limit
<1>1. CASE Tick
  BY <1>1, LimitAssumption DEF Tick, CountersTypeOK
<1>2. ASSUME NEW p \in Threads, Begin(p) PROVE AdmittedAreCounted'
  <2>1. PICK ip \in Addresses, a \in Accounts, right \in BOOLEAN :
          attempt' = [attempt EXCEPT ![p] = [ip |-> ip, account |-> a, right |-> right, at |-> now]]
    BY <1>2 DEF Begin
  <2>2. [ip |-> ip, account |-> a, right |-> right, at |-> now] \in Attempt /\ ip # Nothing /\ a # Nothing
    BY LimitAssumption DEF Attempt, CountersTypeOK
  <2>3. UNCHANGED <<now, count, start, admitted>> /\ progress' = [progress EXCEPT ![p] = "consume"]
    BY <1>2 DEF Begin
  <2> QED BY <2>1, <2>2, <2>3 DEF CountersTypeOK
<1>3. ASSUME NEW p \in Threads, Verify(p) PROVE AdmittedAreCounted'
  BY <1>3, NoAttemptType DEF Verify, CountersTypeOK
<1>4. ASSUME NEW p \in Threads, Clear(p) PROVE AdmittedAreCounted'
  BY <1>4, NoAttemptType, LimitAssumption DEF Clear, CountersTypeOK
<1>5. CASE UNCHANGED throttleVars
  BY <1>5 DEF throttleVars, CountersTypeOK
<1> QED BY <1>1, <1>2, <1>3, <1>4, <1>5

LEMMA Invariance == ThrottleSpec => []AdmittedAreCounted
<1>1. ThrottleInit => AdmittedAreCounted
  BY NoAttemptType, LimitAssumption DEF ThrottleInit, AdmittedAreCounted, CountersTypeOK, Limit
<1>2. AdmittedAreCounted /\ [ThrottleNext]_throttleVars => AdmittedAreCounted'
  BY ConsumeInv, OtherStepsInv DEF ThrottleNext
<1> QED BY <1>1, <1>2, PTL DEF ThrottleSpec

\* The throttle's counters, windows and threads keep their types.
THEOREM ThrottleTypeCorrect == ThrottleSpec => []CountersTypeOK
<1>1. AdmittedAreCounted => CountersTypeOK
  BY DEF AdmittedAreCounted
<1> QED BY <1>1, Invariance, PTL

\* However attempts overlap and however stale their clocks are, no window of an
\* address or account lets more password checks through than its limit.
THEOREM ThrottleLimits == ThrottleSpec => []AdmittedWithinLimit
<1>1. AdmittedAreCounted => AdmittedWithinLimit
  BY DEF AdmittedAreCounted, AdmittedWithinLimit
<1> QED BY <1>1, Invariance, PTL

-----------------------------------------------------------------------------
\* Counters are cleared only on behalf of a right password.
ClearsAfterRight == \A p \in Threads : progress[p] = "clear" => attempt[p].right

LEMMA ClearInvariance == ThrottleSpec => [](AdmittedAreCounted /\ ClearsAfterRight)
<1>1. ThrottleInit => ClearsAfterRight
  BY DEF ThrottleInit, ClearsAfterRight
<1>2. AdmittedAreCounted /\ ClearsAfterRight /\ [ThrottleNext]_throttleVars => ClearsAfterRight'
  BY DEF ThrottleNext, Tick, Begin, Consume, Verify, Clear, throttleVars, ClearsAfterRight,
         AdmittedAreCounted, CountersTypeOK
<1> QED BY <1>1, <1>2, Invariance, PTL DEF ThrottleSpec

\* No interleaving of stale clocks, cleanups and clears shortens a window: a
\* counter goes only when an attempt's clock is past its window, or with a right
\* password for that key.
THEOREM WindowsAreServed == ThrottleSpec => WindowIsServed
<1> DEFINE Served == \A k \in Keys : start[k] # Nothing /\ start'[k] # start[k] =>
          \E p \in Threads : \/ Consume(p) /\ attempt[p].at >= start[k] + Window
                             \/ Clear(p) /\ attempt[p].right /\ k \in KeysOf(p)
<1>1. ASSUME AdmittedAreCounted, ClearsAfterRight, [ThrottleNext]_throttleVars PROVE [Served]_throttleVars
  <2> SUFFICES ASSUME NEW k \in Keys, start[k] # Nothing, start'[k] # start[k]
               PROVE  \E p \in Threads : \/ Consume(p) /\ attempt[p].at >= start[k] + Window
                                         \/ Clear(p) /\ attempt[p].right /\ k \in KeysOf(p)
    OBVIOUS
  <2>1. start[k] \in Nat /\ \A p \in Threads : attempt[p].at \in Nat
    BY <1>1 DEF AdmittedAreCounted, CountersTypeOK, Attempt
  <2>2. ASSUME NEW p \in Threads, Consume(p) PROVE attempt[p].at >= start[k] + Window
    <3>1. CleanedUp(k, attempt[p].at) \/ BeginsWindow(k, attempt[p].at)
      BY <2>2 DEF Consume, StartAfter
    <3> QED BY <2>1, <3>1, LimitAssumption DEF CleanedUp, BeginsWindow
  <2>3. ASSUME NEW p \in Threads, Clear(p) PROVE attempt[p].right /\ k \in KeysOf(p)
    BY <1>1, <2>3 DEF Clear, ClearsAfterRight
  <2>4. \E p \in Threads : Consume(p) \/ Clear(p)
    BY <1>1 DEF ThrottleNext, Tick, Begin, Verify, throttleVars
  <2> QED BY <2>2, <2>3, <2>4
<1> HIDE DEF Served
<1>2. ThrottleSpec => [][Served]_throttleVars
  BY <1>1, ClearInvariance, PTL DEF ThrottleSpec
<1> QED BY <1>2 DEF WindowIsServed, Served

\* The delay a rejected client is told, in whole seconds, outlasts each of the
\* windows that rejected it.
THEOREM DelaySuffices == ThrottleSpec => RetryAfterSuffices
<1> DEFINE Suffices == \A p \in Threads : Consume(p) /\ RetryAfter(p) # 0 =>
          \A k \in KeysOf(p) : count'[k] > Limit(k) =>
              start'[k] <= attempt[p].at + RetryAfter(p) * Sec - Window
<1>1. ASSUME AdmittedAreCounted, [ThrottleNext]_throttleVars PROVE [Suffices]_throttleVars
  <2> SUFFICES ASSUME NEW p \in Threads, Consume(p), RetryAfter(p) # 0,
                      NEW k \in KeysOf(p), count'[k] > Limit(k)
               PROVE  start'[k] <= attempt[p].at + RetryAfter(p) * Sec - Window
    OBVIOUS
  <2> DEFINE at == attempt[p].at
             R == RetryAfter(p)
             D == Delay(k, at)
  <2>1. k \in Keys /\ at \in Nat /\ progress[p] # "idle"
    BY <1>1 DEF AdmittedAreCounted, CountersTypeOK, Attempt, Keys, KeysOf, Consume
  <2>2. start'[k] = StartAfter(k, at) /\ k \in Exceeded(p)
    BY <2>1 DEF Consume, Exceeded
  <2>3. R \in Nat /\ D <= R
    BY <1>1, <2>1, <2>2, RetryAfterIsLongest
  <2>4. D \in Nat /\ StartAfter(k, at) \in Nat /\ StartAfter(k, at) + Window - at <= D * Sec
    BY <1>1, <2>1, DelayReachesTheEnd
  <2>5. Sec \in Nat /\ Window \in Nat
    BY LimitAssumption
  <2> HIDE DEF at, R, D
  <2>6. D * Sec <= R * Sec
    BY <2>3, <2>4, <2>5
  <2>7. D * Sec \in Nat /\ R * Sec \in Nat
    BY <2>3, <2>4, <2>5
  <2>8. StartAfter(k, at) <= at + R * Sec - Window
    BY <2>1, <2>4, <2>5, <2>6, <2>7
  <2> QED BY <2>2, <2>8 DEF at, R
<1> HIDE DEF Suffices
<1>2. ThrottleSpec => [][Suffices]_throttleVars
  BY <1>1, Invariance, PTL DEF ThrottleSpec
<1> QED BY <1>2 DEF RetryAfterSuffices, Suffices

-----------------------------------------------------------------------------
(* The handlers. *)

\* A thread that serves a request serves a user.
Serves(p) == pc[p] # "idle" => req[p].user \in Users

\* What is going to be hashed was presented.
HasSecrets(p) ==
    /\ pc[p] \in {"create", "verify", "write"} => req[p].new \in Secrets
    /\ pc[p] = "upgrade" => req[p].secret \in Secrets

\* The address of an account that is logging in is allowed, and so is each
\* address that is about to be written.
KeepsToAllowlist(p) ==
    /\ pc[p] \in {"upgrade", "open"} => IsAllowed(req[p].user)
    /\ pc[p] \in {"create", "profile"} => req[p].email \in allowed

\* The tokens a password change found are of families of its user, which have
\* not gone back.
BeforeIsPast(p) ==
    \A f \in Families, n \in 0..MaxGen : <<f, n>> \in req[p].before =>
        family[f] # None /\ family[f].user = req[p].user /\ n <= family[f].gen

\* A revocation reaches each of them that is still live and not kept.
ScopeCoversBefore(p) ==
    /\ pc[p] = "check" => req[p].before = {}
    /\ pc[p] = "revoke" => \A f \in Families \ req[p].keeps :
           Live(f) /\ <<f, family[f].gen>> \in req[p].before => <<f, family[f].gen>> \in scope[p]

Thread(p) ==
    Serves(p) /\ HasSecrets(p) /\ KeepsToAllowlist(p) /\ BeforeIsPast(p) /\ ScopeCoversBefore(p)

HandlerInv == TypeOK /\ \A p \in Proc : Thread(p)

-----------------------------------------------------------------------------
\* A family is never forgotten, never given to another user, never goes back a
\* generation and never lives again.
Ages ==
    \A f \in Families : family[f] # None =>
        /\ family'[f] # None /\ family'[f].user = family[f].user
        /\ family[f].gen <= family'[f].gen
        /\ family'[f].live => family[f].live

\* Nobody loses the address the allowlist has, but to a redeployment.
StaysAllowed == allowed' = allowed /\ \A u \in Users : IsAllowed(u) => IsAllowed(u)'

LEMMA NoRequestType == NoRequest \in Request /\ NoRequest.before = {}
  BY DEF NoRequest, Request

LEMMA ReqTypes ==
  ASSUME TypeOK, NEW p \in Proc
  PROVE  /\ req[p] \in Request /\ pc[p] \in Stage /\ scope[p] \in SUBSET Generation
         /\ req[p].user \in Users \cup {None} /\ req[p].secret \in Secrets \cup {None}
         /\ req[p].new \in Secrets \cup {None} /\ req[p].email \in Emails \cup {None}
         /\ req[p].keeps \in SUBSET Families /\ req[p].before \in SUBSET Generation
  BY DEF TypeOK, Request

LEMMA FamilyTypes ==
  ASSUME TypeOK
  PROVE  /\ family \in [Families -> Family \cup {None}] /\ None \notin Family
         /\ \A f \in Families : family[f] # None =>
               /\ family[f] \in Family /\ family[f].user \in Users
               /\ family[f].gen \in 0..MaxGen /\ family[f].gen \in Nat /\ family[f].live \in BOOLEAN
  BY NoneAssumption, RecordAssumption DEF TypeOK, Family

LEMMA LiveFamilies ==
  ASSUME TypeOK, NEW u
  PROVE  /\ LiveOf(u) \in SUBSET Families
         /\ \A f \in LiveOf(u) : family[f] # None /\ family[f].user = u
         /\ \A F \in SUBSET LiveOf(u) : Generations(F) \in SUBSET Generation
         /\ \A F \in SUBSET LiveOf(u) : \A f, n : <<f, n>> \in Generations(F) <=>
                f \in F /\ n = family[f].gen
<1>1. LiveOf(u) \in SUBSET Families /\ \A f \in LiveOf(u) : family[f] # None /\ family[f].user = u
  BY DEF LiveOf, Live
<1>2. ASSUME NEW F \in SUBSET LiveOf(u) PROVE Generations(F) \in SUBSET Generation
  <2>1. \A f \in F : f \in Families /\ family[f].gen \in 0..MaxGen
    BY <1>1, FamilyTypes
  <2> QED BY <2>1 DEF Generations, Generation
<1> QED BY <1>1, <1>2 DEF Generations

\* A thread that does nothing keeps its invariant.
LEMMA BystanderKeeps ==
  ASSUME HandlerInv, TypeOK', Ages, StaysAllowed, NEW p \in Proc,
         pc'[p] = pc[p], req'[p] = req[p], scope'[p] = scope[p]
  PROVE  Thread(p)'
<1>0. TypeOK /\ Thread(p)
  BY DEF HandlerInv
<1>1. Serves(p)' /\ HasSecrets(p)'
  BY <1>0 DEF Thread, Serves, HasSecrets
<1>2. KeepsToAllowlist(p)'
  <2>1. \A u \in Users : email[u] \in allowed => email'[u] \in allowed'
    BY DEF StaysAllowed, IsAllowed
  <2> QED BY <1>0, <2>1 DEF Thread, Serves, KeepsToAllowlist, StaysAllowed, IsAllowed
<1>3. BeforeIsPast(p)'
  <2> SUFFICES ASSUME NEW f \in Families, NEW n \in 0..MaxGen, <<f, n>> \in req[p].before
               PROVE  family'[f] # None /\ family'[f].user = req[p].user /\ n <= family'[f].gen
    BY DEF BeforeIsPast
  <2>1. family[f] # None /\ family[f].user = req[p].user /\ n <= family[f].gen
    BY <1>0 DEF Thread, BeforeIsPast
  <2>2. family'[f] # None /\ family'[f].user = family[f].user /\ family[f].gen <= family'[f].gen
    BY <2>1 DEF Ages
  <2>3. family[f].gen \in Nat /\ family'[f].gen \in Nat /\ n \in Nat
    BY <1>0, <2>1, <2>2, FamilyTypes, NoneAssumption DEF TypeOK, Family
  <2> QED BY <2>1, <2>2, <2>3
<1>4. ScopeCoversBefore(p)'
  <2>1. pc'[p] = "check" => req'[p].before = {}
    BY <1>0 DEF Thread, ScopeCoversBefore
  <2> SUFFICES ASSUME pc[p] = "revoke", NEW f \in Families \ req[p].keeps,
                      Live(f)', <<f, family'[f].gen>> \in req[p].before
               PROVE  <<f, family'[f].gen>> \in scope[p]
    BY <2>1 DEF ScopeCoversBefore
  <2>2. family'[f].gen \in 0..MaxGen
    BY <1>0, ReqTypes DEF Generation
  <2>3. family[f] # None /\ family'[f].gen <= family[f].gen
    BY <1>0, <2>2 DEF Thread, BeforeIsPast
  <2>4. family[f].live /\ family[f].gen <= family'[f].gen
    BY <2>3 DEF Ages, Live
  <2>5. family[f].gen = family'[f].gen
    BY <1>0, <2>2, <2>3, <2>4, FamilyTypes, NoneAssumption
  <2> QED BY <1>0, <2>3, <2>4, <2>5 DEF Thread, ScopeCoversBefore, Live
<1> QED BY <1>1, <1>2, <1>3, <1>4 DEF Thread

LEMMA IdleKeeps ==
  ASSUME HandlerInv, NEW p \in Proc, Return(p)
  PROVE  Thread(p)'
<1>1. pc'[p] = "idle" /\ req'[p] = NoRequest
  BY DEF HandlerInv, TypeOK, Return, Goto
<1> QED
  BY <1>1, NoRequestType
  DEF Thread, Serves, HasSecrets, KeepsToAllowlist, BeforeIsPast, ScopeCoversBefore

LEMMA NothingAges ==
  ASSUME TypeOK, UNCHANGED family
  PROVE  Ages
  BY FamilyTypes DEF Ages

LEMMA AddressesStay ==
  ASSUME UNCHANGED <<email, allowed>>
  PROVE  StaysAllowed
  BY DEF StaysAllowed, IsAllowed

\* One thread moves.
LEMMA MoveInv ==
  ASSUME HandlerInv, TypeOK', Ages, StaysAllowed, NEW p \in Proc, Thread(p)',
         \A q \in Proc : q # p => pc'[q] = pc[q] /\ req'[q] = req[q] /\ scope'[q] = scope[q]
  PROVE  HandlerInv'
<1>1. ASSUME NEW q \in Proc PROVE Thread(q)'
  <2>1. CASE q = p
    BY <2>1
  <2>2. CASE q # p
    BY <2>2, BystanderKeeps
  <2> QED BY <2>1, <2>2
<1> QED BY <1>1 DEF HandlerInv

\* A thread writes its own progress, request and scope; here to continue.
LEMMA Writes ==
  ASSUME TypeOK, NEW p \in Proc, NEW stage \in Stage, NEW r \in Request, NEW s \in SUBSET Generation,
         pc' = [pc EXCEPT ![p] = stage], req' = [req EXCEPT ![p] = r], scope' = [scope EXCEPT ![p] = s]
  PROVE  /\ pc' \in [Proc -> Stage] /\ req' \in [Proc -> Request] /\ scope' \in [Proc -> SUBSET Generation]
         /\ pc'[p] = stage /\ req'[p] = r /\ scope'[p] = s
         /\ \A q \in Proc : q # p => pc'[q] = pc[q] /\ req'[q] = req[q] /\ scope'[q] = scope[q]
  BY DEF TypeOK

LEMMA Returns ==
  ASSUME TypeOK, NEW p \in Proc, Return(p)
  PROVE  /\ pc' \in [Proc -> Stage] /\ req' \in [Proc -> Request] /\ scope' \in [Proc -> SUBSET Generation]
         /\ \A q \in Proc : q # p => pc'[q] = pc[q] /\ req'[q] = req[q] /\ scope'[q] = scope[q]
  BY NoRequestType DEF TypeOK, Return, Goto, Stage

-----------------------------------------------------------------------------
(* The steps that end a handler. *)

LEMMA CreateUserInv ==
  ASSUME HandlerInv, NEW p \in Proc, CreateUser(p)
  PROVE  HandlerInv'
<1> DEFINE u == req[p].user
<1>0. /\ TypeOK /\ Thread(p) /\ pc[p] = "create" /\ Return(p) /\ UNCHANGED <<allowed, family>>
      /\ u \in Users /\ req[p].new \in Secrets /\ req[p].email \in Emails \cup {None}
      /\ req[p].email \in allowed
  BY ReqTypes DEF HandlerInv, CreateUser, Thread, Serves, HasSecrets, KeepsToAllowlist
<1>1. \/ UNCHANGED <<hash, email>>
      \/ /\ hash' = [hash EXCEPT ![u] = [secret |-> req[p].new, legacy |-> FALSE]]
         /\ email' = [email EXCEPT ![u] = req[p].email]
  BY DEF CreateUser
<1> HIDE DEF u
<1>2. hash' \in [Users -> Hash \cup {None}] /\ email' \in [Users -> Emails \cup {None}]
  <2>1. [secret |-> req[p].new, legacy |-> FALSE] \in Hash
    BY <1>0 DEF Hash
  <2>2. hash' \in [Users -> Hash \cup {None}]
    <3>1. CASE hash' = hash
      BY <1>0, <3>1 DEF TypeOK
    <3>2. CASE hash' = [hash EXCEPT ![u] = [secret |-> req[p].new, legacy |-> FALSE]]
      BY <1>0, <2>1, <3>2 DEF TypeOK
    <3> QED BY <1>1, <3>1, <3>2
  <2>3. email' \in [Users -> Emails \cup {None}]
    BY <1>0, <1>1 DEF TypeOK
  <2> QED BY <2>2, <2>3
<1>3. TypeOK'
  BY <1>0, <1>2, Returns DEF TypeOK
<1>4. StaysAllowed
  BY <1>0, <1>1 DEF StaysAllowed, IsAllowed, TypeOK
<1> QED BY <1>0, <1>3, <1>4, NothingAges, IdleKeeps, MoveInv, Returns

LEMMA WriteProfileInv ==
  ASSUME HandlerInv, NEW p \in Proc, WriteProfile(p)
  PROVE  HandlerInv'
<1> DEFINE u == req[p].user
<1>0. /\ TypeOK /\ Thread(p) /\ pc[p] = "profile" /\ Return(p) /\ UNCHANGED <<hash, allowed, family>>
      /\ u \in Users /\ req[p].email \in Emails \cup {None} /\ req[p].email \in allowed
  BY ReqTypes DEF HandlerInv, WriteProfile, Thread, Serves, KeepsToAllowlist
<1>1. email' = email \/ email' = [email EXCEPT ![u] = req[p].email]
  BY DEF WriteProfile
<1> HIDE DEF u
<1>2. email' \in [Users -> Emails \cup {None}]
  BY <1>0, <1>1 DEF TypeOK
<1>3. TypeOK'
  BY <1>0, <1>2, Returns DEF TypeOK
<1>4. StaysAllowed
  BY <1>0, <1>1 DEF StaysAllowed, IsAllowed, TypeOK
<1> QED BY <1>0, <1>3, <1>4, NothingAges, IdleKeeps, MoveInv, Returns

LEMMA OpenSessionInv ==
  ASSUME HandlerInv, NEW p \in Proc, OpenSession(p)
  PROVE  HandlerInv'
<1>0. /\ TypeOK /\ pc[p] = "open" /\ Return(p) /\ UNCHANGED <<hash, email, allowed>>
      /\ req[p].user \in Users
  BY DEF HandlerInv, OpenSession, Thread, Serves
<1>1. PICK f \in Families, D \in SUBSET LiveOf(req[p].user) :
         /\ family[f] = None
         /\ family' = [g \in Families |->
               IF g = f THEN [user |-> req[p].user, gen |-> 0, live |-> TRUE]
               ELSE IF g \in D THEN [family[g] EXCEPT !.live = FALSE] ELSE family[g]]
  BY DEF OpenSession
<1>2. [user |-> req[p].user, gen |-> 0, live |-> TRUE] \in Family
  BY <1>0, NoneAssumption DEF Family
<1>3. \A g \in Families : family[g] # None => [family[g] EXCEPT !.live = FALSE] \in Family
  BY <1>0, FamilyTypes DEF Family
<1>4. \A g \in D : family[g] # None
  BY <1>0, LiveFamilies
<1>5. family' \in [Families -> Family \cup {None}]
  BY <1>0, <1>1, <1>2, <1>3, <1>4, FamilyTypes
<1>6. Ages
  <2> SUFFICES ASSUME NEW g \in Families, family[g] # None
               PROVE  /\ family'[g] # None /\ family'[g].user = family[g].user
                      /\ family[g].gen <= family'[g].gen /\ (family'[g].live => family[g].live)
    BY DEF Ages
  <2>1. g # f /\ family[g] \in Family /\ family[g].gen \in Nat
    BY <1>0, <1>1, FamilyTypes
  <2>2. family'[g] = IF g \in D THEN [family[g] EXCEPT !.live = FALSE] ELSE family[g]
    BY <1>1, <2>1
  <2>3. [family[g] EXCEPT !.live = FALSE] # None
    BY <1>0, <1>3, FamilyTypes
  <2> QED BY <2>1, <2>2, <2>3 DEF Family
<1>7. TypeOK'
  BY <1>0, <1>5, Returns DEF TypeOK
<1> QED BY <1>0, <1>6, <1>7, AddressesStay, IdleKeeps, MoveInv, Returns

LEMMA FinishRevokeInv ==
  ASSUME HandlerInv, NEW p \in Proc, FinishRevoke(p)
  PROVE  HandlerInv'
<1>0. /\ TypeOK /\ Return(p) /\ UNCHANGED <<hash, email, allowed>>
      /\ family' = [f \in Families |-> IF Ends(p, f) THEN [family[f] EXCEPT !.live = FALSE] ELSE family[f]]
  BY DEF HandlerInv, FinishRevoke
<1>1. \A f \in Families : Ends(p, f) => family[f] # None
  BY DEF Ends, Live
<1>2. \A f \in Families : family[f] # None => [family[f] EXCEPT !.live = FALSE] \in Family
  BY <1>0, FamilyTypes DEF Family
<1>3. family' \in [Families -> Family \cup {None}]
  BY <1>0, <1>1, <1>2, FamilyTypes
<1>4. Ages
  <2> SUFFICES ASSUME NEW g \in Families, family[g] # None
               PROVE  /\ family'[g] # None /\ family'[g].user = family[g].user
                      /\ family[g].gen <= family'[g].gen /\ (family'[g].live => family[g].live)
    BY DEF Ages
  <2>1. family'[g] = [family[g] EXCEPT !.live = FALSE] \/ family'[g] = family[g]
    BY <1>0
  <2>2. family[g] \in Family /\ family[g].gen \in Nat /\ [family[g] EXCEPT !.live = FALSE] # None
    BY <1>0, <1>2, FamilyTypes
  <2> QED BY <2>1, <2>2 DEF Family
<1>5. TypeOK'
  BY <1>0, <1>3, Returns DEF TypeOK
<1> QED BY <1>0, <1>4, <1>5, AddressesStay, IdleKeeps, MoveInv, Returns

\* The others end without writing.
LEMMA EndsInv ==
  ASSUME HandlerInv, NEW p \in Proc, Return(p), UNCHANGED <<hash, email, allowed, family>>
  PROVE  HandlerInv'
<1>1. TypeOK /\ TypeOK'
  BY Returns DEF HandlerInv, TypeOK
<1> QED BY <1>1, NothingAges, AddressesStay, IdleKeeps, MoveInv, Returns

-----------------------------------------------------------------------------
(* The steps that begin or continue a handler. *)

\* A thread that goes on writes only its own part; what else it writes keeps the
\* types, ages the families and leaves the allowed addresses.
LEMMA GoesOn ==
  ASSUME HandlerInv, NEW p \in Proc, NEW stage \in Stage, NEW r \in Request,
         NEW s \in SUBSET Generation,
         pc' = [pc EXCEPT ![p] = stage], req' = [req EXCEPT ![p] = r],
         scope' = [scope EXCEPT ![p] = s],
         hash' \in [Users -> Hash \cup {None}],
         family' \in [Families -> Family \cup {None}], Ages, UNCHANGED <<email, allowed>>,
         Thread(p)'
  PROVE  HandlerInv'
<1>1. TypeOK /\ TypeOK'
  BY Writes DEF HandlerInv, TypeOK
<1> QED BY <1>1, AddressesStay, MoveInv, Writes

\* What a request without tokens from before needs.
LEMMA FreshThread ==
  ASSUME NEW p \in Proc, req'[p].user \in Users, req'[p].before = {},
         HasSecrets(p)', KeepsToAllowlist(p)'
  PROVE  Thread(p)'
  BY DEF Thread, Serves, BeforeIsPast, ScopeCoversBefore

LEMMA BeginRegisterInv ==
  ASSUME HandlerInv, NEW p \in Proc, BeginRegister(p)
  PROVE  HandlerInv'
<1>0. TypeOK
  BY DEF HandlerInv
<1>1. PICK u \in Users, e \in Emails, s \in Secrets :
         /\ e \in allowed
         /\ req' = [req EXCEPT ![p] = [NoRequest EXCEPT !.user = u, !.email = e, !.new = s]]
  BY DEF BeginRegister, Permitted
<1> DEFINE r == [NoRequest EXCEPT !.user = u, !.email = e, !.new = s]
<1>2. r \in Request /\ r.user = u /\ r.new = s /\ r.email = e /\ r.before = {}
  BY DEF NoRequest, Request
<1>3. req' = [req EXCEPT ![p] = r]
  BY <1>1
<1> HIDE DEF r
<1>4. /\ pc' = [pc EXCEPT ![p] = "create"] /\ UNCHANGED <<hash, email, allowed, family, scope>>
      /\ "create" \in Stage
  BY DEF BeginRegister, Goto, Stage
<1>5. pc'[p] = "create" /\ req'[p] = r
  BY <1>0, <1>3, <1>4 DEF TypeOK
<1>6. HasSecrets(p)'
  BY <1>2, <1>5 DEF HasSecrets
<1>7. KeepsToAllowlist(p)'
  BY <1>1, <1>2, <1>4, <1>5 DEF KeepsToAllowlist
<1>8. Thread(p)'
  BY <1>2, <1>5, <1>6, <1>7, FreshThread
<1>9. scope' = [scope EXCEPT ![p] = scope[p]] /\ scope[p] \in SUBSET Generation
  BY <1>0, <1>4 DEF TypeOK
<1> QED BY <1>0, <1>2, <1>3, <1>4, <1>8, <1>9, GoesOn, NothingAges DEF TypeOK

LEMMA BeginLoginInv ==
  ASSUME HandlerInv, NEW p \in Proc, BeginLogin(p)
  PROVE  HandlerInv'
<1>0. TypeOK
  BY DEF HandlerInv
<1>1. PICK u \in Users :
         /\ hash[u] # None /\ IsAllowed(u)
         /\ req' = [req EXCEPT ![p] = [NoRequest EXCEPT !.user = u, !.secret = hash[u].secret]]
         /\ pc' = [pc EXCEPT ![p] = IF hash[u].legacy THEN "upgrade" ELSE "open"]
  BY DEF BeginLogin, Goto
<1> DEFINE r == [NoRequest EXCEPT !.user = u, !.secret = hash[u].secret]
           stage == IF hash[u].legacy THEN "upgrade" ELSE "open"
<1>2. hash[u].secret \in Secrets
  BY <1>0, <1>1 DEF TypeOK, Hash
<1>3. r \in Request /\ r.user = u /\ r.secret = hash[u].secret /\ r.before = {}
  BY <1>2 DEF NoRequest, Request
<1>4. req' = [req EXCEPT ![p] = r] /\ pc' = [pc EXCEPT ![p] = stage]
  BY <1>1
<1>5. stage \in {"upgrade", "open"} /\ stage \in Stage
  BY DEF Stage
<1> HIDE DEF r, stage
<1>6. UNCHANGED <<hash, email, allowed, family, scope>>
  BY DEF BeginLogin
<1>7. pc'[p] = stage /\ req'[p] = r
  BY <1>0, <1>4 DEF TypeOK
<1>8. HasSecrets(p)'
  BY <1>2, <1>3, <1>5, <1>7 DEF HasSecrets
<1>9. KeepsToAllowlist(p)'
  BY <1>1, <1>3, <1>5, <1>6, <1>7 DEF KeepsToAllowlist, IsAllowed
<1>10. Thread(p)'
  BY <1>3, <1>7, <1>8, <1>9, FreshThread
<1>11. scope' = [scope EXCEPT ![p] = scope[p]] /\ scope[p] \in SUBSET Generation
  BY <1>0, <1>6 DEF TypeOK
<1> QED BY <1>0, <1>3, <1>4, <1>5, <1>6, <1>10, <1>11, GoesOn, NothingAges DEF TypeOK

LEMMA UpgradeHashInv ==
  ASSUME HandlerInv, NEW p \in Proc, UpgradeHash(p)
  PROVE  HandlerInv'
<1> DEFINE u == req[p].user
<1>0. /\ TypeOK /\ Thread(p) /\ pc[p] = "upgrade" /\ UNCHANGED <<email, allowed, family, req, scope>>
      /\ pc' = [pc EXCEPT ![p] = "open"] /\ "open" \in Stage
      /\ hash' = [hash EXCEPT ![u] = [secret |-> req[p].secret, legacy |-> FALSE]]
  BY DEF HandlerInv, UpgradeHash, Goto, Stage
<1>1. u \in Users /\ req[p].secret \in Secrets /\ IsAllowed(u)
  BY <1>0 DEF Thread, Serves, HasSecrets, KeepsToAllowlist
<1>2. [secret |-> req[p].secret, legacy |-> FALSE] \in Hash
  BY <1>1 DEF Hash
<1>3. hash' \in [Users -> Hash \cup {None}]
  BY <1>0, <1>2 DEF TypeOK
<1>4. pc'[p] = "open" /\ req'[p] = req[p]
  BY <1>0 DEF TypeOK
<1>5. Thread(p)'
  <2>1. Serves(p)' /\ HasSecrets(p)' /\ ScopeCoversBefore(p)'
    BY <1>1, <1>4 DEF Serves, HasSecrets, ScopeCoversBefore
  <2>2. KeepsToAllowlist(p)'
    BY <1>0, <1>1, <1>4 DEF KeepsToAllowlist, IsAllowed
  <2>3. BeforeIsPast(p)'
    BY <1>0 DEF Thread, BeforeIsPast
  <2> QED BY <2>1, <2>2, <2>3 DEF Thread
<1>6. /\ scope' = [scope EXCEPT ![p] = scope[p]] /\ scope[p] \in SUBSET Generation
      /\ req' = [req EXCEPT ![p] = req[p]] /\ req[p] \in Request
  BY <1>0 DEF TypeOK
<1> QED BY <1>0, <1>3, <1>5, <1>6, GoesOn, NothingAges DEF TypeOK

LEMMA RotateInv ==
  ASSUME HandlerInv, NEW p \in Proc, Rotate(p)
  PROVE  HandlerInv'
<1>0. TypeOK
  BY DEF HandlerInv
<1>1. PICK f \in Families :
         /\ family[f] # None /\ family[f].gen < MaxGen
         /\ family' = [family EXCEPT ![f].gen = @ + 1]
         /\ req' = [req EXCEPT ![p] = [NoRequest EXCEPT !.user = family[f].user,
                                         !.cookie = <<f, family[f].gen>>]]
  BY DEF Rotate, Live
<1> DEFINE c == <<f, family[f].gen>>
           r == [NoRequest EXCEPT !.user = family[f].user, !.cookie = c]
<1>2. family[f] \in Family /\ family[f].user \in Users /\ family[f].gen \in 0..MaxGen
  BY <1>0, <1>1, FamilyTypes
<1>3. c \in Generation
  BY <1>2 DEF Generation
<1> HIDE DEF c
<1>4. r \in Request /\ r.user = family[f].user /\ r.before = {}
  BY <1>2, <1>3 DEF NoRequest, Request
<1>5. req' = [req EXCEPT ![p] = r]
  BY <1>1 DEF c
<1> HIDE DEF r
<1>6. /\ pc' = [pc EXCEPT ![p] = "check"] /\ UNCHANGED <<hash, email, allowed, scope>>
      /\ "check" \in Stage
  BY DEF Rotate, Goto, Stage
<1>7. pc'[p] = "check" /\ req'[p] = r
  BY <1>0, <1>5, <1>6 DEF TypeOK
<1>8. HasSecrets(p)' /\ KeepsToAllowlist(p)'
  BY <1>7 DEF HasSecrets, KeepsToAllowlist
<1>9. Thread(p)'
  BY <1>2, <1>4, <1>7, <1>8, FreshThread
<1> DEFINE older == [family[f] EXCEPT !.gen = @ + 1]
<1>10. /\ older \in Family /\ older.user = family[f].user /\ older.live = family[f].live
       /\ older.gen = family[f].gen + 1
  BY <1>1, <1>2, NoneAssumption DEF Family
<1>11. family' = [family EXCEPT ![f] = older]
  BY <1>1
<1> HIDE DEF older
<1>12. family' \in [Families -> Family \cup {None}]
  BY <1>0, <1>10, <1>11, FamilyTypes
<1>13. Ages
  <2> SUFFICES ASSUME NEW g \in Families, family[g] # None
               PROVE  /\ family'[g] # None /\ family'[g].user = family[g].user
                      /\ family[g].gen <= family'[g].gen /\ (family'[g].live => family[g].live)
    BY DEF Ages
  <2>1. family[g].gen \in Nat /\ older # None
    BY <1>0, <1>10, FamilyTypes
  <2>2. family'[g] = IF g = f THEN older ELSE family[g]
    BY <1>0, <1>11, FamilyTypes
  <2> QED BY <1>10, <2>1, <2>2
<1>14. scope' = [scope EXCEPT ![p] = scope[p]] /\ scope[p] \in SUBSET Generation
  BY <1>0, <1>6 DEF TypeOK
<1>15. hash' \in [Users -> Hash \cup {None}]
  BY <1>0, <1>6 DEF TypeOK
<1> QED BY <1>4, <1>5, <1>6, <1>9, <1>12, <1>13, <1>14, <1>15, GoesOn

LEMMA EndFamilyInv ==
  ASSUME HandlerInv, NEW p \in Proc, EndFamily(p)
  PROVE  HandlerInv'
<1>0. TypeOK
  BY DEF HandlerInv
<1>1. PICK f \in Families :
         /\ family[f] # None
         /\ req' = [req EXCEPT ![p] = [NoRequest EXCEPT !.user = family[f].user]]
         /\ scope' = [scope EXCEPT ![p] = Generations({f} \cap LiveOf(family[f].user))]
  BY DEF EndFamily
<1> DEFINE r == [NoRequest EXCEPT !.user = family[f].user]
           s == Generations({f} \cap LiveOf(family[f].user))
<1>2. family[f].user \in Users
  BY <1>0, <1>1, FamilyTypes
<1>3. r \in Request /\ r.user = family[f].user /\ r.before = {}
  BY <1>2 DEF NoRequest, Request
<1>4. s \in SUBSET Generation
  <2>1. {f} \cap LiveOf(family[f].user) \in SUBSET LiveOf(family[f].user)
    OBVIOUS
  <2> QED BY <1>0, <2>1, LiveFamilies
<1>5. req' = [req EXCEPT ![p] = r] /\ scope' = [scope EXCEPT ![p] = s]
  BY <1>1
<1> HIDE DEF r, s
<1>6. /\ pc' = [pc EXCEPT ![p] = "revoke"] /\ UNCHANGED <<hash, email, allowed, family>>
      /\ "revoke" \in Stage
  BY DEF EndFamily, Goto, Stage
<1>7. pc'[p] = "revoke" /\ req'[p] = r
  BY <1>0, <1>5, <1>6 DEF TypeOK
<1>8. HasSecrets(p)' /\ KeepsToAllowlist(p)'
  BY <1>7 DEF HasSecrets, KeepsToAllowlist
<1>9. Thread(p)'
  BY <1>2, <1>3, <1>7, <1>8, FreshThread
<1> QED BY <1>0, <1>3, <1>4, <1>5, <1>6, <1>9, GoesOn, NothingAges DEF TypeOK

LEMMA RefuseRefreshInv ==
  ASSUME HandlerInv, NEW p \in Proc, RefuseRefresh(p)
  PROVE  HandlerInv'
<1> DEFINE s == Generations({req[p].cookie[1]} \cap LiveOf(req[p].user))
<1>0. /\ TypeOK /\ Thread(p) /\ pc[p] = "check" /\ UNCHANGED <<hash, email, allowed, family, req>>
      /\ pc' = [pc EXCEPT ![p] = "revoke"] /\ "revoke" \in Stage
      /\ scope' = [scope EXCEPT ![p] = s]
  BY DEF HandlerInv, RefuseRefresh, Goto, Stage
<1>1. s \in SUBSET Generation
  <2>1. {req[p].cookie[1]} \cap LiveOf(req[p].user) \in SUBSET LiveOf(req[p].user)
    OBVIOUS
  <2> QED BY <1>0, <2>1, LiveFamilies
<1> HIDE DEF s
<1>2. req[p].user \in Users /\ req[p].before = {}
  BY <1>0 DEF Thread, Serves, ScopeCoversBefore
<1>3. pc'[p] = "revoke" /\ req'[p] = req[p]
  BY <1>0 DEF TypeOK
<1>4. HasSecrets(p)' /\ KeepsToAllowlist(p)'
  BY <1>3 DEF HasSecrets, KeepsToAllowlist
<1>5. Thread(p)'
  BY <1>2, <1>3, <1>4, FreshThread
<1>6. req' = [req EXCEPT ![p] = req[p]] /\ req[p] \in Request
  BY <1>0 DEF TypeOK
<1> QED BY <1>0, <1>1, <1>5, <1>6, GoesOn, NothingAges DEF TypeOK

LEMMA BeginChangeInv ==
  ASSUME HandlerInv, NEW p \in Proc, BeginChange(p)
  PROVE  HandlerInv'
<1>0. TypeOK
  BY DEF HandlerInv
<1>a. PICK u \in Users, s \in Secrets, n \in Secrets :
         \E c \in {None} \cup Generations(LiveOf(u)) :
            req' = [req EXCEPT ![p] = [NoRequest EXCEPT !.user = u, !.secret = s, !.new = n, !.cookie = c]]
  BY DEF BeginChange
<1>1. PICK c \in {None} \cup Generations(LiveOf(u)) :
         req' = [req EXCEPT ![p] = [NoRequest EXCEPT !.user = u, !.secret = s, !.new = n, !.cookie = c]]
  BY <1>a
<1> DEFINE r == [NoRequest EXCEPT !.user = u, !.secret = s, !.new = n, !.cookie = c]
<1>2. c \in Generation \cup {None}
  BY <1>0, LiveFamilies
<1>3. r \in Request /\ r.user = u /\ r.new = n /\ r.before = {}
  BY <1>2 DEF NoRequest, Request
<1>4. req' = [req EXCEPT ![p] = r]
  BY <1>1
<1> HIDE DEF r
<1>5. /\ pc' = [pc EXCEPT ![p] = "verify"] /\ UNCHANGED <<hash, email, allowed, family, scope>>
      /\ "verify" \in Stage
  BY DEF BeginChange, Goto, Stage
<1>6. pc'[p] = "verify" /\ req'[p] = r
  BY <1>0, <1>4, <1>5 DEF TypeOK
<1>7. HasSecrets(p)' /\ KeepsToAllowlist(p)'
  BY <1>3, <1>6 DEF HasSecrets, KeepsToAllowlist
<1>8. Thread(p)'
  BY <1>3, <1>6, <1>7, FreshThread
<1>9. scope' = [scope EXCEPT ![p] = scope[p]] /\ scope[p] \in SUBSET Generation
  BY <1>0, <1>5 DEF TypeOK
<1> QED BY <1>0, <1>3, <1>4, <1>5, <1>8, <1>9, GoesOn, NothingAges DEF TypeOK

LEMMA VerifyChangeInv ==
  ASSUME HandlerInv, NEW p \in Proc, VerifyChange(p)
  PROVE  HandlerInv'
<1>0. TypeOK /\ Thread(p) /\ pc[p] = "verify" /\ UNCHANGED <<hash, email, allowed, family>>
  BY DEF HandlerInv, VerifyChange
<1>1. CASE Return(p)
  BY <1>0, <1>1, EndsInv
<1>2. CASE pc' = [pc EXCEPT ![p] = "write"] /\ UNCHANGED <<req, scope>>
  <2>1. pc'[p] = "write" /\ req'[p] = req[p] /\ "write" \in Stage
    BY <1>0, <1>2 DEF TypeOK, Stage
  <2>2. Serves(p)' /\ HasSecrets(p)' /\ KeepsToAllowlist(p)' /\ ScopeCoversBefore(p)'
    BY <1>0, <2>1 DEF Thread, Serves, HasSecrets, KeepsToAllowlist, ScopeCoversBefore
  <2>3. BeforeIsPast(p)'
    BY <1>0, <1>2 DEF Thread, BeforeIsPast
  <2>4. Thread(p)'
    BY <2>2, <2>3 DEF Thread
  <2>5. /\ scope' = [scope EXCEPT ![p] = scope[p]] /\ scope[p] \in SUBSET Generation
        /\ req' = [req EXCEPT ![p] = req[p]] /\ req[p] \in Request
    BY <1>0, <1>2 DEF TypeOK
  <2> QED BY <1>0, <1>2, <2>1, <2>4, <2>5, GoesOn, NothingAges DEF TypeOK
<1> QED BY <1>1, <1>2 DEF VerifyChange, Goto

LEMMA WritePasswordInv ==
  ASSUME HandlerInv, NEW p \in Proc, WritePassword(p)
  PROVE  HandlerInv'
<1> DEFINE u == req[p].user
           b == Generations(LiveOf(u))
           r == [req[p] EXCEPT !.before = b]
           stage == IF req[p].cookie = None THEN "all" ELSE "others"
<1>0. /\ TypeOK /\ Thread(p) /\ pc[p] = "write" /\ UNCHANGED <<email, allowed, family, scope>>
      /\ pc' = [pc EXCEPT ![p] = stage] /\ stage \in Stage /\ stage \in {"all", "others"}
      /\ hash' = [hash EXCEPT ![u] = [secret |-> req[p].new, legacy |-> FALSE]]
      /\ req' = [req EXCEPT ![p] = r]
  BY DEF HandlerInv, WritePassword, Goto, Stage
<1>1. u \in Users /\ req[p].new \in Secrets /\ req[p] \in Request
  BY <1>0, ReqTypes DEF Thread, Serves, HasSecrets
<1>2. [secret |-> req[p].new, legacy |-> FALSE] \in Hash
  BY <1>1 DEF Hash
<1>3. hash' \in [Users -> Hash \cup {None}]
  BY <1>0, <1>2 DEF TypeOK
<1>4. /\ b \in SUBSET Generation
      /\ \A f, n : <<f, n>> \in b => f \in LiveOf(u) /\ n = family[f].gen
  BY <1>0, LiveFamilies
<1> HIDE DEF b
<1>5. r \in Request /\ r.user = u /\ r.before = b
  BY <1>1, <1>4 DEF Request
<1> HIDE DEF r, stage
<1>6. pc'[p] = stage /\ req'[p] = r
  BY <1>0 DEF TypeOK
<1>7. Serves(p)' /\ HasSecrets(p)' /\ KeepsToAllowlist(p)' /\ ScopeCoversBefore(p)'
  BY <1>0, <1>1, <1>5, <1>6 DEF Serves, HasSecrets, KeepsToAllowlist, ScopeCoversBefore
<1>8. BeforeIsPast(p)'
  <2> SUFFICES ASSUME NEW f \in Families, NEW n \in 0..MaxGen, <<f, n>> \in b
               PROVE  family[f] # None /\ family[f].user = u /\ n <= family[f].gen
    BY <1>0, <1>5, <1>6 DEF BeforeIsPast
  <2>1. f \in LiveOf(u) /\ n = family[f].gen
    BY <1>4
  <2>2. n \in Nat
    BY NoneAssumption
  <2> QED BY <1>0, <2>1, <2>2, LiveFamilies
<1>9. Thread(p)'
  BY <1>7, <1>8 DEF Thread
<1>10. scope' = [scope EXCEPT ![p] = scope[p]] /\ scope[p] \in SUBSET Generation
  BY <1>0 DEF TypeOK
<1> QED BY <1>0, <1>3, <1>5, <1>9, <1>10, GoesOn, NothingAges DEF TypeOK

\* What a password change revokes has every token it found that is still live
\* and not the caller's own.
LEMMA ScopeSuffices ==
  ASSUME TypeOK, NEW p \in Proc, BeforeIsPast(p), NEW K \in SUBSET Families,
         NEW f \in Families \ K, Live(f), <<f, family[f].gen>> \in req[p].before
  PROVE  <<f, family[f].gen>> \in Generations(LiveOf(req[p].user) \ K)
<1>1. family[f] # None /\ family[f].gen \in 0..MaxGen
  BY FamilyTypes DEF Live
<1>2. family[f].user = req[p].user
  BY <1>1 DEF BeforeIsPast
<1>3. f \in LiveOf(req[p].user) \ K
  BY <1>2 DEF LiveOf
<1> QED BY <1>3 DEF Generations

\* It starts for a request that is otherwise unchanged.
LEMMA StartRevokeInv ==
  ASSUME HandlerInv, NEW p \in Proc, pc[p] # "idle", NEW K \in SUBSET Families,
         NEW r \in Request, r.user = req[p].user, r.before = req[p].before, r.keeps = K,
         req' = [req EXCEPT ![p] = r],
         scope' = [scope EXCEPT ![p] = Generations(LiveOf(req[p].user) \ K)],
         pc' = [pc EXCEPT ![p] = "revoke"],
         UNCHANGED <<hash, email, allowed, family>>
  PROVE  HandlerInv'
<1> DEFINE s == Generations(LiveOf(req[p].user) \ K)
<1>0. TypeOK /\ Thread(p) /\ "revoke" \in Stage
  BY DEF HandlerInv, Stage
<1>1. s \in SUBSET Generation
  <2>1. LiveOf(req[p].user) \ K \in SUBSET LiveOf(req[p].user)
    OBVIOUS
  <2> QED BY <1>0, <2>1, LiveFamilies
<1>2. scope' = [scope EXCEPT ![p] = s]
  OBVIOUS
<1>3. \A f \in Families \ K : Live(f) /\ <<f, family[f].gen>> \in req[p].before
         => <<f, family[f].gen>> \in s
  BY <1>0, ScopeSuffices DEF Thread
<1> HIDE DEF s
<1>4. pc'[p] = "revoke" /\ req'[p] = r /\ scope'[p] = s
  BY <1>0, <1>2 DEF TypeOK
<1>5. Serves(p)' /\ HasSecrets(p)' /\ KeepsToAllowlist(p)'
  BY <1>0, <1>4 DEF Thread, Serves, HasSecrets, KeepsToAllowlist
<1>6. BeforeIsPast(p)'
  BY <1>0, <1>4 DEF Thread, BeforeIsPast
<1>7. ScopeCoversBefore(p)'
  BY <1>3, <1>4 DEF ScopeCoversBefore, Live
<1>8. Thread(p)'
  BY <1>5, <1>6, <1>7 DEF Thread
<1> QED BY <1>0, <1>1, <1>2, <1>8, GoesOn, NothingAges DEF TypeOK

LEMMA StartRevokeOthersInv ==
  ASSUME HandlerInv, NEW p \in Proc, StartRevokeOthers(p)
  PROVE  HandlerInv'
<1> DEFINE g == req[p].cookie[1]
<1>0. /\ TypeOK /\ Thread(p) /\ pc[p] = "others" /\ UNCHANGED <<hash, email, allowed, family>>
      /\ req[p] \in Request
  BY ReqTypes DEF HandlerInv, StartRevokeOthers
<1>1. CASE /\ req[p].cookie \in Generations(LiveOf(req[p].user))
           /\ req' = [req EXCEPT ![p].keeps = {g}]
           /\ scope' = [scope EXCEPT ![p] = Generations(LiveOf(req[p].user) \ {g})]
           /\ pc' = [pc EXCEPT ![p] = "revoke"]
  <2>1. g \in Families
    <3>1. req[p].cookie \in Generation
      BY <1>0, <1>1, LiveFamilies
    <3> QED BY <3>1 DEF Generation
  <2> HIDE DEF g
  <2> DEFINE r == [req[p] EXCEPT !.keeps = {g}]
  <2>2. r \in Request /\ r.user = req[p].user /\ r.before = req[p].before /\ r.keeps = {g}
    BY <1>0, <2>1 DEF Request
  <2>3. req' = [req EXCEPT ![p] = r]
    BY <1>1
  <2> HIDE DEF r
  <2> QED BY <1>0, <1>1, <2>1, <2>2, <2>3, StartRevokeInv
<1>2. CASE pc' = [pc EXCEPT ![p] = "all"] /\ UNCHANGED <<req, scope>>
  <2>1. pc'[p] = "all" /\ req'[p] = req[p] /\ "all" \in Stage
    BY <1>0, <1>2 DEF TypeOK, Stage
  <2>2. Serves(p)' /\ HasSecrets(p)' /\ KeepsToAllowlist(p)' /\ ScopeCoversBefore(p)'
    BY <1>0, <2>1 DEF Thread, Serves, HasSecrets, KeepsToAllowlist, ScopeCoversBefore
  <2>3. BeforeIsPast(p)'
    BY <1>0, <1>2 DEF Thread, BeforeIsPast
  <2>4. Thread(p)'
    BY <2>2, <2>3 DEF Thread
  <2>5. /\ scope' = [scope EXCEPT ![p] = scope[p]] /\ scope[p] \in SUBSET Generation
        /\ req' = [req EXCEPT ![p] = req[p]]
    BY <1>0, <1>2 DEF TypeOK
  <2> QED BY <1>0, <1>2, <2>1, <2>4, <2>5, GoesOn, NothingAges DEF TypeOK
<1> QED BY <1>1, <1>2 DEF StartRevokeOthers, Goto

LEMMA StartRevokeAllInv ==
  ASSUME HandlerInv, NEW p \in Proc, StartRevokeAll(p)
  PROVE  HandlerInv'
<1>0. /\ TypeOK /\ Thread(p) /\ pc[p] = "all" /\ UNCHANGED <<hash, email, allowed, family, req>>
      /\ pc' = [pc EXCEPT ![p] = "revoke"] /\ "revoke" \in Stage
      /\ scope' = [scope EXCEPT ![p] = Generations(LiveOf(req[p].user))]
      /\ req[p] \in Request
  BY ReqTypes DEF HandlerInv, StartRevokeAll, Goto, Stage
<1> DEFINE s == Generations(LiveOf(req[p].user))
<1>1. s \in SUBSET Generation
  BY <1>0, LiveFamilies
<1>2. \A f \in Families : Live(f) /\ <<f, family[f].gen>> \in req[p].before
         => <<f, family[f].gen>> \in s
  <2>1. LiveOf(req[p].user) \ {} = LiveOf(req[p].user)
    OBVIOUS
  <2> QED BY <1>0, <2>1, ScopeSuffices DEF Thread
<1> HIDE DEF s
<1>3. scope' = [scope EXCEPT ![p] = s] /\ req' = [req EXCEPT ![p] = req[p]]
  BY <1>0 DEF s, TypeOK
<1>4. pc'[p] = "revoke" /\ req'[p] = req[p] /\ scope'[p] = s
  BY <1>0, <1>3 DEF TypeOK
<1>5. Serves(p)' /\ HasSecrets(p)' /\ KeepsToAllowlist(p)'
  BY <1>0, <1>4 DEF Thread, Serves, HasSecrets, KeepsToAllowlist
<1>6. BeforeIsPast(p)'
  BY <1>0, <1>4 DEF Thread, BeforeIsPast
<1>7. ScopeCoversBefore(p)'
  BY <1>0, <1>2, <1>4 DEF ScopeCoversBefore, Live
<1>8. Thread(p)'
  BY <1>5, <1>6, <1>7 DEF Thread
<1> QED BY <1>0, <1>1, <1>3, <1>8, GoesOn, NothingAges DEF TypeOK

LEMMA BeginProfileInv ==
  ASSUME HandlerInv, NEW p \in Proc, BeginProfile(p)
  PROVE  HandlerInv'
<1>0. TypeOK
  BY DEF HandlerInv
<1>1. PICK u \in Users, e \in Emails :
         /\ e \in allowed
         /\ req' = [req EXCEPT ![p] = [NoRequest EXCEPT !.user = u, !.email = e]]
  BY DEF BeginProfile, Permitted
<1> DEFINE r == [NoRequest EXCEPT !.user = u, !.email = e]
<1>2. r \in Request /\ r.user = u /\ r.email = e /\ r.before = {}
  BY DEF NoRequest, Request
<1>3. req' = [req EXCEPT ![p] = r]
  BY <1>1
<1> HIDE DEF r
<1>4. /\ pc' = [pc EXCEPT ![p] = "profile"] /\ UNCHANGED <<hash, email, allowed, family, scope>>
      /\ "profile" \in Stage
  BY DEF BeginProfile, Goto, Stage
<1>5. pc'[p] = "profile" /\ req'[p] = r
  BY <1>0, <1>3, <1>4 DEF TypeOK
<1>6. HasSecrets(p)'
  BY <1>5 DEF HasSecrets
<1>7. KeepsToAllowlist(p)'
  BY <1>1, <1>2, <1>4, <1>5 DEF KeepsToAllowlist
<1>8. Thread(p)'
  BY <1>2, <1>5, <1>6, <1>7, FreshThread
<1>9. scope' = [scope EXCEPT ![p] = scope[p]] /\ scope[p] \in SUBSET Generation
  BY <1>0, <1>4 DEF TypeOK
<1> QED BY <1>0, <1>2, <1>3, <1>4, <1>8, <1>9, GoesOn, NothingAges DEF TypeOK

-----------------------------------------------------------------------------
\* A redeployment may change the allowlist because no request survives it.
LEMMA RedeployInv ==
  ASSUME HandlerInv, Redeploy
  PROVE  HandlerInv'
<1>1. TypeOK'
  BY NoRequestType DEF HandlerInv, TypeOK, Redeploy, Stage
<1>2. ASSUME NEW p \in Proc PROVE Thread(p)'
  <2>1. pc'[p] = "idle" /\ req'[p] = NoRequest
    BY DEF Redeploy
  <2> QED BY <2>1, NoRequestType
          DEF Thread, Serves, HasSecrets, KeepsToAllowlist, BeforeIsPast, ScopeCoversBefore
<1> QED BY <1>1, <1>2 DEF HandlerInv

LEMMA InitInv ==
  Init => HandlerInv
<1> SUFFICES ASSUME Init PROVE HandlerInv
  OBVIOUS
<1>1. TypeOK
  BY NoRequestType DEF Init, TypeOK, Stage
<1>2. ASSUME NEW p \in Proc PROVE Thread(p)
  <2>1. pc[p] = "idle" /\ req[p] = NoRequest
    BY DEF Init
  <2> QED BY <2>1, NoRequestType
          DEF Thread, Serves, HasSecrets, KeepsToAllowlist, BeforeIsPast, ScopeCoversBefore
<1> QED BY <1>1, <1>2 DEF HandlerInv

LEMMA NextInv ==
  HandlerInv /\ [Next]_vars => HandlerInv'
<1> SUFFICES ASSUME HandlerInv, [Next]_vars PROVE HandlerInv'
  OBVIOUS
<1>1. CASE UNCHANGED vars
  BY <1>1 DEF vars, HandlerInv, TypeOK, Thread, Serves, HasSecrets, KeepsToAllowlist, IsAllowed,
              BeforeIsPast, ScopeCoversBefore, Live
<1>2. CASE Redeploy
  BY <1>2, RedeployInv
<1>3. ASSUME NEW p \in Proc, Step(p) PROVE HandlerInv'
  <2>1. CASE BeginLogin(p) \/ UpgradeHash(p) \/ OpenSession(p)
    BY <2>1, BeginLoginInv, UpgradeHashInv, OpenSessionInv
  <2>2. CASE Rotate(p) \/ EndFamily(p) \/ RefuseRefresh(p)
    BY <2>2, RotateInv, EndFamilyInv, RefuseRefreshInv
  <2>3. CASE BeginChange(p) \/ VerifyChange(p) \/ WritePassword(p)
    BY <2>3, BeginChangeInv, VerifyChangeInv, WritePasswordInv
  <2>4. CASE StartRevokeOthers(p) \/ StartRevokeAll(p) \/ FinishRevoke(p)
    BY <2>4, StartRevokeOthersInv, StartRevokeAllInv, FinishRevokeInv
  <2>5. CASE BeginRegister(p) \/ CreateUser(p) \/ BeginProfile(p) \/ WriteProfile(p)
    BY <2>5, BeginRegisterInv, CreateUserInv, BeginProfileInv, WriteProfileInv
  <2>6. CASE GrantRefresh(p) \/ Die(p)
    BY <2>6, EndsInv DEF GrantRefresh, Die
  <2> QED BY <1>3, <2>1, <2>2, <2>3, <2>4, <2>5, <2>6 DEF Step
<1> QED BY <1>1, <1>2, <1>3 DEF Next

\* The handlers of overlapping requests always satisfy the invariant: what one
\* found before another's transaction still holds where it relies on it.
THEOREM HandlersInvariant == Spec => []HandlerInv
  BY InitInv, NextInv, PTL DEF Spec

\* Every variable of the handlers keeps its type, so no handler acts for a user
\* that is not there and no family goes beyond its bound.
THEOREM HandlersTypeCorrect == Spec => []TypeOK
<1>1. HandlerInv => TypeOK
  BY DEF HandlerInv
<1> QED BY <1>1, HandlersInvariant, PTL

-----------------------------------------------------------------------------
\* No session is opened or extended for an address off the allowlist, however
\* a login or a refresh overlaps profile updates and redeployments.
THEOREM AllowlistHolds == Spec => AllowlistEnforced
<1>1. HandlerInv /\ [Next]_vars =>
        [\A p \in Proc : OpenSession(p) \/ GrantRefresh(p) => IsAllowed(req[p].user)]_vars
  <2> SUFFICES ASSUME HandlerInv, NEW p \in Proc, OpenSession(p) \/ GrantRefresh(p)
               PROVE  IsAllowed(req[p].user)
    OBVIOUS
  <2>1. CASE OpenSession(p)
    BY <2>1 DEF HandlerInv, OpenSession, Thread, KeepsToAllowlist
  <2>2. CASE GrantRefresh(p)
    BY <2>2 DEF GrantRefresh
  <2> QED BY <2>1, <2>2
<1> QED BY <1>1, HandlersInvariant, PTL DEF Spec, AllowlistEnforced

\* A password change that returns leaves no token live that was live when the
\* new password was written, but those of the caller's own family, although the
\* write and the revocation are two transactions and others run in between.
THEOREM ChangeRevokes == Spec => ChangeRevokesWhatWasThere
<1>1. HandlerInv /\ [Next]_vars =>
        [\A p \in Proc : FinishRevoke(p) =>
            \A f \in Families \ req[p].keeps :
                Live(f)' => <<f, family'[f].gen>> \notin req[p].before]_vars
  <2> SUFFICES ASSUME HandlerInv, NEW p \in Proc, FinishRevoke(p),
                      NEW f \in Families \ req[p].keeps, Live(f)',
                      <<f, family'[f].gen>> \in req[p].before
               PROVE  FALSE
    OBVIOUS
  <2>1. /\ TypeOK /\ pc[p] = "revoke" /\ Thread(p)
        /\ family' = [g \in Families |-> IF Ends(p, g) THEN [family[g] EXCEPT !.live = FALSE] ELSE family[g]]
    BY DEF HandlerInv, FinishRevoke
  <2>2. CASE Ends(p, f)
    <3>1. family[f] \in Family /\ family'[f] = [family[f] EXCEPT !.live = FALSE]
      BY <2>1, <2>2, FamilyTypes DEF Ends, Live
    <3> QED BY <3>1 DEF Family, Live
  <2>3. CASE ~Ends(p, f)
    <3>1. family'[f] = family[f] /\ Live(f)
      BY <2>1, <2>3 DEF Live
    <3> QED BY <2>1, <2>3, <3>1 DEF Thread, ScopeCoversBefore, Ends
  <2> QED BY <2>2, <2>3
<1> QED BY <1>1, HandlersInvariant, PTL DEF Spec, ChangeRevokesWhatWasThere

-----------------------------------------------------------------------------
(* The handlers use the session table as SessionFamilies promises it, which is *)
(* what RefreshSessionsProofs shows of the table itself.                       *)

\* What the handlers see of the session table, in the terms of SessionFamilies:
\* a generation is a token, and those before the live one are spent.
CurrentGeneration == [f \in Families |-> IF Live(f) THEN <<f, family[f].gen>> ELSE None]

Spent(f, n) ==
    /\ family[f] # None /\ n <= family[f].gen
    /\ family[f].live => n < family[f].gen

SpentGenerations == {g \in Generation : Spent(g[1], g[2])}

OpenedByLogin == {f \in Families : family[f] # None}

Promise == INSTANCE SessionFamilies
           WITH Tokens <- Generation, opened <- OpenedByLogin, current <- CurrentGeneration,
                spent <- SpentGenerations

LEMMA GenerationsAreTokens ==
  ASSUME TypeOK, NEW f \in Families, family[f] # None
  PROVE  <<f, family[f].gen>> \in Generation /\ <<f, family[f].gen>> # None
  BY FamilyTypes, RecordAssumption DEF Generation

\* Which generations are spent, element by element.
LEMMA SpentGrows ==
  ASSUME NEW C \in SUBSET Generation,
         \A f \in Families, n \in 0..MaxGen : Spent(f, n)' <=> Spent(f, n) \/ <<f, n>> \in C
  PROVE  SpentGenerations' = SpentGenerations \cup C
<1>1. \A g \in Generation : /\ g = <<g[1], g[2]>> /\ g[1] \in Families /\ g[2] \in 0..MaxGen
  BY DEF Generation
<1>2. \A g \in Generation : Spent(g[1], g[2])' <=> Spent(g[1], g[2]) \/ g \in C
  BY <1>1
<1> QED BY <1>2 DEF SpentGenerations

\* Families that end spend their current tokens.
LEMMA EndingSpends ==
  ASSUME TypeOK, TypeOK', NEW D \in SUBSET Families,
         \A g \in D : Live(g) /\ family'[g] = [family[g] EXCEPT !.live = FALSE]
  PROVE  /\ Promise!CurrentOf(D) = Generations(D) /\ Generations(D) \in SUBSET Generation
         /\ \A g \in D, n \in 0..MaxGen : Spent(g, n)' <=> Spent(g, n) \/ <<g, n>> \in Generations(D)
         /\ \A g \in D : CurrentGeneration'[g] = None /\ g \in OpenedByLogin /\ g \in OpenedByLogin'
<1>1. \A g \in D : /\ g \in Families /\ family[g] # None /\ family[g].live /\ family[g] \in Family
                   /\ family[g].gen \in Nat
  BY FamilyTypes DEF Live
<1>2. \A g \in D : <<g, family[g].gen>> \in Generation /\ <<g, family[g].gen>> # None
  BY <1>1, GenerationsAreTokens
<1>3. Promise!CurrentOf(D) = Generations(D)
  <2>1. \A g \in D : CurrentGeneration[g] = <<g, family[g].gen>>
    BY <1>1 DEF CurrentGeneration
  <2>2. {CurrentGeneration[g] : g \in D} = Generations(D)
    BY <2>1 DEF Generations
  <2>3. None \notin Generations(D)
    BY <1>2 DEF Generations
  <2> QED BY <2>2, <2>3 DEF Promise!CurrentOf
<1>4. \A g \in D : [family[g] EXCEPT !.live = FALSE] \in Family
  BY <1>1 DEF Family
<1>5. \A g \in D : /\ family'[g] # None /\ ~family'[g].live /\ family'[g].gen = family[g].gen
  BY <1>1, <1>4, RecordAssumption DEF Family
<1>6. ASSUME NEW g \in D, NEW n \in 0..MaxGen
      PROVE  Spent(g, n)' <=> Spent(g, n) \/ <<g, n>> \in Generations(D)
  <2>1. n \in Nat
    BY NoneAssumption
  <2>2. <<g, n>> \in Generations(D) <=> n = family[g].gen
    BY DEF Generations
  <2> QED BY <1>1, <1>5, <2>1, <2>2 DEF Spent
<1>7. \A g \in D : CurrentGeneration'[g] = None /\ g \in OpenedByLogin /\ g \in OpenedByLogin'
  BY <1>1, <1>5 DEF CurrentGeneration, Live, OpenedByLogin
<1>8. Generations(D) \in SUBSET Generation
  BY <1>2 DEF Generations
<1> QED BY <1>3, <1>6, <1>7, <1>8

\* The rest of the table stays.
LEMMA RestStays ==
  ASSUME NEW g \in Families, family'[g] = family[g]
  PROVE  /\ CurrentGeneration'[g] = CurrentGeneration[g] /\ (g \in OpenedByLogin' <=> g \in OpenedByLogin)
         /\ \A n : Spent(g, n)' <=> Spent(g, n)
  BY DEF CurrentGeneration, Live, OpenedByLogin, Spent

\* A token of a family that is not open, or after its live one, is new.
LEMMA NewToken ==
  ASSUME TypeOK, NEW f \in Families, NEW n \in 0..MaxGen,
         family[f] # None => family[f].gen < n
  PROVE  <<f, n>> \in Generation /\ <<f, n>> \notin Promise!Issued
<1>1. <<f, n>> \in Generation /\ <<f, n>> # None
  BY RecordAssumption DEF Generation
<1>2. ~Spent(f, n)
  BY FamilyTypes, NoneAssumption DEF Spent
<1>3. ASSUME NEW g \in Families PROVE CurrentGeneration[g] # <<f, n>>
  <2>1. CASE Live(g)
    <3>1. family[g] # None /\ family[g].gen \in Nat /\ CurrentGeneration[g] = <<g, family[g].gen>>
      BY <2>1, FamilyTypes DEF Live, CurrentGeneration
    <3> QED BY <3>1, NoneAssumption
  <2>2. CASE ~Live(g)
    BY <1>1, <2>2 DEF CurrentGeneration
  <2> QED BY <2>1, <2>2
<1> QED BY <1>1, <1>2, <1>3 DEF Promise!Issued, SpentGenerations

LEMMA FinishRevokeEnds ==
  ASSUME TypeOK, TypeOK', NEW p \in Proc, FinishRevoke(p)
  PROVE  Promise!Next
<1> DEFINE D == {f \in Families : Ends(p, f)}
<1>1. family' = [f \in Families |-> IF Ends(p, f) THEN [family[f] EXCEPT !.live = FALSE] ELSE family[f]]
  BY DEF FinishRevoke
<1>2. \A g \in D : Live(g) /\ family'[g] = [family[g] EXCEPT !.live = FALSE]
  BY <1>1 DEF Ends
<1>3. \A g \in Families \ D : family'[g] = family[g]
  BY <1>1
<1>4. D \in SUBSET Families
  OBVIOUS
<1> HIDE DEF D
<1>5. \A f \in Families, n \in 0..MaxGen : Spent(f, n)' <=> Spent(f, n) \/ <<f, n>> \in Generations(D)
  <2> SUFFICES ASSUME NEW f \in Families, NEW n \in 0..MaxGen
               PROVE  Spent(f, n)' <=> Spent(f, n) \/ <<f, n>> \in Generations(D)
    OBVIOUS
  <2>1. CASE f \in D
    BY <1>2, <1>4, <2>1, EndingSpends
  <2>2. CASE f \notin D
    BY <1>3, <2>2, RestStays DEF Generations
  <2> QED BY <2>1, <2>2
<1>6. CurrentGeneration' = Promise!Without(D)
  <2>1. \A g \in Families : CurrentGeneration'[g] = IF g \in D THEN None ELSE CurrentGeneration[g]
    BY <1>2, <1>3, <1>4, EndingSpends, RestStays
  <2>2. CurrentGeneration' = [g \in Families |-> CurrentGeneration'[g]]
    BY DEF CurrentGeneration
  <2> HIDE DEF CurrentGeneration
  <2> QED BY <2>1, <2>2 DEF Promise!Without
<1>7. OpenedByLogin' = OpenedByLogin /\ D \in SUBSET OpenedByLogin
  <2>1. \A g \in Families : g \in OpenedByLogin' <=> g \in OpenedByLogin
    BY <1>2, <1>3, <1>4, EndingSpends, RestStays
  <2>2. OpenedByLogin' \in SUBSET Families /\ OpenedByLogin \in SUBSET Families
    BY DEF OpenedByLogin
  <2> QED BY <1>2, <1>4, <2>1, <2>2, EndingSpends
<1>8. SpentGenerations' = SpentGenerations \cup Promise!CurrentOf(D)
  BY <1>2, <1>4, <1>5, EndingSpends, SpentGrows
<1>9. Promise!End(D)
  BY <1>6, <1>7, <1>8 DEF Promise!End
<1> QED BY <1>7, <1>9 DEF Promise!Next

LEMMA OpenSessionOpens ==
  ASSUME HandlerInv, TypeOK', NEW p \in Proc, OpenSession(p)
  PROVE  Promise!Next
<1>0. TypeOK /\ req[p].user \in Users
  BY DEF HandlerInv, OpenSession, Thread, Serves
<1>1. PICK f \in Families, D \in SUBSET LiveOf(req[p].user) :
         /\ family[f] = None
         /\ family' = [g \in Families |->
               IF g = f THEN [user |-> req[p].user, gen |-> 0, live |-> TRUE]
               ELSE IF g \in D THEN [family[g] EXCEPT !.live = FALSE] ELSE family[g]]
  BY DEF OpenSession
<1> DEFINE t == <<f, 0>>
<1>2. /\ f \notin D /\ D \in SUBSET Families
      /\ \A g \in D : Live(g) /\ family'[g] = [family[g] EXCEPT !.live = FALSE]
  BY <1>1 DEF LiveOf, Live
<1>3. \A g \in Families \ (D \cup {f}) : family'[g] = family[g]
  BY <1>1
<1>4. family'[f] = [user |-> req[p].user, gen |-> 0, live |-> TRUE] /\ family'[f] # None
  <2>1. family'[f] = [user |-> req[p].user, gen |-> 0, live |-> TRUE]
    BY <1>1
  <2>2. [user |-> req[p].user, gen |-> 0, live |-> TRUE] \in Family
    BY <1>0, NoneAssumption DEF Family
  <2> QED BY <2>1, <2>2, RecordAssumption
<1>5. 0 \in 0..MaxGen
  BY NoneAssumption
<1>6. t \in Generation /\ t \notin Promise!Issued
  BY <1>0, <1>1, <1>5, NewToken
<1>7. \A g \in Families, n \in 0..MaxGen : Spent(g, n)' <=> Spent(g, n) \/ <<g, n>> \in Generations(D)
  <2> SUFFICES ASSUME NEW g \in Families, NEW n \in 0..MaxGen
               PROVE  Spent(g, n)' <=> Spent(g, n) \/ <<g, n>> \in Generations(D)
    OBVIOUS
  <2>1. CASE g \in D
    BY <1>2, <2>1, <1>0, EndingSpends
  <2>2. CASE g = f
    BY <1>1, <1>2, <1>4, <2>2, NoneAssumption DEF Spent, Generations
  <2>3. CASE g \notin D \cup {f}
    BY <1>3, <2>3, RestStays DEF Generations
  <2> QED BY <2>1, <2>2, <2>3
<1>8. CurrentGeneration' = [Promise!Without(D) EXCEPT ![f] = t]
  <2>1. CurrentGeneration'[f] = t
    BY <1>4 DEF CurrentGeneration, Live
  <2>2. \A g \in Families : CurrentGeneration'[g] =
           IF g = f THEN t ELSE IF g \in D THEN None ELSE CurrentGeneration[g]
    BY <1>2, <1>3, <2>1, <1>0, EndingSpends, RestStays
  <2>3. CurrentGeneration' = [g \in Families |-> CurrentGeneration'[g]]
    BY DEF CurrentGeneration
  <2> HIDE DEF t
  <2> QED BY <2>2, <2>3 DEF Promise!Without
<1>9. OpenedByLogin' = OpenedByLogin \cup {f} /\ f \notin OpenedByLogin /\ D \in SUBSET OpenedByLogin
  <2>1. \A g \in Families \ {f} : g \in OpenedByLogin' <=> g \in OpenedByLogin
    BY <1>2, <1>3, <1>0, EndingSpends, RestStays
  <2>2. /\ OpenedByLogin' \in SUBSET Families /\ OpenedByLogin \in SUBSET Families
        /\ f \in OpenedByLogin' /\ f \notin OpenedByLogin
    BY <1>1, <1>4 DEF OpenedByLogin
  <2>3. OpenedByLogin' = OpenedByLogin \cup {f}
    BY <2>1, <2>2
  <2>4. D \in SUBSET OpenedByLogin
    BY <1>2 DEF OpenedByLogin, Live
  <2> QED BY <2>2, <2>3, <2>4
<1>10. SpentGenerations' = SpentGenerations \cup Promise!CurrentOf(D)
  BY <1>2, <1>7, <1>0, EndingSpends, SpentGrows
<1> HIDE DEF t
<1>11. Promise!Open(f, t, D)
  BY <1>6, <1>8, <1>9, <1>10 DEF Promise!Open
<1> QED BY <1>6, <1>9, <1>11 DEF Promise!Next

LEMMA RotateRotates ==
  ASSUME TypeOK, TypeOK', NEW p \in Proc, Rotate(p)
  PROVE  Promise!Next
<1>1. PICK f \in Families : /\ Live(f) /\ family[f].gen < MaxGen
                            /\ family' = [family EXCEPT ![f].gen = @ + 1]
  BY DEF Rotate
<1> DEFINE n == family[f].gen
           t == <<f, n + 1>>
<1>2. family[f] # None /\ family[f] \in Family /\ n \in Nat /\ n + 1 \in 0..MaxGen /\ family[f].live
  BY <1>1, FamilyTypes, NoneAssumption DEF Live
<1>3. /\ family'[f] = [family[f] EXCEPT !.gen = n + 1]
      /\ \A g \in Families \ {f} : family'[g] = family[g]
  BY <1>1, FamilyTypes
<1>4. [family[f] EXCEPT !.gen = n + 1] \in Family
  BY <1>2 DEF Family
<1>5. family'[f] # None /\ family'[f].gen = n + 1 /\ family'[f].live
  BY <1>2, <1>3, <1>4, RecordAssumption DEF Family
<1>6. t \in Generation /\ t \notin Promise!Issued
  BY <1>2, NewToken
<1>7. <<f, n>> \in Generation /\ <<f, n>> # None /\ CurrentGeneration[f] = <<f, n>>
  BY <1>1, <1>2, GenerationsAreTokens DEF CurrentGeneration
<1>8. \A g \in Families, m \in 0..MaxGen : Spent(g, m)' <=> Spent(g, m) \/ <<g, m>> \in {<<f, n>>}
  <2> SUFFICES ASSUME NEW g \in Families, NEW m \in 0..MaxGen
               PROVE  Spent(g, m)' <=> Spent(g, m) \/ <<g, m>> \in {<<f, n>>}
    OBVIOUS
  <2>1. CASE g = f
    BY <1>2, <1>5, <2>1, NoneAssumption DEF Spent
  <2>2. CASE g # f
    BY <1>3, <2>2, RestStays
  <2> QED BY <2>1, <2>2
<1>9. SpentGenerations' = SpentGenerations \cup {CurrentGeneration[f]}
  <2>1. {<<f, n>>} \in SUBSET Generation
    BY <1>7
  <2>2. SpentGenerations' = SpentGenerations \cup {<<f, n>>}
    BY <1>8, <2>1, SpentGrows
  <2> QED BY <1>7, <2>2
<1>10. CurrentGeneration' = [CurrentGeneration EXCEPT ![f] = t]
  <2>1. CurrentGeneration'[f] = t
    BY <1>5 DEF CurrentGeneration, Live
  <2>2. \A g \in Families : CurrentGeneration'[g] = IF g = f THEN t ELSE CurrentGeneration[g]
    BY <1>3, <2>1, RestStays
  <2>3. /\ CurrentGeneration' = [g \in Families |-> CurrentGeneration'[g]]
        /\ CurrentGeneration = [g \in Families |-> CurrentGeneration[g]]
    BY DEF CurrentGeneration
  <2> HIDE DEF t
  <2> QED BY <2>2, <2>3
<1>11. OpenedByLogin' = OpenedByLogin
  <2>1. \A g \in Families : g \in OpenedByLogin' <=> g \in OpenedByLogin
    BY <1>2, <1>3, <1>5, RestStays DEF OpenedByLogin
  <2> QED BY <2>1 DEF OpenedByLogin
<1> HIDE DEF t
<1>12. Promise!Rotate(f, t)
  BY <1>6, <1>7, <1>9, <1>10, <1>11 DEF Promise!Rotate
<1> QED BY <1>6, <1>12 DEF Promise!Next

\* Whatever the handlers of overlapping requests do, they use the session table
\* as SessionFamilies promises: no ended family lives again, no spent token
\* becomes current.
THEOREM HandlersKeepPromise == Spec => Promise!Spec
<1>1. Init => Promise!Init
  <2> SUFFICES ASSUME Init PROVE Promise!Init
    OBVIOUS
  <2>1. \A f \in Families : family[f] = None
    BY DEF Init
  <2>2. OpenedByLogin = {} /\ CurrentGeneration = [f \in Families |-> None]
    BY <2>1 DEF OpenedByLogin, CurrentGeneration, Live
  <2>3. SpentGenerations = {}
    BY <2>1 DEF SpentGenerations, Spent, Generation
  <2> QED BY <2>2, <2>3 DEF Promise!Init
<1>2. HandlerInv /\ HandlerInv' /\ [Next]_vars => [Promise!Next]_(Promise!vars)
  <2> SUFFICES ASSUME HandlerInv, HandlerInv', [Next]_vars
               PROVE  Promise!Next \/ UNCHANGED Promise!vars
    OBVIOUS
  <2>1. TypeOK /\ TypeOK'
    BY DEF HandlerInv
  <2>2. CASE UNCHANGED family
    BY <2>2 DEF Promise!vars, OpenedByLogin, CurrentGeneration, SpentGenerations, Spent, Live
  <2>3. ASSUME NEW p \in Proc, FinishRevoke(p) \/ OpenSession(p) \/ Rotate(p) PROVE Promise!Next
    BY <2>1, <2>3, FinishRevokeEnds, OpenSessionOpens, RotateRotates
  <2>4. UNCHANGED family \/ \E p \in Proc : FinishRevoke(p) \/ OpenSession(p) \/ Rotate(p)
    BY DEF Next, Step, vars, Redeploy, BeginLogin, UpgradeHash, EndFamily, GrantRefresh, RefuseRefresh,
           BeginChange, VerifyChange, WritePassword, StartRevokeOthers, StartRevokeAll, BeginRegister,
           CreateUser, BeginProfile, WriteProfile, Die
  <2> QED BY <2>2, <2>3, <2>4
<1> QED BY <1>1, <1>2, HandlersInvariant, PTL DEF Spec, Promise!Spec
=============================================================================
