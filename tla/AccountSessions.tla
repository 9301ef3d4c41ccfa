-------------------------- MODULE AccountSessions --------------------------
(***************************************************************************)
(* The authentication handlers (app/api/auth.py) that span several         *)
(* database transactions: registration, login, refresh, change-password    *)
(* and the profile update, with the allowlist check of                     *)
(* app/services/auth_service.py and app/config.py.  Each action is one     *)
(* transaction of a handler; the handlers of different requests interleave *)
(* between them.  Throttling is in LoginRateLimit.                         *)
(*                                                                         *)
(* The session table is used through what RefreshSessions shows of it: a   *)
(* family has a current generation (its live row), a rotation replaces it, *)
(* and a revocation ends exactly the generations its UPDATE found when it  *)
(* started that have not been replaced when it commits.  Time passes only  *)
(* in RefreshSessions: here a token may turn out to be expired at any use.  *)
(***************************************************************************)
EXTENDS Naturals, FiniteSets

CONSTANTS
    Users, Emails, Secrets, Families, Proc, None,
    MaxGen     \* bound on the rotations of a family

ASSUME NoneAssumption == /\ None \notin Users \cup Emails \cup Secrets \cup Families \cup Proc
                         /\ MaxGen \in Nat

VARIABLES
    hash,       \* users.password_hash: the secret it is of, and whether bcrypt;
                \* None for a name that is not registered
    email,      \* users.email, unique
    allowed,    \* ALLOWED_USER_EMAILS of the running deployment
    family,     \* session families, None before they are opened
    pc, req,    \* each thread's next transaction and the request it serves
    scope       \* generations a running revocation found; <<family, gen>> pairs

vars == <<hash, email, allowed, family, pc, req, scope>>

Generation == Families \X (0..MaxGen)

Family == [user: Users, gen: 0..MaxGen, live: BOOLEAN]

Hash == [secret: Secrets, legacy: BOOLEAN]

ASSUME RecordAssumption == None \notin Family \cup Hash \cup Generation

Request == [user: Users \cup {None}, secret: Secrets \cup {None}, new: Secrets \cup {None},
            cookie: Generation \cup {None}, email: Emails \cup {None},
            keeps: SUBSET Families, before: SUBSET Generation]

NoRequest == [user |-> None, secret |-> None, new |-> None, cookie |-> None,
              email |-> None, keeps |-> {}, before |-> {}]

Stage == {"idle", "upgrade", "open", "check", "verify", "write", "others", "all",
          "revoke", "profile", "create"}

TypeOK ==
    /\ hash \in [Users -> Hash \cup {None}]
    /\ email \in [Users -> Emails \cup {None}]
    /\ allowed \in SUBSET Emails
    /\ family \in [Families -> Family \cup {None}]
    /\ pc \in [Proc -> Stage]
    /\ req \in [Proc -> Request]
    /\ scope \in [Proc -> SUBSET Generation]

-----------------------------------------------------------------------------
(* Definitions called Mutant_... are deliberate mistakes that nothing refers *)
(* to: each replaces the definition after it to see a property fail.         *)

Live(f) == family[f] # None /\ family[f].live

LiveOf(u) == {f \in Families : Live(f) /\ family[f].user = u}

Generations(F) == {<<f, family[f].gen>> : f \in F}

IsAllowed(u) == email[u] \in allowed

Mutant_AnyAddress(e) == TRUE

\* settings.is_email_allowed of the address a profile update asks for.
Permitted(e) == e \in allowed

\* get_current_user: the JWT's family is active and the account is allowed.
Authenticated(u, f) == f \in LiveOf(u) /\ IsAllowed(u)

\* UNIQUE (email): what an INSERT or UPDATE for user u finds.
IsFree(e, u) == \A v \in Users \ {u} : email[v] # e

Goto(p, stage) == pc' = [pc EXCEPT ![p] = stage]

Return(p) ==
    /\ Goto(p, "idle")
    /\ req' = [req EXCEPT ![p] = NoRequest]
    /\ scope' = [scope EXCEPT ![p] = {}]

-----------------------------------------------------------------------------
(* POST /auth/register, where REGISTRATION_ENABLED: two lookups, then the     *)
(* INSERT, which fails when the name or the address was taken in between.     *)

BeginRegister(p) ==
    \E u \in Users, e \in Emails, s \in Secrets :
        /\ pc[p] = "idle"
        /\ hash[u] = None /\ Permitted(e) /\ IsFree(e, u)
        /\ req' = [req EXCEPT ![p] = [NoRequest EXCEPT !.user = u, !.email = e, !.new = s]]
        /\ Goto(p, "create")
        /\ UNCHANGED <<hash, email, allowed, family, scope>>

\* create_user
CreateUser(p) ==
    LET u == req[p].user IN
    /\ pc[p] = "create"
    /\ IF hash[u] = None /\ IsFree(req[p].email, u)
       THEN /\ hash' = [hash EXCEPT ![u] = [secret |-> req[p].new, legacy |-> FALSE]]
            /\ email' = [email EXCEPT ![u] = req[p].email]
       ELSE UNCHANGED <<hash, email>>
    /\ Return(p)
    /\ UNCHANGED <<allowed, family>>

-----------------------------------------------------------------------------
(* POST /auth/login.  A refused login changes nothing and is not a step. *)

BeginLogin(p) ==
    \E u \in Users :
        /\ pc[p] = "idle"
        /\ hash[u] # None /\ IsAllowed(u)
        /\ req' = [req EXCEPT ![p] = [NoRequest EXCEPT !.user = u, !.secret = hash[u].secret]]
        /\ Goto(p, IF hash[u].legacy THEN "upgrade" ELSE "open")
        /\ UNCHANGED <<hash, email, allowed, family, scope>>

Mutant_UpgradeToNew(p) ==
    /\ pc[p] = "upgrade"
    /\ hash' = [hash EXCEPT ![req[p].user] = [secret |-> req[p].new, legacy |-> FALSE]]
    /\ Goto(p, "open")
    /\ UNCHANGED <<email, allowed, family, req, scope>>

\* update_user_password_hash with a fresh Argon2id hash of the same password.
UpgradeHash(p) ==
    /\ pc[p] = "upgrade"
    /\ hash' = [hash EXCEPT ![req[p].user] = [secret |-> req[p].secret, legacy |-> FALSE]]
    /\ Goto(p, "open")
    /\ UNCHANGED <<email, allowed, family, req, scope>>

\* create_refresh_session: also ends the family of the same browser profile,
\* if the profile has one.
OpenSession(p) ==
    \E f \in Families, D \in SUBSET LiveOf(req[p].user) :
        /\ pc[p] = "open"
        /\ family[f] = None
        /\ Cardinality(D) <= 1
        /\ family' = [g \in Families |->
              IF g = f THEN [user |-> req[p].user, gen |-> 0, live |-> TRUE]
              ELSE IF g \in D THEN [family[g] EXCEPT !.live = FALSE] ELSE family[g]]
        /\ Return(p)
        /\ UNCHANGED <<hash, email, allowed>>

-----------------------------------------------------------------------------
(* POST /auth/refresh *)

\* rotate_refresh_session of the family's live token.
Rotate(p) ==
    \E f \in Families :
        /\ pc[p] = "idle"
        /\ Live(f) /\ family[f].gen < MaxGen
        /\ family' = [family EXCEPT ![f].gen = @ + 1]
        /\ req' = [req EXCEPT ![p] = [NoRequest EXCEPT !.user = family[f].user,
                                        !.cookie = <<f, family[f].gen>>]]
        /\ Goto(p, "check")
        /\ UNCHANGED <<hash, email, allowed, scope>>

\* The calls that end one family: the refresh with a spent or expired token,
\* the logout, and the revocation of one session from the session list.
EndFamily(p) ==
    \E f \in Families :
        /\ pc[p] = "idle"
        /\ family[f] # None
        /\ req' = [req EXCEPT ![p] = [NoRequest EXCEPT !.user = family[f].user]]
        /\ scope' = [scope EXCEPT ![p] = Generations({f} \cap LiveOf(family[f].user))]
        /\ Goto(p, "revoke")
        /\ UNCHANGED <<hash, email, allowed, family>>

\* The account behind the rotated session: the cookies are set or the family
\* is revoked.
GrantRefresh(p) ==
    /\ pc[p] = "check"
    /\ IsAllowed(req[p].user)
    /\ Return(p)
    /\ UNCHANGED <<hash, email, allowed, family>>

RefuseRefresh(p) ==
    /\ pc[p] = "check"
    /\ ~IsAllowed(req[p].user)
    /\ scope' = [scope EXCEPT ![p] = Generations({req[p].cookie[1]} \cap LiveOf(req[p].user))]
    /\ Goto(p, "revoke")
    /\ UNCHANGED <<hash, email, allowed, family, req>>

-----------------------------------------------------------------------------
(* POST /auth/change-password *)

\* The refresh cookie may be missing (None) or be of another live session,
\* and the presented password may be wrong.
BeginChange(p) ==
    \E u \in Users, f \in Families, s, n \in Secrets :
        /\ pc[p] = "idle"
        /\ Authenticated(u, f)
        /\ \E cookie \in {None} \cup Generations(LiveOf(u)) :
              req' = [req EXCEPT ![p] = [NoRequest EXCEPT !.user = u, !.secret = s, !.new = n,
                                            !.cookie = cookie]]
        /\ Goto(p, "verify")
        /\ UNCHANGED <<hash, email, allowed, family, scope>>

\* get_user_password_hash_by_id and the two comparisons with what it returned.
VerifyChange(p) ==
    /\ pc[p] = "verify"
    /\ IF hash[req[p].user].secret = req[p].secret /\ req[p].new # req[p].secret
       THEN Goto(p, "write") /\ UNCHANGED <<req, scope>>
       ELSE Return(p)
    /\ UNCHANGED <<hash, email, allowed, family>>

WritePassword(p) ==
    /\ pc[p] = "write"
    /\ hash' = [hash EXCEPT ![req[p].user] = [secret |-> req[p].new, legacy |-> FALSE]]
    /\ req' = [req EXCEPT ![p].before = Generations(LiveOf(req[p].user))]
    /\ Goto(p, IF req[p].cookie = None THEN "all" ELSE "others")
    /\ UNCHANGED <<email, allowed, family, scope>>

\* revoke_other_refresh_sessions: None when the cookie's token has been spent,
\* revoked or, at any time, expired.
StartRevokeOthers(p) ==
    LET f == req[p].cookie[1] IN
    /\ pc[p] = "others"
    /\ \/ /\ req[p].cookie \in Generations(LiveOf(req[p].user))
          /\ req' = [req EXCEPT ![p].keeps = {f}]
          /\ scope' = [scope EXCEPT ![p] = Generations(LiveOf(req[p].user) \ {f})]
          /\ Goto(p, "revoke")
       \/ /\ Goto(p, "all")
          /\ UNCHANGED <<req, scope>>
    /\ UNCHANGED <<hash, email, allowed, family>>

Mutant_RevokeNone(p) ==
    /\ pc[p] = "all"
    /\ Goto(p, "revoke")
    /\ UNCHANGED <<hash, email, allowed, family, req, scope>>

StartRevokeAll(p) ==
    /\ pc[p] = "all"
    /\ scope' = [scope EXCEPT ![p] = Generations(LiveOf(req[p].user))]
    /\ Goto(p, "revoke")
    /\ UNCHANGED <<hash, email, allowed, family, req>>

\* The commit of a revocation, and the end of the handler that ran it.
Ends(p, f) == Live(f) /\ <<f, family[f].gen>> \in scope[p]

FinishRevoke(p) ==
    /\ pc[p] = "revoke"
    /\ family' = [f \in Families |-> IF Ends(p, f) THEN [family[f] EXCEPT !.live = FALSE] ELSE family[f]]
    /\ Return(p)
    /\ UNCHANGED <<hash, email, allowed>>

-----------------------------------------------------------------------------
(* PUT /auth/profile, and everything from outside. *)

BeginProfile(p) ==
    \E u \in Users, f \in Families, e \in Emails :
        /\ pc[p] = "idle"
        /\ Authenticated(u, f) /\ Permitted(e)
        /\ req' = [req EXCEPT ![p] = [NoRequest EXCEPT !.user = u, !.email = e]]
        /\ Goto(p, "profile")
        /\ UNCHANGED <<hash, email, allowed, family, scope>>

\* UPDATE users; an address another account has is refused (409).
WriteProfile(p) ==
    /\ pc[p] = "profile"
    /\ email' = IF IsFree(req[p].email, req[p].user)
                THEN [email EXCEPT ![req[p].user] = req[p].email] ELSE email
    /\ Return(p)
    /\ UNCHANGED <<hash, allowed, family>>

\* A request dies between two transactions: nothing is undone.
Die(p) ==
    /\ pc[p] # "idle"
    /\ Return(p)
    /\ UNCHANGED <<hash, email, allowed, family>>

\* A redeployment with another allowlist; no request survives it.
Redeploy ==
    /\ allowed' \in SUBSET Emails
    /\ pc' = [p \in Proc |-> "idle"]
    /\ req' = [p \in Proc |-> NoRequest]
    /\ scope' = [p \in Proc |-> {}]
    /\ UNCHANGED <<hash, email, family>>

Init ==
    /\ hash \in [Users -> Hash \cup {None}]
    /\ email \in {e \in [Users -> Emails \cup {None}] :
                     /\ \A u \in Users : e[u] = None <=> hash[u] = None
                     /\ \A u \in Users : e[u] = None \/ \A v \in Users \ {u} : e[u] # e[v]}
    /\ allowed \in SUBSET Emails
    /\ family = [f \in Families |-> None]
    /\ pc = [p \in Proc |-> "idle"] /\ req = [p \in Proc |-> NoRequest]
    /\ scope = [p \in Proc |-> {}]

Step(p) ==
    \/ BeginLogin(p) \/ UpgradeHash(p) \/ OpenSession(p)
    \/ Rotate(p) \/ EndFamily(p) \/ GrantRefresh(p) \/ RefuseRefresh(p)
    \/ BeginChange(p) \/ VerifyChange(p) \/ WritePassword(p)
    \/ StartRevokeOthers(p) \/ StartRevokeAll(p) \/ FinishRevoke(p)
    \/ BeginRegister(p) \/ CreateUser(p)
    \/ BeginProfile(p) \/ WriteProfile(p) \/ Die(p)

Next == Redeploy \/ \E p \in Proc : Step(p)

Spec == Init /\ [][Next]_vars

-----------------------------------------------------------------------------
(* Properties. *)

\* No session is opened or extended for an address that is not on the
\* allowlist: the address may be changed between the login's check and the
\* transaction that opens the session, but only to one that is allowed.
AllowlistEnforced ==
    [][\A p \in Proc : OpenSession(p) \/ GrantRefresh(p) => IsAllowed(req[p].user)]_vars

\* When a password change returns, no refresh token that was live when the
\* new password was written is live, except one of the caller's own family.
ChangeRevokesWhatWasThere ==
    [][\A p \in Proc : FinishRevoke(p) =>
          \A f \in Families \ req[p].keeps :
              Live(f)' => <<f, family'[f].gen>> \notin req[p].before]_vars
=============================================================================
