---------------------------- MODULE AuthSession ----------------------------
(***************************************************************************)
(* The sessions of one account: login with lockout, rotation of refresh    *)
(* tokens with reuse detection, logout and the operations on the password. *)
(*   apps/api/src/auth/auth.service.ts                                     *)
(*   apps/api/src/users/users.service.ts                                   *)
(*   apps/api/src/modules/identity/sessions/sessions.service.ts            *)
(*                                                                         *)
(* Each action of a Request is one SQL statement (with the computation that*)
(* follows it); no operation here uses a transaction of several statements.*)
(* A token may also expire: then it can only be refused, and every refusal *)
(* is a request that is not made.  forceChangePassword only closes routes  *)
(* that are not modelled here.  A password is right or wrong; only tokens  *)
(* that were issued pass verification.                                     *)
(***************************************************************************)
EXTENDS Integers, FiniteSets

CONSTANTS
    Token,      \* ids of the rows of refresh_tokens (randomUUID)
    Request,    \* requests that can be in progress at the same time
    Threshold,  \* failed logins that lock the account (5 in the code)
    MaxEpoch,   \* bound: revocations of all sessions
    None        \* no token

ASSUME ThresholdAssumption == Threshold \in Nat \ {0}
ASSUME MaxEpochAssumption == MaxEpoch \in Nat
ASSUME NoneAssumption == None \notin Token
ASSUME RequestAssumption == IsFiniteSet(Request)

VARIABLES
    account,    \* the row of table users
    token,      \* each token: "none", "live" or "revoked" (revokedAt is set)
    parent,     \* history: the token that was rotated into this one
    req,        \* the state of each request
    epoch,      \* history: how often all sessions have been revoked
    since,      \* history: the epoch in which a token's owner last proved
                \* to have the password, or an unrevoked token
    overlapped, \* history: the epochs begun by a revocation during which a
                \* request was past its check and had not yet inserted
    replayed,   \* history: tokens whose reuse has been handled
    guesses,    \* history: wrong passwords let in that the counter has to
                \* count, since it was last reset
    excused     \* history: since then a lock has expired, or a guess or the
                \* lock it calls for was lost in a crash

tokenVars == <<token, parent, since>>
epochVars == <<epoch, overlapped>>
guessVars == <<guesses, excused>>
vars == <<account, tokenVars, req, epochVars, replayed, guessVars>>

Statement == {"idle", "accept", "reject", "lock", "claim", "reuse", "insert",
              "revokeAll", "update", "reset", "unlock", "delete"}

(* One less than the threshold, and then all requests at once. *)
MaxGuesses == Threshold - 1 + Cardinality(Request)

Idle == [at |-> "idle", tok |-> None, since |-> 0]
RequestState == [at : Statement, tok : Token \cup {None}, since : 0..MaxEpoch]
Account == [active : BOOLEAN, deleted : BOOLEAN, failed : 0..(MaxGuesses + 1), locked : BOOLEAN]

(* Requests that have been let in and have not yet stored their token. *)
LetIn == {q \in Request : req[q].at \in {"accept", "insert"}}

Live == {t \in Token : token[t] = "live"}
Rejecting == {q \in Request : req[q].at = "reject"}
Finish(q) == req' = [req EXCEPT ![q] = Idle]
Goto(q, s) == req' = [req EXCEPT ![q].at = s]

(* Variant with a defect: only tokens that came out of a rotation are revoked. *)
RevokeAllTokens_Rotated ==
    /\ epoch < MaxEpoch
    /\ token' = [t \in Token |-> IF token[t] = "live" /\ parent[t] # None
                                 THEN "revoked" ELSE token[t]]
    /\ epoch' = epoch + 1
    /\ overlapped' = IF LetIn = {} THEN overlapped ELSE overlapped \cup {epoch + 1}
    /\ UNCHANGED <<parent, since>>

(* failedLoginCount and lockedUntil are cleared; guesses whose statement is *)
(* still to come will be counted from there.                               *)
ResetFailures ==
    /\ account' = [account EXCEPT !.failed = 0, !.locked = FALSE]
    /\ guesses' = Cardinality(Rejecting)
    /\ excused' = FALSE

(* The database increments; one count beyond the bound stands for all.     *)
Bump(n) == IF n <= MaxGuesses THEN n + 1 ELSE n

(* UPDATE refresh_tokens SET revokedAt = now WHERE userId = ... AND revokedAt IS NULL *)
RevokeAllTokens ==
    /\ epoch < MaxEpoch
    /\ token' = [t \in Token |-> IF token[t] = "live" THEN "revoked" ELSE token[t]]
    /\ epoch' = epoch + 1
    /\ overlapped' = IF LetIn = {} THEN overlapped ELSE overlapped \cup {epoch + 1}
    /\ UNCHANGED <<parent, since>>

-----------------------------------------------------------------------------
(* auth.service.ts: login                                                  *)

(* The account is read; the password is compared with the hash of that read*)
(* (bcrypt takes long, so much may happen before the next statement).      *)
LoginRead(q, right) ==
    /\ req[q].at = "idle"
    /\ account.active /\ ~account.deleted /\ ~account.locked
    /\ req' = [req EXCEPT ![q] =
                 [at |-> IF right THEN "accept" ELSE "reject",
                  tok |-> None, since |-> epoch]]
    /\ guesses' = IF right THEN guesses ELSE Bump(guesses)
    /\ UNCHANGED <<account, tokenVars, epochVars, replayed, excused>>

LoginAccept(q) ==
    /\ req[q].at = "accept"
    /\ ResetFailures
    /\ Goto(q, "insert")
    /\ UNCHANGED <<tokenVars, epochVars, replayed>>

(* Variant with a defect: the account is locked one failure late. *)
LoginReject_Late(q) ==
    /\ req[q].at = "reject"
    /\ account' = [account EXCEPT !.failed = Bump(account.failed)]
    /\ IF account'.failed > Threshold THEN Goto(q, "lock") ELSE Finish(q)
    /\ UNCHANGED <<tokenVars, epochVars, replayed, guessVars>>

LoginReject(q) ==
    /\ req[q].at = "reject"
    /\ account' = [account EXCEPT !.failed = Bump(account.failed)]
    /\ IF account'.failed >= Threshold THEN Goto(q, "lock") ELSE Finish(q)
    /\ UNCHANGED <<tokenVars, epochVars, replayed, guessVars>>

(* The lock is a statement of its own. *)
LockAccount(q) ==
    /\ req[q].at = "lock"
    /\ account' = [account EXCEPT !.locked = TRUE]
    /\ Finish(q)
    /\ UNCHANGED <<tokenVars, epochVars, replayed, guessVars>>

(* lockedUntil passes. *)
LockExpires ==
    /\ account.locked
    /\ account' = [account EXCEPT !.locked = FALSE]
    /\ excused' = TRUE
    /\ UNCHANGED <<tokenVars, req, epochVars, replayed, guesses>>

(* createTokenPair, the last statement of login and of refresh *)
InsertToken(q, t) ==
    /\ req[q].at = "insert"
    /\ token[t] = "none"
    /\ token' = [token EXCEPT ![t] = "live"]
    /\ parent' = [parent EXCEPT ![t] = req[q].tok]
    /\ since' = [since EXCEPT ![t] = req[q].since]
    /\ Finish(q)
    /\ UNCHANGED <<account, epochVars, replayed, guessVars>>

-----------------------------------------------------------------------------
(* auth.service.ts: refresh                                                *)

(* The token and its user are read together.  A revoked token is being     *)
(* replayed.                                                               *)
RefreshRead(q, t) ==
    /\ req[q].at = "idle"
    /\ token[t] # "none"
    /\ account.active /\ ~account.deleted /\ ~account.locked
    /\ req' = [req EXCEPT ![q] =
                 [Idle EXCEPT !.at = IF token[t] = "revoked" THEN "reuse" ELSE "claim",
                              !.tok = t, !.since = since[t]]]
    /\ UNCHANGED <<account, tokenVars, epochVars, replayed, guessVars>>

(* Variant with a defect: the rotation revokes the token by id alone. *)
RefreshClaim_ById(q) ==
    /\ req[q].at = "claim"
    /\ token' = [token EXCEPT ![req[q].tok] = "revoked"]
    /\ Goto(q, "insert")
    /\ UNCHANGED <<account, parent, since, epochVars, replayed, guessVars>>

(* UPDATE ... SET revokedAt WHERE id = ... AND revokedAt IS NULL: the token*)
(* is used up, or somebody has used it first.                              *)
RefreshClaim(q) ==
    /\ req[q].at = "claim"
    /\ IF token[req[q].tok] = "live"
       THEN /\ token' = [token EXCEPT ![req[q].tok] = "revoked"]
            /\ Goto(q, "insert")
       ELSE Goto(q, "reuse") /\ UNCHANGED token
    /\ UNCHANGED <<account, parent, since, epochVars, replayed, guessVars>>

(* handleRefreshTokenReuse *)
HandleReuse(q) ==
    /\ req[q].at = "reuse"
    /\ RevokeAllTokens
    /\ replayed' = replayed \cup {req[q].tok}
    /\ Finish(q)
    /\ UNCHANGED <<account, guessVars>>

-----------------------------------------------------------------------------
(* logout of one session (also sessions.revoke); logoutAll and sessions.   *)
(* revokeAll.  The guard has read the account earlier; a request that it   *)
(* let in may arrive at any time.                                          *)

Logout(t) ==
    /\ token[t] = "live"
    /\ token' = [token EXCEPT ![t] = "revoked"]
    /\ UNCHANGED <<account, parent, since, req, epochVars, replayed, guessVars>>

LogoutAll ==
    /\ RevokeAllTokens
    /\ UNCHANGED <<account, req, replayed, guessVars>>

-----------------------------------------------------------------------------
(* Passwords and administration                                            *)

(* changePassword writes the new password, and then revokes. *)
ChangePassword(q) ==
    /\ req[q].at = "idle"
    /\ account.active /\ ~account.deleted
    /\ Goto(q, "revokeAll")
    /\ UNCHANGED <<account, tokenVars, epochVars, replayed, guessVars>>

RevokeAfterChange(q) ==
    /\ req[q].at = "revokeAll"
    /\ RevokeAllTokens
    /\ Finish(q)
    /\ UNCHANGED <<account, replayed, guessVars>>

(* The administrator's operations on a user begin with the same read.      *)
ReadUser(q, s) ==
    /\ req[q].at = "idle"
    /\ ~account.deleted
    /\ Goto(q, s)
    /\ UNCHANGED <<account, tokenVars, epochVars, replayed, guessVars>>

(* resetPassword goes on to revoke the tokens. *)
ResetPassword(q) ==
    /\ req[q].at = "reset"
    /\ ResetFailures
    /\ Goto(q, "revokeAll")
    /\ UNCHANGED <<tokenVars, epochVars, replayed>>

(* users.update: password and status, by id.  Neither it nor the reset of  *)
(* a portal password (portal-provisioning) touches the sessions.           *)
UpdateUser(q, active) ==
    /\ req[q].at = "update"
    /\ account' = [account EXCEPT !.active = active]
    /\ Finish(q)
    /\ UNCHANGED <<tokenVars, epochVars, replayed, guessVars>>

UnlockUser(q) ==
    /\ req[q].at = "unlock"
    /\ ResetFailures
    /\ Finish(q)
    /\ UNCHANGED <<tokenVars, epochVars, replayed>>

(* Variant with a defect: the tokens of a deleted user are kept. *)
DeleteUser_KeepsTokens(q) ==
    /\ req[q].at = "delete"
    /\ account' = [account EXCEPT !.deleted = TRUE, !.active = FALSE]
    /\ Finish(q)
    /\ UNCHANGED <<tokenVars, epochVars, replayed, guessVars>>

(* users.delete writes the user and its tokens in one nested update.       *)
DeleteUser(q) ==
    /\ req[q].at = "delete"
    /\ account' = [account EXCEPT !.deleted = TRUE, !.active = FALSE]
    /\ RevokeAllTokens
    /\ Finish(q)
    /\ UNCHANGED <<replayed, guessVars>>

(* The process or the connection fails between two statements. *)
Abandon(q) ==
    /\ req[q].at # "idle"
    /\ Finish(q)
    /\ excused' = (excused \/ req[q].at \in {"reject", "lock"})
    /\ UNCHANGED <<account, tokenVars, epochVars, replayed, guesses>>

-----------------------------------------------------------------------------
Init ==
    /\ account = [active |-> TRUE, deleted |-> FALSE, failed |-> 0, locked |-> FALSE]
    /\ token = [t \in Token |-> "none"]
    /\ parent = [t \in Token |-> None]
    /\ req = [q \in Request |-> Idle]
    /\ epoch = 0
    /\ overlapped = {}
    /\ since = [t \in Token |-> 0]
    /\ replayed = {}
    /\ guesses = 0
    /\ excused = FALSE

Login(q) ==
    \/ \E right \in BOOLEAN : LoginRead(q, right)
    \/ LoginAccept(q) \/ LoginReject(q) \/ LockAccount(q)

Refresh(q) ==
    \/ \E t \in Token : RefreshRead(q, t)
    \/ RefreshClaim(q) \/ HandleReuse(q)

Manage(q) ==
    \/ ChangePassword(q) \/ RevokeAfterChange(q)
    \/ \E s \in {"update", "reset", "unlock", "delete"} : ReadUser(q, s)
    \/ \E active \in BOOLEAN : UpdateUser(q, active)
    \/ ResetPassword(q) \/ UnlockUser(q) \/ DeleteUser(q)

Next ==
    \/ \E q \in Request : Login(q) \/ Refresh(q) \/ Manage(q) \/ Abandon(q)
    \/ \E q \in Request, t \in Token : InsertToken(q, t)
    \/ \E t \in Token : Logout(t)
    \/ LogoutAll \/ LockExpires

Spec == Init /\ [][Next]_vars

-----------------------------------------------------------------------------
(* Every variable holds a value of its type. *)
TypeOK ==
    /\ account \in Account
    /\ token \in [Token -> {"none", "live", "revoked"}]
    /\ parent \in [Token -> Token \cup {None}]
    /\ req \in [Request -> RequestState]
    /\ epoch \in 0..MaxEpoch
    /\ overlapped \subseteq 0..MaxEpoch
    /\ since \in [Token -> 0..MaxEpoch]
    /\ replayed \subseteq Token
    /\ guesses \in 0..(MaxGuesses + 1)
    /\ excused \in BOOLEAN

(* A refresh token is rotated at most once, however many requests present  *)
(* it at the same time ("Atomic single-use rotation: only one concurrent   *)
(* refresh can revoke the token").                                         *)
SingleUse ==
    \A t, u \in Token : parent[t] # None /\ parent[t] = parent[u] => t = u

(* A session outlives a revocation of all sessions only if the revocation  *)
(* ran while some request was past its check with its token not yet stored:*)
(* rotation rechecks the token when it claims it, so a refresh that had    *)
(* merely read its token does not count.                                   *)
OutlivedOnlyInFlight ==
    \A t \in Live : (since[t] + 1)..epoch \subseteq overlapped

(* No token of a deleted account is exchanged for a new one, although the  *)
(* refresh read the account before it was deleted.                         *)
DeletedNeverRotates ==
    [][account.deleted =>
          \A q \in Request : ~(req[q].at = "claim" /\ req'[q].at = "insert")]_vars

(* Guessing in parallel does not get around the lock: although the lock is *)
(* checked before the slow comparison of the password and set by a third   *)
(* statement, at most one request's worth of guesses each is compared      *)
(* beyond the threshold before an administrator, the right password or the *)
(* end of the lock clears the counter.                                     *)
GuessesBounded == excused \/ guesses <= MaxGuesses

-----------------------------------------------------------------------------
(* What the code's comments say, and a run refutes.                        *)

(* auth.service.ts:180 "assume theft and revoke the session family": after *)
(* the reuse of a token has been handled, no session that came out of it   *)
(* is live.                                                                *)
ReuseEndsFamily ==
    \A t \in Live : parent[t] \notin replayed
=============================================================================
