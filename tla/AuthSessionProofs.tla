------------------------- MODULE AuthSessionProofs -------------------------
(***************************************************************************)
(* Theorems about AuthSession, for any number of tokens and of concurrent  *)
(* requests: type correctness, single use of refresh tokens, and that a    *)
(* session outlives a revocation of all sessions only when the revocation  *)
(* overtakes a request between its check and its insert.  And about        *)
(* RefreshClient, a browser that takes part in them.                       *)
(***************************************************************************)
EXTENDS RefreshClient, FiniteSetTheorems, TLAPS

(* A request that has claimed a token for rotation is the only one to have *)
(* done so, and the token is revoked and has no successor yet.             *)
ClaimExclusive ==
    /\ \A q \in Request : req[q].at = "insert" /\ req[q].tok # None =>
          token[req[q].tok] = "revoked" /\ \A t \in Token : parent[t] # req[q].tok
    /\ \A q, s \in Request :
          /\ req[q].at = "insert" /\ req[s].at = "insert"
          /\ req[q].tok # None /\ req[q].tok = req[s].tok
          => q = s
    /\ \A t \in Token : parent[t] # None => token[parent[t]] = "revoked" /\ token[t] # "none"
    /\ \A q \in Request : req[q].at \in {"claim", "reuse"} =>
          req[q].tok \in Token /\ token[req[q].tok] # "none"
    /\ \A q \in Request : req[q].at = "accept" => req[q].tok = None

(* What a request knows of the revocations since its check: while it has   *)
(* been let in each of them found it in flight.                            *)
Witnessed ==
    /\ \A q \in LetIn : (req[q].since + 1)..epoch \subseteq overlapped
    /\ \A q \in Request : req[q].at = "claim" => req[q].since = since[req[q].tok]

(* A claim read before the account was deleted holds a token that is dead. *)
DeletedHoldsNoLive ==
    account.deleted => \A q \in Request : req[q].at = "claim" => token[req[q].tok] # "live"

(* The part of the invariant that speaks of tokens and of who holds them.  *)
Sessions == SingleUse /\ ClaimExclusive /\ Witnessed /\ OutlivedOnlyInFlight

IInv == TypeOK /\ Sessions /\ DeletedHoldsNoLive

(* What the counter stands for as long as nothing was lost, and why guesses *)
(* are bounded: each one beyond the threshold is one that is still on its   *)
(* way to the lock.                                                         *)
Locking == {q \in Request : req[q].at = "lock"}
GuessesCounted ==
    ~excused => /\ guesses = account.failed + Cardinality(Rejecting)
                /\ account.locked \/ account.failed <= Threshold - 1 + Cardinality(Locking)
                /\ guesses <= MaxGuesses

USE ThresholdAssumption, MaxEpochAssumption, NoneAssumption

LEMMA RequestsFinite ==
    /\ Cardinality(Request) \in Nat
    /\ MaxGuesses \in Nat /\ Cardinality(Request) <= MaxGuesses
  BY RequestAssumption, FS_CardinalityType DEF MaxGuesses

(* The requests that are rejecting and those that are locking number at     *)
(* most all requests, also in the next state.                               *)
LEMMA TwoGroups ==
    ASSUME NEW S \in SUBSET Request, NEW T \in SUBSET Request, S \cap T = {}
    PROVE  /\ IsFiniteSet(S) /\ IsFiniteSet(T)
           /\ Cardinality(S) \in Nat /\ Cardinality(T) \in Nat
           /\ Cardinality(S) <= Cardinality(Request)
           /\ Cardinality(S) + Cardinality(T) <= Cardinality(Request)
  <1>1. IsFiniteSet(S) /\ IsFiniteSet(T) /\ Cardinality(S) <= Cardinality(Request)
    BY RequestAssumption, FS_Subset
  <1>2. Cardinality(S \cup T) <= Cardinality(Request)
    BY RequestAssumption, FS_Subset
  <1>3. Cardinality(S \cup T) = Cardinality(S) + Cardinality(T) - Cardinality({})
    BY <1>1, FS_Union
  <1> QED BY <1>1, <1>2, <1>3, FS_CardinalityType, FS_EmptySet

(* The counter stays below its bound. *)
LEMMA BumpType == \A n \in 0..(MaxGuesses + 1) : Bump(n) \in 0..(MaxGuesses + 1)
  BY RequestsFinite DEF Bump

LEMMA ResetType ==
    ASSUME account \in Account, ResetFailures
    PROVE  account' \in Account /\ guesses' \in 0..(MaxGuesses + 1) /\ excused' \in BOOLEAN
  <1>1. Cardinality(Rejecting) \in Nat /\ Cardinality(Rejecting) <= Cardinality(Request)
    BY TwoGroups, Rejecting \cap {} = {} DEF Rejecting
  <1>2. guesses' \in 0..(MaxGuesses + 1)
    BY <1>1, RequestsFinite DEF ResetFailures
  <1>3. account' \in Account
    <2>1. 0 \in 0..(MaxGuesses + 1)
      BY RequestsFinite
    <2> QED BY <2>1 DEF ResetFailures, Account
  <1>4. excused' \in BOOLEAN
    BY Zenon DEF ResetFailures
  <1> QED BY <1>2, <1>3, <1>4

(* An idle request is well typed. *)
LEMMA RequestInit == Idle \in RequestState
  BY DEF Idle, RequestState, Statement

LEMMA RequestType ==
    ASSUME TypeOK, NEW q \in Request
    PROVE  /\ Idle \in RequestState
           /\ Finish(q) => req' \in [Request -> RequestState]
           /\ \A s \in Statement : Goto(q, s) => req' \in [Request -> RequestState]
  <1>1. Idle \in RequestState
    BY RequestInit
  <1>2. ASSUME NEW s \in Statement, Goto(q, s) PROVE req' \in [Request -> RequestState]
    BY <1>2 DEF TypeOK, Goto, RequestState
  <1> QED BY <1>1, <1>2 DEF Finish, TypeOK

(* A revocation of all sessions is well typed. *)
LEMMA RevokeType ==
    ASSUME TypeOK, RevokeAllTokens
    PROVE  /\ token' \in [Token -> {"none", "live", "revoked"}]
           /\ parent' \in [Token -> Token \cup {None}]
           /\ since' \in [Token -> 0..MaxEpoch]
           /\ epoch' \in 0..MaxEpoch
           /\ overlapped' \subseteq 0..MaxEpoch
  <1>1. epoch + 1 \in 0..MaxEpoch
    BY DEF TypeOK, RevokeAllTokens
  <1> QED BY <1>1 DEF TypeOK, RevokeAllTokens

LEMMA LoginType ==
    ASSUME TypeOK, NEW q \in Request, Login(q)
    PROVE  TypeOK'
  <1>1. ASSUME NEW right \in BOOLEAN, LoginRead(q, right)
        PROVE  TypeOK'
    <2>1. [at |-> IF right THEN "accept" ELSE "reject", tok |-> None, since |-> epoch]
             \in RequestState
      BY DEF RequestState, Statement, TypeOK
    <2>2. guesses' \in 0..(MaxGuesses + 1)
      BY <1>1, BumpType DEF LoginRead, TypeOK
    <2> QED BY <1>1, <2>1, <2>2 DEF LoginRead, TypeOK, tokenVars, epochVars, guessVars
  <1>2. CASE LoginAccept(q)
    <2>1. req' \in [Request -> RequestState]
      BY <1>2, RequestType DEF LoginAccept, Statement
    <2>2. account' \in Account /\ guesses' \in 0..(MaxGuesses + 1) /\ excused' \in BOOLEAN
      BY <1>2, ResetType DEF LoginAccept, TypeOK
    <2> QED BY <1>2, <2>1, <2>2 DEF LoginAccept, TypeOK, tokenVars, epochVars, guessVars
  <1>3. CASE LoginReject(q)
    <2>1. req' \in [Request -> RequestState]
      BY <1>3, RequestType DEF LoginReject, Statement
    <2>2. account' \in Account
      BY <1>3, BumpType DEF LoginReject, TypeOK, Account
    <2> QED BY <1>3, <2>1, <2>2 DEF LoginReject, TypeOK, tokenVars, epochVars, guessVars
  <1>4. CASE LockAccount(q)
    <2>1. req' \in [Request -> RequestState]
      BY <1>4, RequestType DEF LockAccount
    <2>2. account' \in Account
      BY <1>4 DEF LockAccount, TypeOK, Account
    <2> QED BY <1>4, <2>1, <2>2 DEF LockAccount, TypeOK, tokenVars, epochVars, guessVars
  <1> QED BY <1>1, <1>2, <1>3, <1>4 DEF Login

LEMMA RefreshType ==
    ASSUME TypeOK, ClaimExclusive, NEW q \in Request, Refresh(q)
    PROVE  TypeOK'
  <1>1. ASSUME NEW t \in Token, RefreshRead(q, t)
        PROVE  TypeOK'
    <2>1. [Idle EXCEPT !.at = IF token[t] = "revoked" THEN "reuse" ELSE "claim",
                       !.tok = t, !.since = since[t]] \in RequestState
      BY RequestType DEF RequestState, Statement, TypeOK
    <2> QED BY <1>1, <2>1 DEF RefreshRead, TypeOK, tokenVars, epochVars, guessVars
  <1>2. CASE RefreshClaim(q)
    <2>1. req' \in [Request -> RequestState]
      BY <1>2, RequestType DEF RefreshClaim, Statement
    <2> QED BY <1>2, <2>1 DEF RefreshClaim, TypeOK, epochVars, guessVars
  <1>3. CASE HandleReuse(q)
    <2>1. req' \in [Request -> RequestState]
      BY <1>3, RequestType DEF HandleReuse
    <2>2. replayed' \subseteq Token
      BY <1>3 DEF HandleReuse, TypeOK, ClaimExclusive
    <2> QED BY <1>3, <2>1, <2>2, RevokeType DEF HandleReuse, TypeOK, guessVars
  <1> QED BY <1>1, <1>2, <1>3 DEF Refresh

LEMMA ManageType ==
    ASSUME TypeOK, NEW q \in Request, Manage(q)
    PROVE  TypeOK'
  <1>1. CASE ChangePassword(q)
    BY <1>1, RequestType DEF ChangePassword, Statement, TypeOK, tokenVars, epochVars, guessVars
  <1>2. CASE RevokeAfterChange(q)
    <2>1. req' \in [Request -> RequestState]
      BY <1>2, RequestType DEF RevokeAfterChange
    <2> QED BY <1>2, <2>1, RevokeType DEF RevokeAfterChange, TypeOK, guessVars
  <1>3. ASSUME NEW s \in {"update", "reset", "unlock", "delete"}, ReadUser(q, s)
        PROVE  TypeOK'
    <2>1. req' \in [Request -> RequestState]
      BY <1>3, RequestType DEF ReadUser, Statement
    <2> QED BY <1>3, <2>1 DEF ReadUser, TypeOK, tokenVars, epochVars, guessVars
  <1>4. ASSUME NEW active \in BOOLEAN, UpdateUser(q, active)
        PROVE  TypeOK'
    <2>1. req' \in [Request -> RequestState]
      BY <1>4, RequestType DEF UpdateUser
    <2>2. account' \in Account
      BY <1>4 DEF UpdateUser, TypeOK, Account
    <2> QED BY <1>4, <2>1, <2>2 DEF UpdateUser, TypeOK, tokenVars, epochVars, guessVars
  <1>5. CASE ResetPassword(q)
    <2>1. req' \in [Request -> RequestState]
      BY <1>5, RequestType DEF ResetPassword, Statement
    <2>2. account' \in Account /\ guesses' \in 0..(MaxGuesses + 1) /\ excused' \in BOOLEAN
      BY <1>5, ResetType DEF ResetPassword, TypeOK
    <2> QED BY <1>5, <2>1, <2>2 DEF ResetPassword, TypeOK, tokenVars, epochVars, guessVars
  <1>6. CASE UnlockUser(q)
    <2>1. req' \in [Request -> RequestState]
      BY <1>6, RequestType DEF UnlockUser
    <2>2. account' \in Account /\ guesses' \in 0..(MaxGuesses + 1) /\ excused' \in BOOLEAN
      BY <1>6, ResetType DEF UnlockUser, TypeOK
    <2> QED BY <1>6, <2>1, <2>2 DEF UnlockUser, TypeOK, tokenVars, epochVars, guessVars
  <1>7. CASE DeleteUser(q)
    <2>1. req' \in [Request -> RequestState]
      BY <1>7, RequestType DEF DeleteUser
    <2>2. account' \in Account
      BY <1>7 DEF DeleteUser, TypeOK, Account
    <2> QED BY <1>7, <2>1, <2>2, RevokeType DEF DeleteUser, TypeOK, guessVars
  <1> QED BY <1>1, <1>2, <1>3, <1>4, <1>5, <1>6, <1>7 DEF Manage

LEMMA TypeStep ==
    ASSUME TypeOK, ClaimExclusive, [Next]_vars
    PROVE  TypeOK'
  <1>1. ASSUME NEW q \in Request, Abandon(q)
        PROVE  TypeOK'
    BY <1>1, RequestType DEF Abandon, TypeOK, tokenVars, epochVars, guessVars
  <1>2. ASSUME NEW q \in Request, NEW t \in Token, InsertToken(q, t)
        PROVE  TypeOK'
    <2>1. req' \in [Request -> RequestState]
      BY <1>2, RequestType DEF InsertToken
    <2>2. req[q].tok \in Token \cup {None} /\ req[q].since \in 0..MaxEpoch
      BY DEF TypeOK, RequestState
    <2> QED BY <1>2, <2>1, <2>2 DEF InsertToken, TypeOK, epochVars, guessVars
  <1>3. ASSUME NEW t \in Token, Logout(t)
        PROVE  TypeOK'
    BY <1>3 DEF Logout, TypeOK, epochVars, guessVars
  <1>4. CASE LogoutAll
    BY <1>4, RevokeType DEF LogoutAll, TypeOK, guessVars
  <1>5. CASE LockExpires
    <2>1. account' \in Account
      BY <1>5 DEF LockExpires, TypeOK, Account
    <2> QED BY <1>5, <2>1 DEF LockExpires, TypeOK, tokenVars, epochVars, guessVars
  <1>6. CASE UNCHANGED vars
    BY <1>6 DEF vars, TypeOK, tokenVars, epochVars, guessVars
  <1> QED BY <1>1, <1>2, <1>3, <1>4, <1>5, <1>6,
             LoginType, RefreshType, ManageType DEF Next

-----------------------------------------------------------------------------
(* Sessions is preserved.  Most steps are quiet: they leave the tokens and  *)
(* the epochs alone and take no request past a check.                      *)

LEMMA QuietStep ==
    ASSUME TypeOK, Sessions, UNCHANGED <<tokenVars, epochVars>>,
           NEW q \in Request, req' \in [Request -> RequestState],
           req'[q].at \notin {"accept", "claim", "reuse", "insert"},
           \A s \in Request \ {q} : req'[s] = req[s]
    PROVE  Sessions'
  <1>1. \A s \in Request : req'[s].at \in {"accept", "claim", "reuse", "insert"} => req'[s] = req[s]
    OBVIOUS
  <1>2. SingleUse' /\ OutlivedOnlyInFlight'
    BY DEF Sessions, SingleUse, OutlivedOnlyInFlight, Live, tokenVars, epochVars, guessVars
  <1>3. ClaimExclusive'
    BY <1>1 DEF Sessions, ClaimExclusive, tokenVars
  <1>4. LetIn' \subseteq LetIn
    BY <1>1 DEF LetIn
  <1>5. Witnessed'
    BY <1>1, <1>4 DEF Sessions, Witnessed, LetIn, tokenVars, epochVars, guessVars
  <1> QED BY <1>2, <1>3, <1>5 DEF Sessions

LEMMA StillStep ==
    ASSUME Sessions, UNCHANGED <<tokenVars, epochVars, req>>
    PROVE  Sessions'
  BY DEF Sessions, SingleUse, ClaimExclusive, Witnessed, OutlivedOnlyInFlight,
         Live, LetIn, tokenVars, epochVars, guessVars

(* A revocation finds every request that has been let in in flight. *)
LEMMA RevokeStep ==
    ASSUME TypeOK, Sessions, RevokeAllTokens, NEW q \in Request,
           UNCHANGED req \/ Finish(q)
    PROVE  Sessions'
  <1>1. \A s \in Request : req'[s] = req[s] \/ req'[s].at = "idle"
    BY DEF Finish, Idle, TypeOK
  <1>2. SingleUse'
    BY DEF Sessions, SingleUse, RevokeAllTokens
  <1>3. ClaimExclusive'
    <2>1. \A t \in Token : /\ token[t] = "revoked" => token'[t] = "revoked"
                           /\ token[t] # "none" => token'[t] # "none"
      BY DEF RevokeAllTokens, TypeOK
    <2>2. \A t \in Token : parent[t] # None => parent[t] \in Token
      BY DEF TypeOK
    <2>3. \A s \in Request : req[s].tok # None => req[s].tok \in Token
      BY DEF TypeOK, RequestState
    <2> QED BY <1>1, <2>1, <2>2, <2>3 DEF Sessions, ClaimExclusive, RevokeAllTokens
  <1>4. Witnessed'
    <2>1. ASSUME NEW s \in LetIn'
          PROVE  (req'[s].since + 1)..epoch' \subseteq overlapped'
      <3>1. s \in LetIn /\ req'[s] = req[s]
        BY <1>1, <2>1 DEF LetIn
      <3>2. epoch' = epoch + 1 /\ overlapped' = overlapped \cup {epoch + 1}
        BY <3>1 DEF RevokeAllTokens
      <3>3. (req[s].since + 1)..epoch \subseteq overlapped
        BY <3>1 DEF Sessions, Witnessed
      <3>4. req[s].since \in Int /\ epoch \in Int
        BY <3>1 DEF TypeOK, RequestState, LetIn
      <3> QED BY <3>1, <3>2, <3>3, <3>4
    <2> QED BY <1>1, <2>1 DEF Sessions, Witnessed, RevokeAllTokens
  <1>5. OutlivedOnlyInFlight'
    BY DEF OutlivedOnlyInFlight, Live, RevokeAllTokens
  <1> QED BY <1>2, <1>3, <1>4, <1>5 DEF Sessions

LEMMA LoginStep ==
    ASSUME TypeOK, TypeOK', Sessions, NEW q \in Request, Login(q)
    PROVE  Sessions'
  <1>1. ASSUME NEW right \in BOOLEAN, LoginRead(q, right)
        PROVE  Sessions'
    <2>1. /\ req'[q].at \in {"accept", "reject"} /\ req'[q].tok = None /\ req'[q].since = epoch
          /\ \A s \in Request \ {q} : req'[s] = req[s]
      BY <1>1 DEF LoginRead, TypeOK
    <2>2. SingleUse' /\ OutlivedOnlyInFlight'
      BY <1>1 DEF LoginRead, Sessions, SingleUse, OutlivedOnlyInFlight, Live, tokenVars, epochVars, guessVars
    <2>3. ClaimExclusive'
      BY <1>1, <2>1 DEF LoginRead, Sessions, ClaimExclusive, tokenVars
    <2>4. \A n \in Int : (n + 1)..n = {}
      OBVIOUS
    <2>5. epoch \in Int
      BY DEF TypeOK
    <2>6. (epoch + 1)..epoch \subseteq overlapped
      BY <2>4, <2>5
    <2>7. Witnessed'
      BY <1>1, <2>1, <2>6 DEF LoginRead, Sessions, Witnessed, LetIn, tokenVars, epochVars, guessVars
    <2> QED BY <2>2, <2>3, <2>7 DEF Sessions
  <1>2. CASE LoginAccept(q)
    <2>1. /\ req'[q].at = "insert" /\ req'[q].tok = None /\ req'[q].since = req[q].since
          /\ \A s \in Request \ {q} : req'[s] = req[s]
      BY <1>2 DEF LoginAccept, Goto, TypeOK, RequestState, Sessions, ClaimExclusive
    <2>2. SingleUse' /\ OutlivedOnlyInFlight'
      BY <1>2 DEF LoginAccept, Sessions, SingleUse, OutlivedOnlyInFlight, Live, tokenVars, epochVars, guessVars
    <2>3. ClaimExclusive'
      BY <1>2, <2>1 DEF LoginAccept, Sessions, ClaimExclusive, tokenVars
    <2>4. Witnessed'
      BY <1>2, <2>1 DEF LoginAccept, Sessions, Witnessed, LetIn, tokenVars, epochVars, guessVars
    <2> QED BY <2>2, <2>3, <2>4 DEF Sessions
  <1>3. CASE LoginReject(q)
    <2>1. req'[q].at \in {"lock", "idle"} /\ \A s \in Request \ {q} : req'[s] = req[s]
      BY <1>3 DEF LoginReject, Goto, Finish, Idle, TypeOK, RequestState
    <2> QED BY <1>3, <2>1, QuietStep DEF LoginReject, TypeOK
  <1>4. CASE LockAccount(q)
    <2>1. req'[q].at = "idle" /\ \A s \in Request \ {q} : req'[s] = req[s]
      BY <1>4 DEF LockAccount, Finish, Idle, TypeOK
    <2> QED BY <1>4, <2>1, QuietStep DEF LockAccount, TypeOK
  <1> QED BY <1>1, <1>2, <1>3, <1>4 DEF Login

LEMMA RefreshStep ==
    ASSUME TypeOK, TypeOK', Sessions, NEW q \in Request, Refresh(q)
    PROVE  Sessions'
  <1>1. ASSUME NEW t \in Token, RefreshRead(q, t)
        PROVE  Sessions'
    <2>1. /\ req'[q].at \in {"reuse", "claim"} /\ req'[q].tok = t /\ req'[q].since = since[t]
          /\ \A s \in Request \ {q} : req'[s] = req[s]
      BY <1>1 DEF RefreshRead, Idle, TypeOK
    <2>2. SingleUse' /\ OutlivedOnlyInFlight'
      BY <1>1 DEF RefreshRead, Sessions, SingleUse, OutlivedOnlyInFlight, Live, tokenVars, epochVars, guessVars
    <2>3. ClaimExclusive'
      BY <1>1, <2>1 DEF RefreshRead, Sessions, ClaimExclusive, tokenVars
    <2>4. Witnessed'
      BY <1>1, <2>1 DEF RefreshRead, Sessions, Witnessed, LetIn, tokenVars, epochVars, guessVars
    <2> QED BY <2>2, <2>3, <2>4 DEF Sessions
  <1>2. CASE RefreshClaim(q) /\ token[req[q].tok] = "live"
    <2> DEFINE u == req[q].tok
    <2>1. /\ req'[q].at = "insert" /\ req'[q].tok = u /\ req'[q].since = req[q].since
          /\ \A s \in Request \ {q} : req'[s] = req[s]
      BY <1>2 DEF RefreshClaim, Goto, TypeOK, RequestState
    <2>2. /\ u \in Token /\ token'[u] = "revoked"
          /\ \A t \in Token \ {u} : token'[t] = token[t]
      BY <1>2 DEF RefreshClaim, TypeOK, Sessions, ClaimExclusive
    <2>3. UNCHANGED <<parent, since, epoch, overlapped>>
      BY <1>2 DEF RefreshClaim, epochVars, guessVars
    <2>4. SingleUse'
      BY <2>3 DEF Sessions, SingleUse
    <2>5. OutlivedOnlyInFlight'
      BY <2>2, <2>3 DEF Sessions, OutlivedOnlyInFlight, Live
    <2>6. ClaimExclusive'
      <3>1. \A t \in Token : parent[t] # u
        BY <1>2, <2>2, NoneAssumption DEF Sessions, ClaimExclusive
      <3>2. \A s \in Request : req[s].at = "insert" => req[s].tok # u
        BY <1>2, <2>2, NoneAssumption DEF Sessions, ClaimExclusive
      <3>3. \A s \in Request : req[s].tok \in Token \cup {None}
        BY DEF TypeOK, RequestState
      <3>4. \A t \in Token : parent[t] \in Token \cup {None}
        BY DEF TypeOK
      <3> QED BY <2>1, <2>2, <2>3, <3>1, <3>2, <3>3, <3>4 DEF Sessions, ClaimExclusive
    <2>7. Witnessed'
      <3>1. (req[q].since + 1)..epoch \subseteq overlapped
        BY <1>2, <2>2 DEF RefreshClaim, Sessions, Witnessed, OutlivedOnlyInFlight, Live
      <3> QED BY <2>1, <2>3, <3>1 DEF Sessions, Witnessed, LetIn
    <2> QED BY <2>4, <2>5, <2>6, <2>7 DEF Sessions
  <1>3. CASE RefreshClaim(q) /\ token[req[q].tok] # "live"
    <2>1. /\ req'[q].at = "reuse" /\ req'[q].tok = req[q].tok
          /\ \A s \in Request \ {q} : req'[s] = req[s]
      BY <1>3 DEF RefreshClaim, Goto, TypeOK, RequestState
    <2>2. UNCHANGED <<token, parent, since, epoch, overlapped>>
      BY <1>3 DEF RefreshClaim, epochVars, guessVars
    <2>3. SingleUse' /\ OutlivedOnlyInFlight'
      BY <2>2 DEF Sessions, SingleUse, OutlivedOnlyInFlight, Live
    <2>4. ClaimExclusive'
      BY <1>3, <2>1, <2>2 DEF RefreshClaim, Sessions, ClaimExclusive
    <2>5. Witnessed'
      BY <2>1, <2>2 DEF Sessions, Witnessed, LetIn
    <2> QED BY <2>3, <2>4, <2>5 DEF Sessions
  <1>4. CASE HandleReuse(q)
    BY <1>4, RevokeStep DEF HandleReuse
  <1> QED BY <1>1, <1>2, <1>3, <1>4 DEF Refresh

(* Only here does a token come to life, and a parent get a successor. *)
LEMMA InsertStep ==
    ASSUME TypeOK, TypeOK', Sessions, NEW q \in Request, NEW t \in Token, InsertToken(q, t)
    PROVE  Sessions'
  <1>1. req'[q].at = "idle" /\ \A s \in Request \ {q} : req'[s] = req[s]
    BY DEF InsertToken, Finish, Idle, TypeOK
  <1>2. /\ token'[t] = "live" /\ parent'[t] = req[q].tok /\ since'[t] = req[q].since
        /\ \A u \in Token \ {t} : token'[u] = token[u] /\ parent'[u] = parent[u] /\ since'[u] = since[u]
    BY DEF InsertToken, TypeOK
  <1>3. token[t] = "none" /\ req[q].at = "insert" /\ UNCHANGED <<epoch, overlapped>>
    BY DEF InsertToken, epochVars, guessVars
  <1>4. SingleUse'
    BY <1>2, <1>3 DEF Sessions, SingleUse, ClaimExclusive
  <1>5. \A u \in Token : parent[u] \in Token \cup {None}
    BY DEF TypeOK
  <1>6. \A s \in Request : req[s].tok \in Token \cup {None}
    BY DEF TypeOK, RequestState
  <1>7. ClaimExclusive'
    <2>1. \A s \in Request : req'[s].at = "insert" /\ req'[s].tok # None =>
             token'[req'[s].tok] = "revoked" /\ \A u \in Token : parent'[u] # req'[s].tok
      BY <1>1, <1>2, <1>3, <1>6 DEF Sessions, ClaimExclusive
    <2>2. \A u \in Token : parent'[u] # None => token'[parent'[u]] = "revoked" /\ token'[u] # "none"
      BY <1>2, <1>3, <1>5, <1>6 DEF Sessions, ClaimExclusive
    <2>3. \A s \in Request : req'[s].at \in {"claim", "reuse"} =>
             req'[s].tok \in Token /\ token'[req'[s].tok] # "none"
      BY <1>1, <1>2, <1>3, <1>6 DEF Sessions, ClaimExclusive
    <2> QED BY <1>1, <2>1, <2>2, <2>3 DEF Sessions, ClaimExclusive
  <1>8. Witnessed'
    <2>1. LetIn' \subseteq LetIn \ {q}
      BY <1>1 DEF LetIn
    <2>2. \A s \in Request : req'[s].at = "claim" => req'[s].since = since'[req'[s].tok]
      BY <1>1, <1>2, <1>3 DEF Sessions, ClaimExclusive, Witnessed
    <2> QED BY <1>1, <1>3, <2>1, <2>2 DEF Sessions, Witnessed, LetIn
  <1>9. OutlivedOnlyInFlight'
    <2>1. (req[q].since + 1)..epoch \subseteq overlapped
      BY <1>3 DEF Sessions, Witnessed, LetIn
    <2> QED BY <1>2, <1>3, <2>1 DEF Sessions, OutlivedOnlyInFlight, Live
  <1> QED BY <1>4, <1>7, <1>8, <1>9 DEF Sessions

LEMMA LogoutStep ==
    ASSUME TypeOK, Sessions, NEW t \in Token, Logout(t)
    PROVE  Sessions'
  <1>1. /\ token[t] = "live" /\ token'[t] = "revoked"
        /\ \A u \in Token \ {t} : token'[u] = token[u]
        /\ UNCHANGED <<req, parent, since, epoch, overlapped>>
    BY DEF Logout, TypeOK, epochVars, guessVars
  <1>2. SingleUse' /\ OutlivedOnlyInFlight'
    BY <1>1 DEF Sessions, SingleUse, OutlivedOnlyInFlight, Live
  <1>3. ClaimExclusive'
    <2>1. \A s \in Request : req[s].tok \in Token \cup {None}
      BY DEF TypeOK, RequestState
    <2>2. \A u \in Token : parent[u] \in Token \cup {None}
      BY DEF TypeOK
    <2> QED BY <1>1, <2>1, <2>2 DEF Sessions, ClaimExclusive
  <1>4. Witnessed'
    BY <1>1 DEF Sessions, Witnessed, LetIn
  <1> QED BY <1>2, <1>3, <1>4 DEF Sessions

LEMMA ManageStep ==
    ASSUME TypeOK, TypeOK', Sessions, NEW q \in Request, Manage(q) \/ Abandon(q)
    PROVE  Sessions'
  <1>1. CASE RevokeAfterChange(q) \/ DeleteUser(q)
    BY <1>1, RevokeStep DEF RevokeAfterChange, DeleteUser
  <1>2. CASE ~(RevokeAfterChange(q) \/ DeleteUser(q))
    <2>1. /\ req'[q].at \in {"revokeAll", "update", "reset", "unlock", "delete", "idle"}
          /\ \A s \in Request \ {q} : req'[s] = req[s]
          /\ UNCHANGED <<tokenVars, epochVars>>
      BY <1>2 DEF Manage, ChangePassword, ResetPassword, ReadUser, UpdateUser, UnlockUser,
                  Abandon, Goto, Finish, Idle, TypeOK, RequestState
    <2> QED BY <2>1, QuietStep DEF TypeOK
  <1> QED BY <1>1, <1>2

LEMMA SessionsStep ==
    ASSUME TypeOK, TypeOK', Sessions, [Next]_vars
    PROVE  Sessions'
  <1>1. ASSUME NEW q \in Request, Login(q) \/ Refresh(q) \/ Manage(q) \/ Abandon(q)
        PROVE  Sessions'
    BY <1>1, LoginStep, RefreshStep, ManageStep
  <1>2. ASSUME NEW q \in Request, NEW t \in Token, InsertToken(q, t)
        PROVE  Sessions'
    BY <1>2, InsertStep
  <1>3. ASSUME NEW t \in Token, Logout(t)
        PROVE  Sessions'
    BY <1>3, LogoutStep
  <1>4. CASE LogoutAll
    <2>1. RevokeAllTokens /\ UNCHANGED req
      BY <1>4 DEF LogoutAll
    <2>2. CASE Request = {}
      BY <2>1, <2>2 DEF Sessions, SingleUse, ClaimExclusive, Witnessed, OutlivedOnlyInFlight,
                        Live, LetIn, RevokeAllTokens, TypeOK
    <2>3. CASE Request # {}
      BY <2>1, <2>3, RevokeStep
    <2> QED BY <2>2, <2>3
  <1>5. CASE LockExpires \/ UNCHANGED vars
    BY <1>5, StillStep DEF LockExpires, vars
  <1> QED BY <1>1, <1>2, <1>3, <1>4, <1>5 DEF Next

-----------------------------------------------------------------------------
(* Deletion revokes the tokens at once; later logins and refreshes see it.  *)
LEMMA DeletedStep ==
    ASSUME TypeOK, TypeOK', Sessions, DeletedHoldsNoLive, [Next]_vars
    PROVE  DeletedHoldsNoLive'
  <1>1. CASE LogoutAll \/ \E q \in Request : HandleReuse(q) \/ RevokeAfterChange(q) \/ DeleteUser(q)
    <2>1. \A t \in Token : token'[t] # "live"
      BY <1>1 DEF LogoutAll, DeleteUser, HandleReuse, RevokeAfterChange, RevokeAllTokens, TypeOK
    <2>2. ASSUME NEW q \in Request, req'[q].at = "claim"
          PROVE  req'[q].tok \in Token
      BY <1>1, <2>2 DEF LogoutAll, DeleteUser, HandleReuse, RevokeAfterChange, Finish, Idle, TypeOK,
                        Sessions, ClaimExclusive
    <2> QED BY <2>1, <2>2 DEF DeletedHoldsNoLive
  <1>2. ASSUME NEW q \in Request, NEW t \in Token, RefreshRead(q, t)
        PROVE  DeletedHoldsNoLive'
    BY <1>2 DEF RefreshRead, DeletedHoldsNoLive
  <1>3. ASSUME NEW q \in Request, RefreshClaim(q)
        PROVE  DeletedHoldsNoLive'
    <2>1. account' = account
      BY <1>3 DEF RefreshClaim
    <2>2. \A s \in Request : req'[s].at = "claim" => req'[s] = req[s]
      BY <1>3 DEF RefreshClaim, Goto, TypeOK, RequestState
    <2>3. \A u \in Token : token'[u] = "live" => token[u] = "live"
      BY <1>3 DEF RefreshClaim, TypeOK, Sessions, ClaimExclusive
    <2> QED BY <2>1, <2>2, <2>3 DEF DeletedHoldsNoLive, Sessions, ClaimExclusive
  <1>4. ASSUME NEW q \in Request, NEW t \in Token, InsertToken(q, t)
        PROVE  DeletedHoldsNoLive'
    BY <1>4 DEF InsertToken, Finish, Idle, TypeOK, DeletedHoldsNoLive, Sessions, ClaimExclusive
  <1>5. ASSUME NEW t \in Token, Logout(t)
        PROVE  DeletedHoldsNoLive'
    BY <1>5 DEF Logout, TypeOK, DeletedHoldsNoLive, Sessions, ClaimExclusive
  <1>6. CASE \E q \in Request : \/ Login(q) \/ ChangePassword(q) \/ ResetPassword(q)
                                \/ UnlockUser(q) \/ Abandon(q)
                                \/ \E s \in {"update", "reset", "unlock", "delete"} : ReadUser(q, s)
                                \/ \E active \in BOOLEAN : UpdateUser(q, active)
    <2>1. account'.deleted = account.deleted /\ token' = token
      BY <1>6 DEF Login, LoginRead, LoginAccept, LoginReject, LockAccount, ChangePassword, ResetPassword,
                  ReadUser, UpdateUser, UnlockUser, Abandon, ResetFailures, tokenVars, TypeOK, Account
    <2>2. \A s \in Request : req'[s].at = "claim" => req'[s] = req[s]
      BY <1>6 DEF Login, LoginRead, LoginAccept, LoginReject, LockAccount, ChangePassword, ResetPassword,
                  ReadUser, UpdateUser, UnlockUser, Abandon, Goto, Finish, Idle, TypeOK, RequestState
    <2> QED BY <2>1, <2>2 DEF DeletedHoldsNoLive
  <1>7. CASE LockExpires \/ UNCHANGED vars
    <2>1. account'.deleted = account.deleted /\ token' = token /\ req' = req
      BY <1>7 DEF LockExpires, vars, tokenVars, TypeOK, Account
    <2> QED BY <2>1 DEF DeletedHoldsNoLive
  <1> QED BY <1>1, <1>2, <1>3, <1>4, <1>5, <1>6, <1>7
          DEF Next, Refresh, Manage

-----------------------------------------------------------------------------
LEMMA InitInv == Init => IInv
  <1> SUFFICES ASSUME Init PROVE IInv
    OBVIOUS
  <1>1. TypeOK
    <2>0. 0 \in 0..(MaxGuesses + 1)
      BY RequestsFinite
    <2>1. account \in Account /\ guesses \in 0..(MaxGuesses + 1) /\ excused \in BOOLEAN
      BY <2>0 DEF Init, Account
    <2> QED BY <2>1, RequestInit DEF Init, TypeOK
  <1>2. SingleUse /\ OutlivedOnlyInFlight
    BY DEF Init, SingleUse, OutlivedOnlyInFlight, Live
  <1>3. ClaimExclusive /\ Witnessed /\ DeletedHoldsNoLive
    BY DEF Init, ClaimExclusive, Witnessed, LetIn, DeletedHoldsNoLive, Idle
  <1> QED BY <1>1, <1>2, <1>3 DEF IInv, Sessions

LEMMA InvStep == IInv /\ [Next]_vars => IInv'
  BY TypeStep, SessionsStep, DeletedStep DEF IInv, Sessions

LEMMA Invariance == Spec => []IInv
  BY InitInv, InvStep, PTL DEF Spec

(* Every reachable state is well typed. *)
THEOREM TypeCorrect == Spec => []TypeOK
  BY Invariance, PTL DEF IInv

(* A refresh token is rotated at most once.  Of two requests presenting the *)
(* same token one finds it revoked by the other (auth.service.ts: refresh). *)
THEOREM RotatedOnce == Spec => []SingleUse
  BY Invariance, PTL DEF IInv, Sessions

(* A session survives a revocation of all sessions only when the revocation *)
(* met a request between its check and its insert.                          *)
THEOREM OutlivesOnlyInFlight == Spec => []OutlivedOnlyInFlight
  BY Invariance, PTL DEF IInv, Sessions

(* A refresh never succeeds on a deleted account (users.service.ts: delete).*)
THEOREM DeletedCannotRotate == Spec => DeletedNeverRotates
  <1>1. IInv /\ [Next]_vars =>
          [account.deleted =>
             \A q \in Request : ~(req[q].at = "claim" /\ req'[q].at = "insert")]_vars
    <2> SUFFICES ASSUME IInv, [Next]_vars, account.deleted, NEW q \in Request,
                        req[q].at = "claim", req'[q].at = "insert"
                 PROVE  FALSE
      OBVIOUS
    <2>1. token[req[q].tok] # "live"
      BY DEF IInv, DeletedHoldsNoLive
    <2> QED BY <2>1 DEF IInv, TypeOK, RequestState, Next, Login, Refresh, Manage, LoginRead,
                  LoginAccept, LoginReject, LockAccount, RefreshRead, RefreshClaim, HandleReuse,
                  InsertToken, Logout, LogoutAll, ChangePassword, RevokeAfterChange, ResetPassword,
                  ReadUser, UpdateUser, UnlockUser, DeleteUser, LockExpires, Abandon,
                  Goto, Finish, Idle, vars
  <1> QED BY <1>1, Invariance, PTL DEF Spec, DeletedNeverRotates


-----------------------------------------------------------------------------
(* Guessing.  Most steps move no request to or from the two groups.         *)

LEMMA GuessInit == Init => GuessesCounted
  <1> SUFFICES ASSUME Init PROVE GuessesCounted
    OBVIOUS
  <1>1. Rejecting = {} /\ Locking = {}
    BY DEF Init, Rejecting, Locking, Idle
  <1> QED BY <1>1, FS_EmptySet, RequestsFinite DEF Init, GuessesCounted

LEMMA GuessQuietStep ==
    ASSUME GuessesCounted, TypeOK, UNCHANGED guessVars,
           account'.failed = account.failed, account'.locked = account.locked \/ account'.locked = TRUE,
           Rejecting' = Rejecting, Locking' = Locking \/ account'.locked = TRUE
    PROVE  GuessesCounted'
  BY DEF GuessesCounted, guessVars, TypeOK, Account

LEMMA GuessResetStep ==
    ASSUME TypeOK, ResetFailures, Rejecting' = Rejecting
    PROVE  GuessesCounted'
  <1>1. Rejecting \cap {} = {} /\ Rejecting \subseteq Request /\ Locking' \subseteq Request
    BY DEF Rejecting, Locking
  <1>2. Cardinality(Rejecting) \in Nat /\ Cardinality(Rejecting) <= MaxGuesses
    BY <1>1, RequestAssumption, FS_Subset, FS_CardinalityType, RequestsFinite
  <1>3. Cardinality(Locking') \in Nat
    BY <1>1, RequestAssumption, FS_Subset, FS_CardinalityType
  <1>4. account'.failed = 0
    BY DEF ResetFailures, TypeOK, Account
  <1> QED BY <1>2, <1>3, <1>4 DEF GuessesCounted, ResetFailures

LEMMA GuessLoginStep ==
    ASSUME TypeOK, TypeOK', GuessesCounted, NEW q \in Request, Login(q)
    PROVE  GuessesCounted'
  <1> DEFINE R == Cardinality(Rejecting)
             L == Cardinality(Locking)
  <1>1. /\ R \in Nat /\ L \in Nat /\ R + L <= Cardinality(Request)
        /\ IsFiniteSet(Rejecting) /\ IsFiniteSet(Locking)
    <2>1. Rejecting \subseteq Request /\ Locking \subseteq Request /\ Rejecting \cap Locking = {}
      BY DEF Rejecting, Locking
    <2> QED BY <2>1, TwoGroups
  <1>2. account.failed \in Nat /\ guesses \in Nat
    BY RequestsFinite DEF TypeOK, Account
  <1>3. CASE LoginRead(q, TRUE)
    <2>1. Rejecting' = Rejecting /\ Locking' = Locking
      BY <1>3 DEF LoginRead, Rejecting, Locking, TypeOK
    <2> QED BY <1>3, <2>1, GuessQuietStep DEF LoginRead, guessVars
  <1>4. CASE LoginRead(q, FALSE)
    <2>1. Rejecting' = Rejecting \cup {q} /\ Locking' = Locking /\ q \notin Rejecting
      BY <1>4 DEF LoginRead, Rejecting, Locking, TypeOK
    <2>2. Cardinality(Rejecting') = R + 1
      BY <1>1, <2>1, FS_AddElement
    <2>3. R + 1 + L <= Cardinality(Request)
      <3>1. Rejecting' \subseteq Request /\ Locking' \subseteq Request /\ Rejecting' \cap Locking' = {}
        BY DEF Rejecting, Locking
      <3>2. Cardinality(Rejecting') + Cardinality(Locking') <= Cardinality(Request)
        BY <3>1, TwoGroups
      <3> QED BY <2>1, <2>2, <3>2
    <2>4. guesses' = Bump(guesses) /\ account' = account /\ excused' = excused /\ ~account.locked
      BY <1>4 DEF LoginRead
    <2>5. ASSUME ~excused
          PROVE  guesses' = guesses + 1 /\ guesses' <= MaxGuesses
      BY <2>3, <2>4, <2>5, <1>1, <1>2, RequestsFinite DEF GuessesCounted, Bump, MaxGuesses
    <2> QED BY <1>1, <1>2, <2>1, <2>2, <2>4, <2>5 DEF GuessesCounted
  <1>5. CASE LoginAccept(q)
    <2>1. Rejecting' = Rejecting
      BY <1>5 DEF LoginAccept, Goto, Rejecting, TypeOK, RequestState
    <2> QED BY <1>5, <2>1, GuessResetStep DEF LoginAccept
  <1>6. CASE LoginReject(q)
    <2>1. q \in Rejecting /\ q \notin Locking /\ Rejecting' = Rejecting \ {q}
      BY <1>6 DEF LoginReject, Goto, Finish, Idle, Rejecting, Locking, TypeOK, RequestState
    <2>2. Cardinality(Rejecting') = R - 1
      BY <1>1, <2>1, FS_RemoveElement
    <2>3. account'.failed = Bump(account.failed) /\ account'.locked = account.locked
      BY <1>6 DEF LoginReject, TypeOK, Account
    <2>4. UNCHANGED <<guesses, excused>>
      BY <1>6 DEF LoginReject, guessVars
    <2>5. ASSUME ~excused
          PROVE  account'.failed = account.failed + 1
      BY <1>1, <1>2, <2>1, <2>2, <2>3, <2>5, RequestsFinite DEF GuessesCounted, Bump
    <2>6. CASE account'.failed >= Threshold
      <3>1. Locking' = Locking \cup {q}
        BY <1>6, <2>6 DEF LoginReject, Goto, Locking, TypeOK, RequestState
      <3>2. Cardinality(Locking') = L + 1
        BY <1>1, <2>1, <3>1, FS_AddElement
      <3> QED BY <1>1, <1>2, <2>2, <2>3, <2>4, <2>5, <3>2 DEF GuessesCounted
    <2>7. CASE ~(account'.failed >= Threshold)
      <3>1. Locking' = Locking
        BY <1>6, <2>7 DEF LoginReject, Finish, Idle, Locking, TypeOK, RequestState
      <3>2. account'.failed \in Nat
        BY RequestsFinite DEF TypeOK, Account
      <3> QED BY <1>1, <1>2, <2>2, <2>3, <2>4, <2>5, <2>7, <3>1, <3>2 DEF GuessesCounted
    <2> QED BY <2>6, <2>7
  <1>7. CASE LockAccount(q)
    <2>1. Rejecting' = Rejecting
      BY <1>7 DEF LockAccount, Finish, Idle, Rejecting, TypeOK, RequestState
    <2>2. account'.failed = account.failed /\ account'.locked = TRUE
      BY <1>7 DEF LockAccount, TypeOK, Account
    <2> QED BY <1>7, <2>1, <2>2, GuessQuietStep DEF LockAccount
  <1> QED BY <1>3, <1>4, <1>5, <1>6, <1>7 DEF Login

LEMMA GuessStep ==
    ASSUME TypeOK, TypeOK', GuessesCounted, [Next]_vars
    PROVE  GuessesCounted'
  <1>1. ASSUME NEW q \in Request, ResetPassword(q) \/ UnlockUser(q)
        PROVE  GuessesCounted'
    <2>1. Rejecting' = Rejecting /\ ResetFailures
      BY <1>1 DEF ResetPassword, UnlockUser, Goto, Finish, Idle, Rejecting, TypeOK, RequestState
    <2> QED BY <2>1, GuessResetStep
  <1>2. ASSUME NEW q \in Request,
               Refresh(q) \/ Manage(q) \/ \E t \in Token : InsertToken(q, t),
               ~ResetPassword(q), ~UnlockUser(q)
        PROVE  GuessesCounted'
    <2>1. UNCHANGED guessVars /\ account'.failed = account.failed /\ account'.locked = account.locked
      BY <1>2 DEF Refresh, RefreshRead, RefreshClaim, HandleReuse, Manage, ChangePassword, RevokeAfterChange,
                  ReadUser, UpdateUser, DeleteUser, InsertToken, TypeOK, Account
    <2> DEFINE Aside == /\ req[q].at \notin {"reject", "lock"} /\ req'[q].at \notin {"reject", "lock"}
                        /\ \A s \in Request \ {q} : req'[s] = req[s]
    <2>2. Aside
      <3>1. ASSUME Refresh(q) \/ \E t \in Token : InsertToken(q, t) PROVE Aside
        <4>1. ASSUME NEW t \in Token, RefreshRead(q, t) PROVE Aside
          BY <4>1 DEF RefreshRead, Idle, TypeOK
        <4>2. ASSUME NEW t \in Token, InsertToken(q, t) PROVE Aside
          BY <4>2 DEF InsertToken, Finish, Idle, TypeOK
        <4>3. CASE RefreshClaim(q) \/ HandleReuse(q)
          BY <4>3 DEF RefreshClaim, HandleReuse, Goto, Finish, Idle, TypeOK, RequestState
        <4> QED BY <3>1, <4>1, <4>2, <4>3 DEF Refresh
      <3>2. ASSUME Manage(q) PROVE Aside
        BY <1>2, <3>2 DEF Manage, ChangePassword, RevokeAfterChange, ReadUser, UpdateUser, DeleteUser,
                    Goto, Finish, Idle, TypeOK, RequestState
      <3> QED BY <1>2, <3>1, <3>2
    <2>3. Rejecting' = Rejecting /\ Locking' = Locking
      BY <2>2 DEF Rejecting, Locking
    <2> QED BY <2>1, <2>3, GuessQuietStep
  <1>3. ASSUME NEW q \in Request, Abandon(q)
        PROVE  GuessesCounted'
    <2>1. CASE req[q].at \in {"reject", "lock"}
      BY <1>3, <2>1 DEF Abandon, GuessesCounted
    <2>2. CASE req[q].at \notin {"reject", "lock"}
      <3>1. Rejecting' = Rejecting /\ Locking' = Locking
        BY <1>3, <2>2 DEF Abandon, Finish, Idle, Rejecting, Locking, TypeOK, RequestState
      <3>2. guesses' = guesses /\ account' = account /\ (~excused' => ~excused)
        BY <1>3 DEF Abandon
      <3> QED BY <3>1, <3>2 DEF GuessesCounted
    <2> QED BY <2>1, <2>2
  <1>4. CASE LockExpires
    BY <1>4 DEF LockExpires, GuessesCounted
  <1>5. CASE LogoutAll \/ UNCHANGED vars \/ \E t \in Token : Logout(t)
    <2>1. UNCHANGED <<guessVars, account, req>>
      BY <1>5 DEF LogoutAll, Logout, vars
    <2> QED BY <2>1, GuessQuietStep DEF Rejecting, Locking
  <1> QED BY <1>1, <1>2, <1>3, <1>4, <1>5, GuessLoginStep DEF Next

(* Guessing in parallel does not get around the lock (auth.service.ts:      *)
(* login), for any threshold and any number of concurrent requests.         *)
THEOREM GuessesAreBounded == Spec => []GuessesBounded
  <1>1. Spec => []GuessesCounted
    <2>1. TypeOK /\ TypeOK' /\ GuessesCounted /\ [Next]_vars => GuessesCounted'
      BY GuessStep
    <2> QED BY <2>1, GuessInit, TypeCorrect, PTL DEF Spec
  <1>2. GuessesCounted => GuessesBounded
    BY DEF GuessesCounted, GuessesBounded
  <1> QED BY <1>1, <1>2, PTL

-----------------------------------------------------------------------------
(* RefreshClient.  The browser takes part in the sessions.                 *)

(* What is known of the refresh of a tab: who is in flight, and how far the *)
(* server has come with the request of each call.                           *)
InFlightOwned ==
    /\ inFlight \in [Tab -> Request \cup {None}]
    /\ \A q \in Refreshing : inFlight[TabOf[q]] = q
    /\ \A b \in Tab : inFlight[b] # None =>
          inFlight[b] \in Refreshing /\ TabOf[inFlight[b]] = b

ServerWorks ==
    /\ \A q \in Request :
          /\ req[q].at \in {"idle", "claim", "reuse", "insert"}
          /\ req[q].at # "idle" => call[q] \in {"server", "detached"} /\ req[q].tok \in Token
          /\ call[q] \in {"refresh", "issued"} => cookie[q] \in Token
          /\ call[q] = "server" => req[q].at # "idle"
          /\ call[q] = "detached" => disturbed

(* As long as nothing has disturbed the browser, one refresh is in flight   *)
(* at most, and none with a logout; it works with the token of the browser, *)
(* and that token or its successor is live until the browser logs out.      *)
Undisturbed ==
    ~disturbed =>
       /\ replayed = {}
       /\ leaving => Refreshing = {}
       /\ \A q, r \in Refreshing : q = r
       /\ \A q \in Request :
             /\ req[q].at # "reuse"
             /\ req[q].at = "claim" => req[q].tok = jar
             /\ call[q] = "refresh" => cookie[q] = jar
             /\ call[q] = "issued" => token[cookie[q]] = "live"
       /\ \/ jar = None \/ leaving \/ token[jar] = "live"
          \/ \E q \in Request : call[q] = "issued" \/ req[q].at = "insert"

BrowserTypeOK ==
    /\ call \in [Request -> {"idle", "sent", "waiting", "retried",
                             "refresh", "server", "detached", "issued", "refused"}]
    /\ cookie \in [Request -> Token \cup {None}]
    /\ jar \in Token \cup {None}
    /\ leaving \in BOOLEAN /\ disturbed \in BOOLEAN

BrowserInv == BrowserTypeOK /\ InFlightOwned /\ ServerWorks /\ Undisturbed
ClientInv == IInv /\ BrowserInv

USE NoneAssumption, TabAssumption

(* Every step of the browser and of the server is one of the sessions, or   *)
(* leaves them alone.                                                       *)
LEMMA ClientSteps == ServerWorks /\ BrowserTypeOK /\ [ClientNext]_allVars => [Next]_vars
  <1> SUFFICES ASSUME ServerWorks, BrowserTypeOK, [ClientNext]_allVars PROVE [Next]_vars
    OBVIOUS
  <1>1. CASE LogOut \/ ReceiveLogout \/ EndSessions
    <2>1. CASE LogOut /\ Logout(jar)
      BY <2>1 DEF LogOut, Next, Logout, BrowserTypeOK
    <2> QED BY <1>1, <2>1 DEF LogOut, ReceiveLogout, EndSessions, Next
  <1>2. ASSUME NEW q \in Request, Browser(q)
        PROVE  UNCHANGED vars
    BY <1>2 DEF Browser, SendCall, EndCall, Unauthorized, Navigate, StartRefresh,
                ReceiveTokens, ReceiveRefusal, LoseRefresh, vars, tokenVars, epochVars, guessVars
  <1>3. ASSUME NEW q \in Request, Server(q)
        PROVE  Next
    <2>1. CASE Receive(q)
      <3>1. RefreshRead(q, cookie[q]) /\ cookie[q] \in Token
        BY <2>1 DEF Receive, ServerWorks
      <3> QED BY <3>1 DEF Next, Refresh
    <2> QED BY <1>3, <2>1 DEF Server, Claim, Refuse, Issue, FailServer, Next, Refresh
  <1>4. CASE UNCHANGED allVars
    BY <1>4 DEF allVars
  <1> QED BY <1>1, <1>2, <1>3, <1>4 DEF ClientNext

LEMMA BrowserInit == ClientInit => TypeOK /\ BrowserInv
  <1> SUFFICES ASSUME ClientInit PROVE TypeOK /\ BrowserInv
    OBVIOUS
  <1>1. TypeOK
    <2>1. 0 \in 0..(MaxGuesses + 1) /\ 0 \in 0..MaxEpoch
      BY RequestsFinite, MaxEpochAssumption
    <2>2. account \in Account
      BY <2>1 DEF ClientInit, Account
    <2> QED BY <2>1, <2>2, RequestInit DEF ClientInit, TypeOK
  <1>2. Refreshing = {}
    BY DEF ClientInit, Refreshing
  <1> QED BY <1>1, <1>2 DEF ClientInit, BrowserInv, BrowserTypeOK, InFlightOwned, ServerWorks,
                            Undisturbed, Idle

(* Moves of a call that neither begin nor end a refresh. *)
LEMMA CallStep ==
    ASSUME BrowserInv, NEW q \in Request, SendCall(q) \/ EndCall(q)
    PROVE  BrowserInv'
  <1>1. Refreshing' = Refreshing /\ UNCHANGED <<token, req, replayed>>
    BY DEF SendCall, EndCall, Refreshing, BrowserInv, BrowserTypeOK, vars, tokenVars
  <1> QED BY <1>1 DEF SendCall, EndCall, BrowserInv, BrowserTypeOK, InFlightOwned, ServerWorks, Undisturbed

(* A refresh begins while its tab has none in flight: if another tab has    *)
(* one, the refreshes have crossed.                                         *)
LEMMA BeginStep ==
    ASSUME BrowserInv, NEW q \in Request, StartRefresh(q), inFlight[TabOf[q]] = None,
           call[q] \in {"idle", "sent"}
    PROVE  BrowserInv'
  <1>1. Refreshing' = Refreshing \cup {q}
    BY DEF StartRefresh, Refreshing, BrowserInv, BrowserTypeOK
  <1>2. \A r \in Refreshing : TabOf[r] # TabOf[q]
    BY DEF BrowserInv, InFlightOwned, Refreshing
  <1>3. jar # None /\ UNCHANGED <<token, req, replayed, jar, leaving>>
    BY DEF StartRefresh, vars, tokenVars
  <1>4. BrowserTypeOK'
    BY <1>3 DEF StartRefresh, BrowserInv, BrowserTypeOK
  <1>5. InFlightOwned'
    BY <1>1, <1>2 DEF StartRefresh, BrowserInv, InFlightOwned, Refreshing
  <1>6. ServerWorks'
    BY <1>3 DEF StartRefresh, BrowserInv, BrowserTypeOK, ServerWorks
  <1>7. Undisturbed'
    <2> SUFFICES ASSUME ~disturbed' PROVE Undisturbed'
      BY <1>3 DEF Undisturbed
    <2>1. ~disturbed /\ ~leaving /\ Refreshing = {}
      BY <1>2 DEF StartRefresh, InTab, Refreshing
    <2> QED BY <1>1, <1>3, <2>1 DEF StartRefresh, BrowserInv, BrowserTypeOK, ServerWorks, Undisturbed, Refreshing
  <1> QED BY <1>4, <1>5, <1>6, <1>7 DEF BrowserInv

LEMMA StartStep ==
    ASSUME BrowserInv, NEW q \in Request, Unauthorized(q) \/ Navigate(q)
    PROVE  BrowserInv'
  <1>1. CASE Unauthorized(q) /\ inFlight[TabOf[q]] = None
    BY <1>1, BeginStep DEF Unauthorized
  <1>2. CASE Unauthorized(q) /\ inFlight[TabOf[q]] # None
    <2>1. Refreshing' = Refreshing /\ UNCHANGED <<token, req, replayed>>
      BY <1>2 DEF Unauthorized, Refreshing, BrowserInv, BrowserTypeOK, vars, tokenVars
    <2> QED BY <1>2, <2>1 DEF Unauthorized, BrowserInv, BrowserTypeOK, InFlightOwned, ServerWorks, Undisturbed
  <1>3. CASE Navigate(q)
    <2>1. inFlight[TabOf[q]] = None
      <3>1. TabOf[q] \in Tab
        OBVIOUS
      <3> QED BY <1>3, <3>1 DEF Navigate, BrowserInv, InFlightOwned, Refreshing
    <2> QED BY <1>3, <2>1, BeginStep DEF Navigate
  <1> QED BY <1>1, <1>2, <1>3

(* The server reads, claims, refuses, issues or fails. *)
LEMMA ReceiveStep ==
    ASSUME TypeOK, BrowserInv, NEW q \in Request, Receive(q)
    PROVE  BrowserInv'
  <1>1. Refreshing' = Refreshing /\ UNCHANGED <<token, replayed, cookie, jar, inFlight, leaving, disturbed>>
    BY DEF Receive, RefreshRead, Refreshing, BrowserInv, BrowserTypeOK, tokenVars
  <1>2. /\ q \in Refreshing /\ cookie[q] \in Token /\ req[q].at = "idle"
        /\ \A r \in Request : r # q => req'[r] = req[r] /\ call'[r] = call[r]
        /\ call'[q] = "server" /\ req'[q].tok = cookie[q]
        /\ req'[q].at = IF token[cookie[q]] = "revoked" THEN "reuse" ELSE "claim"
    BY DEF Receive, RefreshRead, Refreshing, Idle, BrowserInv, BrowserTypeOK, ServerWorks, TypeOK
  <1>3. BrowserTypeOK'
    BY <1>1 DEF Receive, BrowserInv, BrowserTypeOK
  <1>4. InFlightOwned'
    BY <1>1 DEF BrowserInv, InFlightOwned
  <1>5. ServerWorks'
    BY <1>1, <1>2 DEF BrowserInv, ServerWorks
  <1>6. Undisturbed'
    <2> SUFFICES ASSUME ~disturbed PROVE Undisturbed'
      BY <1>1 DEF Undisturbed
    <2>1. call[q] = "refresh" /\ \A r \in Refreshing : r = q
      BY <1>2 DEF Receive, BrowserInv, Undisturbed
    <2>2. \A r \in Request : call[r] # "issued" /\ req[r].at # "insert"
      BY <1>2, <2>1 DEF BrowserInv, ServerWorks, Refreshing
    <2>3. cookie[q] = jar /\ jar # None /\ ~leaving
      BY <1>2, <2>1 DEF BrowserInv, Undisturbed
    <2>4. token[jar] = "live"
      BY <2>2, <2>3 DEF BrowserInv, Undisturbed
    <2> QED BY <1>1, <1>2, <2>3, <2>4 DEF BrowserInv, Undisturbed
  <1> QED BY <1>3, <1>4, <1>5, <1>6 DEF BrowserInv

LEMMA ClaimStep ==
    ASSUME TypeOK, BrowserInv, NEW q \in Request, Claim(q)
    PROVE  BrowserInv'
  <1>1. UNCHANGED <<call, cookie, jar, inFlight, leaving, disturbed, replayed>> /\ Refreshing' = Refreshing
    BY DEF Claim, RefreshClaim, clientVars, Refreshing
  <1>2. /\ req[q].at = "claim" /\ req[q].tok \in Token /\ call[q] \in {"server", "detached"}
        /\ \A r \in Request : r # q => req'[r] = req[r]
        /\ req'[q].tok = req[q].tok
        /\ \/ token[req[q].tok] = "live" /\ req'[q].at = "insert"
           \/ token[req[q].tok] # "live" /\ req'[q].at = "reuse" /\ token' = token
    BY DEF Claim, RefreshClaim, Goto, TypeOK, RequestState, BrowserInv, ServerWorks
  <1>3. BrowserTypeOK' /\ InFlightOwned'
    BY <1>1 DEF BrowserInv, BrowserTypeOK, InFlightOwned
  <1>4. ServerWorks'
    BY <1>1, <1>2 DEF BrowserInv, ServerWorks
  <1>5. Undisturbed'
    <2> SUFFICES ASSUME ~disturbed PROVE Undisturbed'
      BY <1>1 DEF Undisturbed
    <2>1. call[q] = "server" /\ \A r \in Refreshing : r = q
      BY <1>2 DEF BrowserInv, Undisturbed, ServerWorks, Refreshing
    <2>2. \A r \in Request : call[r] # "issued" /\ req[r].at # "insert"
      BY <1>2, <2>1 DEF BrowserInv, ServerWorks, Refreshing
    <2>3. req[q].tok = jar /\ jar # None /\ ~leaving
      <3>1. q \in Refreshing
        BY <2>1 DEF Refreshing
      <3> QED BY <1>2, <3>1 DEF BrowserInv, Undisturbed
    <2>4. token[jar] = "live"
      BY <2>2, <2>3 DEF BrowserInv, Undisturbed
    <2> QED BY <1>1, <1>2, <2>2, <2>3, <2>4 DEF BrowserInv, Undisturbed
  <1> QED BY <1>3, <1>4, <1>5 DEF BrowserInv

(* The answer of the server: q is idle there, and its call is told, unless  *)
(* nobody waits for it.                                                     *)
LEMMA AnswerStep ==
    ASSUME TypeOK, BrowserInv, NEW q \in Request, NEW a \in {"refused", "issued"},
           req[q].at # "idle", Finish(q), Answered(q, a), UNCHANGED inFlight,
           a = "issued" => cookie'[q] \in Token,
           \A r \in Request : r # q => cookie'[r] = cookie[r],
           disturbed => disturbed'
    PROVE  /\ InFlightOwned' /\ ServerWorks'
           /\ call' \in [Request -> {"idle", "sent", "waiting", "retried",
                                     "refresh", "server", "detached", "issued", "refused"}]
           /\ Refreshing' = Refreshing
           /\ \A r \in Request : r # q => call'[r] = call[r] /\ req'[r] = req[r]
           /\ req'[q].at = "idle"
           /\ call[q] = "server" => call'[q] = a
  <1>1. /\ call[q] \in {"server", "detached"}
        /\ \A r \in Request : r # q => call'[r] = call[r] /\ req'[r] = req[r]
        /\ req'[q].at = "idle"
        /\ call'[q] = IF call[q] = "detached" THEN "idle" ELSE a
        /\ call' \in [Request -> {"idle", "sent", "waiting", "retried",
                                  "refresh", "server", "detached", "issued", "refused"}]
    BY DEF Answered, Finish, Idle, TypeOK, BrowserInv, BrowserTypeOK, ServerWorks
  <1>2. Refreshing' = Refreshing
    BY <1>1 DEF Refreshing
  <1>3. InFlightOwned'
    BY <1>2 DEF BrowserInv, InFlightOwned
  <1>4. ServerWorks'
    BY <1>1 DEF BrowserInv, ServerWorks
  <1> QED BY <1>1, <1>2, <1>3, <1>4

LEMMA RefuseStep ==
    ASSUME TypeOK, BrowserInv, NEW q \in Request, Refuse(q)
    PROVE  BrowserInv'
  <1>1. /\ req[q].at = "reuse" /\ Finish(q) /\ Answered(q, "refused")
        /\ UNCHANGED <<cookie, jar, inFlight, leaving, disturbed>>
    BY DEF Refuse, HandleReuse
  <1>2. InFlightOwned' /\ ServerWorks' /\ BrowserTypeOK'
    BY <1>1, AnswerStep DEF BrowserInv, BrowserTypeOK
  <1>3. Undisturbed'
    BY <1>1 DEF BrowserInv, Undisturbed
  <1> QED BY <1>2, <1>3 DEF BrowserInv

LEMMA IssueStep ==
    ASSUME TypeOK, BrowserInv, NEW q \in Request, NEW t \in Token, Issue(q, t)
    PROVE  BrowserInv'
  <1>1. /\ req[q].at = "insert" /\ Finish(q) /\ Answered(q, "issued")
        /\ UNCHANGED <<jar, inFlight, leaving, disturbed, replayed>>
        /\ token' = [token EXCEPT ![t] = "live"]
        /\ cookie' = [cookie EXCEPT ![q] = t]
    BY DEF Issue, InsertToken
  <1>2. cookie'[q] = t /\ cookie' \in [Request -> Token \cup {None}]
        /\ \A r \in Request : r # q => cookie'[r] = cookie[r]
    BY <1>1 DEF BrowserInv, BrowserTypeOK
  <1>3. /\ InFlightOwned' /\ ServerWorks' /\ BrowserTypeOK'
        /\ Refreshing' = Refreshing /\ req'[q].at = "idle"
        /\ \A r \in Request : r # q => call'[r] = call[r] /\ req'[r] = req[r]
        /\ call[q] = "server" => call'[q] = "issued"
    BY <1>1, <1>2, AnswerStep DEF BrowserInv, BrowserTypeOK
  <1>4. Undisturbed'
    <2> SUFFICES ASSUME ~disturbed PROVE Undisturbed'
      BY <1>1 DEF Undisturbed
    <2>1. call[q] = "server"
      BY <1>1 DEF BrowserInv, ServerWorks
    <2>2. token' \in [Token -> {"none", "live", "revoked"}] /\ token'[t] = "live"
          /\ \A u \in Token : token[u] = "live" => token'[u] = "live"
      BY <1>1 DEF TypeOK
    <2>3. \A r \in Request : call[r] = "issued" => cookie[r] \in Token
      BY DEF BrowserInv, ServerWorks
    <2> QED BY <1>1, <1>2, <1>3, <2>1, <2>2, <2>3 DEF BrowserInv, Undisturbed
  <1> QED BY <1>3, <1>4 DEF BrowserInv

LEMMA FailStep ==
    ASSUME TypeOK, BrowserInv, NEW q \in Request, FailServer(q)
    PROVE  BrowserInv'
  <1>1. /\ req[q].at # "idle" /\ Finish(q) /\ Answered(q, "refused")
        /\ UNCHANGED <<cookie, jar, inFlight, leaving, token, replayed>>
        /\ disturbed' = (disturbed \/ req[q].at = "insert")
    BY DEF FailServer, Abandon, tokenVars
  <1>2. /\ InFlightOwned' /\ ServerWorks'
        /\ call' \in [Request -> {"idle", "sent", "waiting", "retried",
                                  "refresh", "server", "detached", "issued", "refused"}]
        /\ Refreshing' = Refreshing /\ req'[q].at = "idle"
        /\ \A r \in Request : r # q => call'[r] = call[r] /\ req'[r] = req[r]
        /\ call[q] = "server" => call'[q] = "refused"
    BY <1>1, AnswerStep
  <1>3. disturbed' \in BOOLEAN
    BY Zenon, <1>1
  <1>4. BrowserTypeOK'
    BY <1>1, <1>2, <1>3 DEF BrowserInv, BrowserTypeOK
  <1>5. Undisturbed'
    <2> SUFFICES ASSUME ~disturbed, req[q].at # "insert" PROVE Undisturbed'
      BY <1>1 DEF Undisturbed
    <2>1. call[q] = "server"
      BY <1>1 DEF BrowserInv, ServerWorks
    <2> QED BY <1>1, <1>2, <2>1 DEF BrowserInv, Undisturbed
  <1> QED BY <1>2, <1>4, <1>5 DEF BrowserInv

(* The refresh of q is over, for q and for those who waited with it. *)
LEMMA OverStep ==
    ASSUME BrowserInv, NEW q \in Refreshing, UNCHANGED <<req, cookie>>,
           disturbed => disturbed',
           inFlight' = [inFlight EXCEPT ![TabOf[q]] = None],
           call' \in [Request -> {"idle", "sent", "waiting", "retried",
                                  "refresh", "server", "detached", "issued", "refused"}],
           call'[q] \in {"idle", "retried", "detached"},
           req[q].at # "idle" => call'[q] = "detached",
           call'[q] = "detached" => disturbed',
           \A r \in Request : r # q =>
              call'[r] = call[r] \/ (call[r] = "waiting" /\ call'[r] \in {"idle", "retried"})
    PROVE  InFlightOwned' /\ ServerWorks' /\ Refreshing' = Refreshing \ {q}
  <1>1. Refreshing' = Refreshing \ {q} /\ q \in Request
    BY DEF Refreshing
  <1>2. TabOf[q] \in Tab /\ inFlight[TabOf[q]] = q
    BY <1>1 DEF BrowserInv, InFlightOwned
  <1>3. InFlightOwned'
    BY <1>1, <1>2 DEF BrowserInv, InFlightOwned, Refreshing
  <1>4. ServerWorks'
    BY <1>1 DEF BrowserInv, ServerWorks
  <1> QED BY <1>1, <1>3, <1>4

LEMMA SettleStep ==
    ASSUME TypeOK, BrowserInv, NEW q \in Request, ReceiveTokens(q) \/ ReceiveRefusal(q)
    PROVE  BrowserInv'
  <1>1. /\ call[q] \in {"issued", "refused"} /\ q \in Refreshing
        /\ UNCHANGED <<token, req, replayed, cookie, leaving, disturbed>>
        /\ inFlight' = [inFlight EXCEPT ![TabOf[q]] = None]
    BY DEF ReceiveTokens, ReceiveRefusal, Settle, vars, tokenVars, Refreshing
  <1>2. PICK a \in {"retried", "idle"} : Settle(q, a)
    BY DEF ReceiveTokens, ReceiveRefusal
  <1>3. /\ call' \in [Request -> {"idle", "sent", "waiting", "retried",
                                  "refresh", "server", "detached", "issued", "refused"}]
        /\ call'[q] \in {"idle", "retried"}
        /\ \A r \in Request : r # q =>
              call'[r] = call[r] \/ (call[r] = "waiting" /\ call'[r] \in {"idle", "retried"})
    BY <1>1, <1>2 DEF Settle, BrowserInv, BrowserTypeOK
  <1>4. req[q].at = "idle"
    BY <1>1 DEF BrowserInv, ServerWorks
  <1>5. InFlightOwned' /\ ServerWorks' /\ Refreshing' = Refreshing \ {q}
    BY <1>1, <1>3, <1>4, OverStep
  <1>6. \/ call[q] = "issued" /\ jar' = cookie[q]
        \/ call[q] = "refused" /\ jar' = jar
    BY DEF ReceiveTokens, ReceiveRefusal
  <1>7. BrowserTypeOK'
    BY <1>1, <1>3, <1>6 DEF BrowserInv, BrowserTypeOK, ServerWorks
  <1>8. Undisturbed'
    <2> SUFFICES ASSUME ~disturbed PROVE Undisturbed'
      BY <1>1 DEF Undisturbed
    <2>1. \A r \in Refreshing : r = q
      BY <1>1 DEF BrowserInv, Undisturbed
    <2>2. \A r \in Request : req[r].at = "idle"
      BY <1>1, <1>4, <2>1 DEF BrowserInv, ServerWorks, Refreshing
    <2>3. \A r \in Request : r # q => call[r] # "issued"
      BY <2>1 DEF Refreshing
    <2>4. ~leaving /\ (jar' = None \/ token[jar'] = "live")
      BY <1>1, <1>6, <2>2, <2>3 DEF BrowserInv, Undisturbed
    <2>5. Refreshing' = {}
      BY <1>5, <2>1
    <2>6. \A r \in Request : call'[r] \notin {"refresh", "issued"}
      BY <2>5 DEF Refreshing
    <2> QED BY <1>1, <2>2, <2>4, <2>5, <2>6 DEF BrowserInv, Undisturbed
  <1> QED BY <1>5, <1>7, <1>8 DEF BrowserInv

LEMMA LoseStep ==
    ASSUME TypeOK, BrowserInv, NEW q \in Request, LoseRefresh(q)
    PROVE  BrowserInv'
  <1>1. /\ call[q] \in {"refresh", "server", "issued"} /\ q \in Refreshing
        /\ UNCHANGED <<token, req, replayed, cookie, jar, leaving>>
        /\ inFlight' = [inFlight EXCEPT ![TabOf[q]] = None]
        /\ disturbed' = (disturbed \/ call[q] # "refresh")
    BY DEF LoseRefresh, vars, tokenVars, Refreshing
  <1>2. /\ call' \in [Request -> {"idle", "sent", "waiting", "retried",
                                  "refresh", "server", "detached", "issued", "refused"}]
        /\ call'[q] = IF call[q] = "server" THEN "detached" ELSE "idle"
        /\ \A r \in Request : r # q =>
              call'[r] = call[r] \/ (call[r] = "waiting" /\ call'[r] \in {"idle", "retried"})
    BY <1>1 DEF LoseRefresh, BrowserInv, BrowserTypeOK
  <1>3. req[q].at # "idle" => call[q] = "server"
    BY <1>1 DEF BrowserInv, ServerWorks
  <1>4. disturbed' \in BOOLEAN /\ (disturbed => disturbed') /\ (call'[q] = "detached" => disturbed')
    BY <1>1, <1>2
  <1>5. InFlightOwned' /\ ServerWorks' /\ Refreshing' = Refreshing \ {q}
    BY <1>1, <1>2, <1>3, <1>4, OverStep
  <1>6. BrowserTypeOK'
    BY <1>1, <1>2, <1>4 DEF BrowserInv, BrowserTypeOK
  <1>7. Undisturbed'
    <2> SUFFICES ASSUME ~disturbed, call[q] = "refresh" PROVE Undisturbed'
      BY <1>1 DEF Undisturbed
    <2> QED BY <1>1, <1>2, <1>5 DEF BrowserInv, Undisturbed
  <1> QED BY <1>5, <1>6, <1>7 DEF BrowserInv

(* The session ends: a logout that meets no refresh, its answer, and a      *)
(* revocation that leaves the cookie in the browser.                        *)
LEMMA LogOutStep ==
    ASSUME TypeOK, BrowserInv, LogOut
    PROVE  BrowserInv'
  <1>1. UNCHANGED <<req, replayed, call, cookie, jar, inFlight>> /\ Refreshing' = Refreshing
    BY DEF LogOut, Logout, LogoutAll, vars, tokenVars, Refreshing
  <1>2. leaving' = TRUE /\ disturbed' = (disturbed \/ Refreshing # {})
    BY DEF LogOut
  <1>3. BrowserTypeOK' /\ InFlightOwned' /\ ServerWorks'
    BY <1>1, <1>2 DEF BrowserInv, BrowserTypeOK, InFlightOwned, ServerWorks
  <1>4. Undisturbed'
    <2> SUFFICES ASSUME ~disturbed, Refreshing = {} PROVE Undisturbed'
      BY <1>2 DEF Undisturbed
    <2>1. \A q \in Request : call[q] \notin {"refresh", "issued"}
      BY DEF Refreshing
    <2> QED BY <1>1, <1>2, <2>1 DEF BrowserInv, Undisturbed
  <1> QED BY <1>3, <1>4 DEF BrowserInv

LEMMA ReceiveLogoutStep ==
    ASSUME TypeOK, BrowserInv, ReceiveLogout
    PROVE  BrowserInv'
  <1>1. /\ UNCHANGED <<req, token, replayed, call, cookie, inFlight>> /\ Refreshing' = Refreshing
        /\ leaving /\ leaving' = FALSE
        /\ \/ jar' = None /\ disturbed' = disturbed
           \/ disturbed' = (disturbed \/ token[jar] # "live") /\ jar' = jar
    BY DEF ReceiveLogout, vars, tokenVars, Refreshing
  <1>2. disturbed' \in BOOLEAN
    BY Zenon, <1>1 DEF BrowserInv, BrowserTypeOK
  <1>3. disturbed => disturbed'
    BY <1>1
  <1>4. BrowserTypeOK' /\ InFlightOwned' /\ ServerWorks'
    BY <1>1, <1>2, <1>3 DEF BrowserInv, BrowserTypeOK, InFlightOwned, ServerWorks
  <1>5. Undisturbed'
    <2> SUFFICES ASSUME ~disturbed' PROVE Undisturbed'
      BY DEF Undisturbed
    <2>1. ~disturbed /\ Refreshing = {} /\ (jar' = None \/ (jar' = jar /\ token[jar] = "live"))
      BY <1>1, <1>3 DEF BrowserInv, Undisturbed
    <2>2. \A q \in Request : call[q] \notin {"refresh", "server", "issued", "refused"}
      BY <2>1 DEF Refreshing
    <2>3. \A q \in Request : req[q].at = "idle"
      BY <2>1, <2>2 DEF BrowserInv, ServerWorks
    <2> QED BY <1>1, <2>1, <2>2, <2>3 DEF BrowserInv, Undisturbed
  <1> QED BY <1>4, <1>5 DEF BrowserInv

LEMMA EndSessionsStep ==
    ASSUME BrowserInv, EndSessions
    PROVE  BrowserInv'
  <1>1. /\ UNCHANGED <<req, call, cookie, jar, inFlight, leaving>> /\ disturbed' = TRUE
        /\ Refreshing' = Refreshing
    BY DEF EndSessions, Logout, LogoutAll, Refreshing
  <1> QED BY <1>1 DEF BrowserInv, BrowserTypeOK, InFlightOwned, ServerWorks, Undisturbed

LEMMA BrowserStep == TypeOK /\ BrowserInv /\ [ClientNext]_allVars => BrowserInv'
  <1> SUFFICES ASSUME TypeOK, BrowserInv, [ClientNext]_allVars PROVE BrowserInv'
    OBVIOUS
  <1>1. CASE UNCHANGED allVars
    BY <1>1 DEF allVars, vars, tokenVars, clientVars, Refreshing,
                BrowserInv, BrowserTypeOK, InFlightOwned, ServerWorks, Undisturbed
  <1>2. ASSUME NEW q \in Request, Browser(q) PROVE BrowserInv'
    BY <1>2, CallStep, StartStep, SettleStep, LoseStep DEF Browser
  <1>3. ASSUME NEW q \in Request, Server(q) PROVE BrowserInv'
    BY <1>3, ReceiveStep, ClaimStep, RefuseStep, IssueStep, FailStep DEF Server
  <1> QED BY <1>1, <1>2, <1>3, LogOutStep, ReceiveLogoutStep, EndSessionsStep DEF ClientNext

LEMMA SessionsInit == ClientInit => IInv
  <1> SUFFICES ASSUME ClientInit PROVE IInv
    OBVIOUS
  <1>1. TypeOK
    BY BrowserInit
  <1>2. SingleUse /\ OutlivedOnlyInFlight
    BY MaxEpochAssumption DEF ClientInit, SingleUse, OutlivedOnlyInFlight, Live
  <1>3. ClaimExclusive /\ Witnessed /\ DeletedHoldsNoLive
    BY DEF ClientInit, ClaimExclusive, Witnessed, LetIn, DeletedHoldsNoLive, Idle
  <1> QED BY <1>1, <1>2, <1>3 DEF IInv, Sessions

LEMMA ClientStep == ClientInv /\ [ClientNext]_allVars => ClientInv'
  BY ClientSteps, InvStep, BrowserStep DEF ClientInv, BrowserInv, IInv

LEMMA ClientInvariance == ClientSpec => []ClientInv
  <1>1. ClientInit => ClientInv
    BY SessionsInit, BrowserInit DEF ClientInv
  <1> QED BY <1>1, ClientStep, PTL DEF ClientSpec

LEMMA ClientMeaning == ClientInv => ClientTypeOK /\ OwnReplayExplained
  <1> SUFFICES ASSUME ClientInv PROVE ClientTypeOK /\ OwnReplayExplained
    OBVIOUS
  <1>1. ClientTypeOK
    BY DEF ClientInv, IInv, BrowserInv, BrowserTypeOK, InFlightOwned, ClientTypeOK
  <1>2. OwnReplayExplained
    BY DEF ClientInv, BrowserInv, Undisturbed, OwnReplayExplained
  <1> QED BY <1>1, <1>2

(* What the browser does to its session is what AuthSession lets requests   *)
(* do, so that all that is proved of every step of the sessions holds of it:*)
(* the invariants of the sessions, with a session to begin with.            *)
THEOREM ClientKeepsSessions == ClientSpec => [][Next]_vars /\ []IInv
  BY ClientInvariance, ClientSteps, PTL DEF ClientSpec, ClientInv, BrowserInv

(* performCookieRefresh: the server takes a refresh of the browser for theft*)
(* only if requests with the cookie were in flight at once in two tabs or   *)
(* with a logout, or an answer was lost, or a session was revoked while the *)
(* browser kept its cookie; for any number of tabs and calls.               *)
THEOREM OwnReplayIsExplained == ClientSpec => []OwnReplayExplained
  BY ClientInvariance, ClientMeaning, PTL
=============================================================================
