---------------------------- MODULE TokenManager ----------------------------
(***************************************************************************)
(* The bearer token of a connection (src/backend-api/oauth-pkce.ts and the *)
(* three auth.ts): one token manager shared by every call, refreshed once  *)
(* for all who need it, with refresh tokens a service may replace.  Refresh *)
(* tokens are numbered in the order the service issued them.               *)
(***************************************************************************)
EXTENDS Naturals

CONSTANTS Caller, None

ASSUME NobodyAssumption == None \notin Caller

VARIABLES
    access,          \* the access token: "fresh", "stale" by our clock, or "refused"
    refreshToken,    \* the refresh token the manager would send
    refreshPromise,  \* the call whose refresh the others join, or None
    authFailed,      \* the cooldown after a refused refresh
    exchange,        \* per call: the refresh it started and is waiting for
    secret,          \* the refresh token in the secret store
    issued,          \* the newest one the service issued
    learned,         \* the newest one an answer brought here
    unstored         \* the secret store refused one

token == <<access, refreshToken, refreshPromise, authFailed, exchange, secret,
           issued, learned, unstored>>

NoExchange == [phase |-> "none", brought |-> 0]

(* A manager built from the secrets, its access token perhaps old.          *)
TokenInit ==
    /\ access \in {"fresh", "stale"}
    /\ refreshToken = 1 /\ secret = 1 /\ issued = 1 /\ learned = 1
    /\ refreshPromise = None
    /\ authFailed = FALSE
    /\ exchange = [t \in Caller |-> NoExchange]
    /\ unstored = FALSE

(* What getAccessToken does for a caller, in the order it looks.            *)
CoolingDown == authFailed
Reusable(force) == ~CoolingDown /\ ~force /\ access # "stale"
NeedsRefresh(force) == ~CoolingDown /\ ~Reusable(force)

(* Mutant: each caller refreshes for itself.                                *)
JoinsNever == FALSE

JoinsRefresh == refreshPromise # None

StartRefresh(t) ==
    /\ refreshPromise' = t
    /\ exchange' = [exchange EXCEPT ![t] = [phase |-> "asked", brought |-> 0]]
    /\ UNCHANGED <<access, refreshToken, authFailed, secret, issued, learned, unstored>>

GetAccessToken(t, force) ==
    /\ NeedsRefresh(force)
    /\ IF JoinsRefresh THEN UNCHANGED token ELSE StartRefresh(t)

EndExchange(t) ==
    /\ exchange' = [exchange EXCEPT ![t] = NoExchange]
    /\ refreshPromise' = None

(* The answer keeps the refresh token: the access token is installed.       *)
Granted(t) ==
    /\ exchange[t].phase = "asked"
    /\ access' = "fresh" /\ authFailed' = FALSE
    /\ EndExchange(t)
    /\ UNCHANGED <<refreshToken, secret, issued, learned, unstored>>

(* The answer replaces it: it is handed to the secret store first.          *)
Rotated(t) ==
    /\ exchange[t].phase = "asked"
    /\ issued' = issued + 1 /\ learned' = issued + 1
    /\ exchange' = [exchange EXCEPT ![t] = [phase |-> "storing", brought |-> issued + 1]]
    /\ UNCHANGED <<access, refreshToken, refreshPromise, authFailed, secret, unstored>>

(* storeTokenResponse goes on once the store has it.                        *)
Stored(t) ==
    /\ exchange[t].phase = "storing"
    /\ secret' = exchange[t].brought
    /\ refreshToken' = exchange[t].brought
    /\ access' = "fresh" /\ authFailed' = FALSE
    /\ EndExchange(t)
    /\ UNCHANGED <<issued, learned, unstored>>

StoreFails(t) ==
    /\ exchange[t].phase = "storing"
    /\ unstored' = TRUE
    /\ EndExchange(t)
    /\ UNCHANGED <<access, refreshToken, authFailed, secret, issued, learned>>

(* The service refuses a refresh token it replaced, or one it revoked.      *)
HandleRefreshError(t) ==
    /\ exchange[t].phase = "asked"
    /\ authFailed' = TRUE
    /\ EndExchange(t)
    /\ UNCHANGED <<access, refreshToken, secret, issued, learned, unstored>>

(* No answer: the service may have replaced the token all the same.         *)
RefreshLost(t) ==
    /\ exchange[t].phase = "asked"
    /\ issued' \in {issued, issued + 1}
    /\ EndExchange(t)
    /\ UNCHANGED <<access, refreshToken, authFailed, secret, learned, unstored>>

(* Time passes, or the service withdraws the access token early.            *)
AccessEnds ==
    /\ access = "fresh"
    /\ access' \in {"stale", "refused"}
    /\ UNCHANGED <<refreshToken, refreshPromise, authFailed, exchange, secret,
                   issued, learned, unstored>>

-----------------------------------------------------------------------------
(* A refresh token a service replaced is worthless: whatever calls overlap, *)
(* the manager never works with one that the secret store does not have     *)
(* yet, and whenever no refresh is under way it holds and has stored the    *)
(* newest it was given, unless the store refused it (oauth-pkce.ts,         *)
(* storeTokenResponse and getAccessToken).                                  *)
RotatedTokenIsKept ==
    /\ refreshToken <= secret
    /\ (\A t \in Caller : exchange[t].phase = "none") /\ ~unstored =>
          refreshToken = learned /\ secret = learned
=============================================================================
