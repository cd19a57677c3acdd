------------------------------ MODULE BlindAuth ------------------------------
(***************************************************************************)
(* Blind authentication: a wallet mints tokens under its user's access      *)
(* token, and pays one of them for each call to a protected endpoint, which *)
(* the mint holds as pending during the call.                               *)
(*                                                                         *)
(* The OpenID provider is external: it grants, refreshes and revokes        *)
(* sessions.  A call's effect stands for whatever the endpoint commits.     *)
(***************************************************************************)
EXTENDS Integers, FiniteSets

CONSTANTS
  Logins,     \* requests for tokens: a login signs one batch
  Calls,      \* requests to a protected endpoint
  Tokens,     \* all tokens: secrets are random, and never made twice
  BatchMax,   \* mint_auth_max_blind_tokens
  HitsMax,    \* mint_transaction_rate_limit_per_minute
  NoToken

VARIABLES
  access, refresh,  \* the client's access and refresh token
  savedPair,        \* the two in the wallet's database
  session,          \* what the wallet's process is doing for them
  login,            \* [Logins -> stage], login.outputs their secrets
  users,            \* the user's row: the number of it, at most one
  hits,             \* of the rate limiter, this minute
  signed,           \* tokens the mint has signed
  purse,            \* tokens in the auth wallet's database
  req,              \* [Calls -> [at, token]]
  authPending, authSpent,  \* the tables of the auth ledger
  performed,        \* history: [Tokens -> calls that took effect with it]
  unburnt,          \* history: [Tokens -> of these, those after which it was
                    \* not burnt: the endpoint raised, or the burning failed]
  refusedBurnt      \* history: tokens invalidated for a call without effect

tokenVars == <<access, refresh>>
sessionVars == <<tokenVars, savedPair, session>>
loginVars == <<login, users, hits, signed>>
tableVars == <<authPending, authSpent, performed, unburnt, refusedBurnt>>
authVars == <<sessionVars, loginVars, purse, req, tableVars>>

----------------------------------------------------------------------------
(* The wallet's session with the provider.                                  *)

SessionOnly == UNCHANGED <<loginVars, purse, req, tableVars>>
SessionGoes(next) == session' = next

\* with_db, init_auth_wallet: a wallet that starts takes the tokens from its
\* database, where they have aged
OpenWallet ==
  /\ session \in {"closed", "ready", "raised"} /\ SessionGoes("opened")
  /\ access' \in (IF savedPair[1] = "fresh" THEN {"fresh", "stale"} ELSE {savedPair[1]})
  /\ refresh' \in (IF savedPair[2] = "good" THEN {"good", "bad"} ELSE {savedPair[2]})
  /\ UNCHANGED savedPair /\ SessionOnly

\* time and the provider
SessionEnds ==
  /\ \/ access = "fresh" /\ access' = "stale" /\ UNCHANGED refresh
     \/ refresh = "good" /\ refresh' = "bad" /\ UNCHANGED access
  /\ UNCHANGED <<savedPair, session>> /\ SessionOnly

\* forced, it logs in with good tokens too
Authenticate(force) ==
  /\ session = "opened"
  /\ SessionGoes(CASE "none" \in {access, refresh} -> "login"
                   [] access = "stale" /\ refresh # "none" -> "refresh"
                   [] OTHER -> IF force THEN "login" ELSE "store")
  /\ UNCHANGED <<tokenVars, savedPair>> /\ SessionOnly

\* the two are overwritten before they are found missing
UpdateTokenData(a, r, next, incomplete) ==
  /\ access' = a /\ refresh' = r
  /\ SessionGoes(IF "none" \in {a, r} THEN incomplete ELSE next)
  /\ UNCHANGED savedPair /\ SessionOnly
\* of an answer of the provider
Answers == {<<"fresh", "good">>, <<"fresh", "none">>}

\* at the start, and before tokens are minted, where a failure is only logged
RefreshAccessToken(force) ==
  /\ session \in {"refresh", "minting"}
  /\ \/ /\ refresh = "good"
        /\ \E pair \in Answers :
             IF session = "refresh"
             THEN UpdateTokenData(pair[1], pair[2], IF force THEN "login" ELSE "store", "raised")
             ELSE UpdateTokenData(pair[1], pair[2], "store", "ready")
     \/ /\ SessionGoes(IF session = "refresh" THEN "login" ELSE "ready")
        /\ UNCHANGED <<tokenVars, savedPair>> /\ SessionOnly

\* handle_callback: a code that cannot be exchanged wipes the two, an answer
\* without one of them leaves the command waiting, as does a user who declines
LoginWithCode ==
  /\ session = "login"
  /\ \/ \E pair \in Answers : UpdateTokenData(pair[1], pair[2], "store", "login")
     \/ UpdateTokenData("none", "none", "store", "store")

\* with a user name: an HTTP error raises and keeps what there was
LoginWithPassword ==
  /\ session = "login"
  /\ \/ \E pair \in Answers : UpdateTokenData(pair[1], pair[2], "store", "raised")
     \/ SessionGoes("raised") /\ UNCHANGED <<tokenVars, savedPair>> /\ SessionOnly

StoreClearAuthToken ==
  /\ session = "store"
  /\ IF "none" \in {access, refresh}
     THEN SessionGoes("raised") /\ UNCHANGED savedPair
     ELSE SessionGoes("ready") /\ savedPair' = <<access, refresh>>
  /\ UNCHANGED tokenVars /\ SessionOnly

\* mint_blind_auth with an access token that has expired
TokenHasExpired ==
  /\ session = "ready" /\ access = "stale" /\ SessionGoes("minting")
  /\ UNCHANGED <<tokenVars, savedPair>> /\ SessionOnly

----------------------------------------------------------------------------
(* mint_blind_auth: of the wallet, then of the mint.                        *)

Made == signed \cup UNION {login[l].outputs : l \in Logins}

AskForTokens(l) ==
  /\ login[l].at = "idle" /\ session = "ready" /\ access = "fresh"
  /\ \E outputs \in SUBSET (Tokens \ Made) :
       /\ outputs # {}
       /\ login' = [login EXCEPT ![l] = [at |-> "asked", outputs |-> outputs]]
  /\ UNCHANGED <<sessionVars, users, hits, signed, purse, req, tableVars>>

LoginFails(l) == login' = [login EXCEPT ![l] = [at |-> "failed", outputs |-> {}]]

\* ClearAuthMiddleware, verify_clear_auth: the token is good, and the user read
GetUser(l) ==
  /\ login[l].at = "asked"
  /\ login' = [login EXCEPT ![l].at = IF users = 0 THEN "create" ELSE "user"]
  /\ UNCHANGED <<sessionVars, users, hits, signed, purse, req, tableVars>>

\* the row's key is unique: the second of two first logins fails
CreateUser(l) ==
  /\ login[l].at = "create"
  /\ \/ users = 0 /\ users' = 1 /\ login' = [login EXCEPT ![l].at = "user"]
     \/ users = 1 /\ LoginFails(l) /\ UNCHANGED users
  /\ UNCHANGED <<sessionVars, hits, signed, purse, req, tableVars>>

\* assert_limit, then the number of outputs, then the signatures
SignTokens(l) ==
  /\ login[l].at = "user"
  /\ \/ /\ hits < HitsMax /\ hits' = hits + 1
        /\ IF Cardinality(login[l].outputs) <= BatchMax
           THEN /\ signed' = signed \cup login[l].outputs
                /\ login' = [login EXCEPT ![l].at = "signed"]
           ELSE LoginFails(l) /\ UNCHANGED signed
     \/ hits = HitsMax /\ LoginFails(l) /\ UNCHANGED <<hits, signed>>
  /\ UNCHANGED <<sessionVars, users, purse, req, tableVars>>

\* the answer arrives and the proofs are stored, or it is lost and they are
ReceiveTokens(l) ==
  /\ login[l].at = "signed"
  /\ purse' \in {purse, purse \cup login[l].outputs}
  /\ login' = [login EXCEPT ![l] = [at |-> "done", outputs |-> {}]]
  /\ UNCHANGED <<sessionVars, users, hits, signed, req, tableVars>>

MinutePasses ==
  /\ hits > 0 /\ hits' = 0
  /\ UNCHANGED <<sessionVars, login, users, signed, purse, req, tableVars>>

----------------------------------------------------------------------------
(* A protected call.                                                        *)

At(r, stage) == req' = [req EXCEPT ![r].at = stage]

\* _request reads the proofs of the auth wallet, and takes one
PickToken(r) ==
  /\ req[r].at = "idle"
  /\ \E t \in purse : req' = [req EXCEPT ![r] = [at |-> "picked", token |-> t]]
  /\ UNCHANGED <<sessionVars, loginVars, purse, tableVars>>

\* it is deleted before the request leaves: another call may have picked it too
SendWithToken(r) ==
  /\ req[r].at = "picked" /\ At(r, "sent")
  /\ purse' = purse \ {req[r].token}
  /\ UNCHANGED <<sessionVars, loginVars, tableVars>>

\* mutant: pending tokens are not looked at
HoldTokenUnlessSpent(r) ==
  /\ req[r].at = "sent"
  /\ LET t == req[r].token
     IN IF t \in signed /\ t \notin authSpent
        THEN At(r, "held") /\ authPending' = authPending \cup {t}
        ELSE At(r, "refused") /\ UNCHANGED authPending
  /\ UNCHANGED <<sessionVars, loginVars, purse, authSpent, performed, unburnt, refusedBurnt>>

\* verify_inputs, and the transaction that finds it unspent and not pending
HoldToken(r) ==
  /\ req[r].at = "sent"
  /\ LET t == req[r].token
     IN IF t \in signed /\ t \notin authSpent \cup authPending
        THEN At(r, "held") /\ authPending' = authPending \cup {t}
        ELSE At(r, "refused") /\ UNCHANGED authPending
  /\ UNCHANGED <<sessionVars, loginVars, purse, authSpent, performed, unburnt, refusedBurnt>>

\* the endpoint takes effect; it raises, before its effect or after it; or it is
\* answered by a handler of its own: a request that does not validate, or one
\* over a rate limit
Call(r) ==
  /\ req[r].at = "held"
  /\ LET t == req[r].token
         Effect == performed' = [performed EXCEPT ![t] = @ + 1]
     IN \/ At(r, "performed") /\ Effect /\ UNCHANGED unburnt
        \/ At(r, "raised") /\ Effect /\ unburnt' = [unburnt EXCEPT ![t] = @ + 1]
        \/ (At(r, "raised") \/ At(r, "answered")) /\ UNCHANGED <<performed, unburnt>>
  /\ UNCHANGED <<sessionVars, loginVars, purse, authPending, authSpent, refusedBurnt>>

\* any answer that is not an exception burns the token, and the database may
\* refuse to
Invalidate(r) ==
  /\ req[r].at \in {"performed", "answered"} /\ At(r, "leaving")
  /\ LET t == req[r].token
     IN \/ /\ authSpent' = authSpent \cup {t}
           /\ refusedBurnt' = IF req[r].at = "answered" THEN refusedBurnt \cup {t} ELSE refusedBurnt
           /\ UNCHANGED unburnt
        \/ /\ unburnt' = [unburnt EXCEPT ![t] = IF req[r].at = "performed" THEN @ + 1 ELSE @]
           /\ UNCHANGED <<authSpent, refusedBurnt>>
  /\ UNCHANGED <<sessionVars, loginVars, purse, authPending, performed>>

\* the finally of verify_blind_auth
Release(r) ==
  /\ req[r].at \in {"raised", "leaving"} /\ At(r, "over")
  /\ authPending' = authPending \ {req[r].token}
  /\ UNCHANGED <<sessionVars, loginVars, purse, authSpent, performed, unburnt, refusedBurnt>>

\* no start of the mint looks at pending auth proofs
Restart ==
  /\ \E r \in Calls : req[r].at \notin {"idle", "refused", "over"}
  /\ req' = [r \in Calls |-> IF req[r].at \in {"idle", "picked"} THEN req[r] ELSE [req[r] EXCEPT !.at = "over"]]
  /\ login' = [l \in Logins |-> IF login[l].at \in {"asked", "create", "user", "signed"}
                                THEN [at |-> "failed", outputs |-> {}] ELSE login[l]]
  /\ hits' = 0
  /\ UNCHANGED <<sessionVars, users, signed, purse, tableVars>>

----------------------------------------------------------------------------
AuthInit ==
  /\ access = "none" /\ refresh = "none" /\ savedPair = <<"none", "none">>
  /\ session = "closed"
  /\ login = [l \in Logins |-> [at |-> "idle", outputs |-> {}]]
  /\ users = 0 /\ hits = 0 /\ signed = {} /\ purse = {}
  /\ req = [r \in Calls |-> [at |-> "idle", token |-> NoToken]]
  /\ authPending = {} /\ authSpent = {} /\ refusedBurnt = {}
  /\ performed = [t \in Tokens |-> 0] /\ unburnt = [t \in Tokens |-> 0]

AuthNext ==
  \/ OpenWallet \/ SessionEnds \/ LoginWithCode \/ LoginWithPassword
  \/ StoreClearAuthToken \/ TokenHasExpired \/ MinutePasses \/ Restart
  \/ \E force \in BOOLEAN : Authenticate(force) \/ RefreshAccessToken(force)
  \/ \E l \in Logins : AskForTokens(l) \/ GetUser(l) \/ CreateUser(l) \/ SignTokens(l) \/ ReceiveTokens(l)
  \/ \E r \in Calls : PickToken(r) \/ SendWithToken(r) \/ HoldToken(r) \/ Call(r) \/ Invalidate(r)
                      \/ Release(r)
AuthSpec == AuthInit /\ [][AuthNext]_authVars

----------------------------------------------------------------------------
(* Properties.                                                              *)

\* A token buys one call, however many requests carry it and whatever dies in
\* between, and another one only for each call after which it was not burnt,
\* because the endpoint raised after its effect or the database failed: the
\* finally of verify_blind_auth has let it go.
OneCallPerToken == \A t \in Tokens : performed[t] <= 1 + unburnt[t]

\* That it buys one effect at most does not hold: melt may raise after it has
\* paid, and the token pays for another call.
OneEffectPerToken == \A t \in Tokens : performed[t] <= 1

\* verify_blind_auth: "melts them if the wrapped call succeeds. If it fails, the
\* blind auth token is not invalidated."
FailedCallKeepsToken == refusedBurnt = {}

=============================================================================
