------------------------------- MODULE Tokens -------------------------------
(***************************************************************************)
(* Logging in and staying logged in: refresh tokens at the server          *)
(* (packages/server/src/auth) and the session of one installation of the   *)
(* plugin (refreshSession of main.ts, LoginModal).  A refresh token and    *)
(* the access token issued with it have one number.                        *)
(***************************************************************************)
EXTENDS Naturals, FiniteSets

CONSTANTS
    MaxTokens,     \* bounds: tokens ever issued
    MaxRequests,   \* requests to /auth/refresh
    MaxMishaps     \* answers lost, connections dropped, crashes

ASSUME TokensAssumption == MaxTokens \in Nat \ {0} /\ MaxRequests \in Nat /\ MaxMishaps \in Nat

Token == 1..MaxTokens
Request == 1..MaxRequests
NoToken == 0
NoRequest == 0

VARIABLES
    valid,      \* rows of tokens that are not revoked
    deviceOf,   \* the device a token was issued to, 0 before
    fresh,      \* tokens whose access token has not expired
    refreshes,  \* each request: where it is, its token, the one it is answered with
    held,       \* settings.refreshToken
    saved,      \* the same, on disk
    asking,     \* refreshInFlight: the request, or NoRequest
    conn,       \* the socket: down, ready, refused
    severed,    \* history: an answer is lost, or the plugin ended before it was saved
    mishaps

tokenVars == <<valid, deviceOf, fresh, refreshes, held, saved, asking, conn, severed, mishaps>>

Issued == {t \in Token : deviceOf[t] # 0}
NextToken == CHOOSE t \in Token \ Issued : \A u \in Token \ Issued : t <= u

\* A login makes a device and its first tokens.
NewTokens(device) ==
    /\ Issued # Token
    /\ deviceOf' = [deviceOf EXCEPT ![NextToken] = device]
    /\ fresh' = fresh \cup {NextToken}

TokensInit ==
    /\ valid = {1} /\ fresh = {1}
    /\ deviceOf = [t \in Token |-> IF t = 1 THEN 1 ELSE 0]
    /\ refreshes = [r \in Request |-> [at |-> "none", token |-> NoToken, next |-> NoToken]]
    /\ held = 1 /\ saved = 1
    /\ asking = NoRequest
    /\ conn = "down"
    /\ severed = FALSE
    /\ mishaps = 0

-----------------------------------------------------------------------------
(***************************************************************************)
(* The server.                                                             *)
(***************************************************************************)
\* rotateRefresh, its first half: the row, and the checks of AuthService.refresh.
ReadToken(r) ==
    /\ refreshes[r].at = "sent"
    /\ refreshes' = [refreshes EXCEPT ![r].at =
                       IF refreshes[r].token \in valid THEN "read" ELSE "refused"]
    /\ UNCHANGED <<valid, deviceOf, fresh, held, saved, asking, conn, severed, mishaps>>

\* Mutant of StillValid: the row that was read is taken to be valid still.
StillValidAsRead(r) == TRUE

\* WHERE ... revoked=false
StillValid(r) == refreshes[r].token \in valid

\* replaceRefreshToken
ReplaceToken(r) ==
    /\ refreshes[r].at = "read"
    /\ IF StillValid(r)
       THEN /\ NewTokens(deviceOf[refreshes[r].token])
            /\ valid' = (valid \ {refreshes[r].token}) \cup {NextToken}
            /\ refreshes' = [refreshes EXCEPT ![r].at = "answered", ![r].next = NextToken]
       ELSE /\ refreshes' = [refreshes EXCEPT ![r].at = "refused"]
            /\ UNCHANGED <<valid, deviceOf, fresh>>
    /\ UNCHANGED <<held, saved, asking, conn, severed, mishaps>>

Expire ==
    /\ fresh # {}
    /\ fresh' = {}
    /\ UNCHANGED <<valid, deviceOf, refreshes, held, saved, asking, conn, severed, mishaps>>

-----------------------------------------------------------------------------
(***************************************************************************)
(* The plugin.                                                             *)
(***************************************************************************)
\* refreshSession
Ask ==
    IF asking # NoRequest THEN UNCHANGED <<refreshes, asking>>
    ELSE \E r \in Request :
            /\ refreshes[r].at = "none"
            /\ refreshes' = [refreshes EXCEPT ![r].at = "sent", ![r].token = held]
            /\ asking' = r

\* The socket opens, hello is sent and answered; TOKEN_EXPIRED comes back as an error.
Hello ==
    /\ conn = "down"
    /\ IF held \in fresh
       THEN conn' = "ready" /\ UNCHANGED <<refreshes, asking>>
       ELSE conn' = "refused" /\ Ask
    /\ UNCHANGED <<valid, deviceOf, fresh, held, saved, severed, mishaps>>

\* The answer is in memory; it has still to be saved.
Receive(r) ==
    /\ r = asking /\ refreshes[r].at = "answered"
    /\ held' = refreshes[r].next
    /\ refreshes' = [refreshes EXCEPT ![r].at = "saving"]
    /\ UNCHANGED <<valid, deviceOf, fresh, saved, asking, conn, severed, mishaps>>

\* Mutant of SaveAndRestart: the services go on with the tokens they were made with.
SaveOnly(r) ==
    /\ r = asking /\ refreshes[r].at = "saving"
    /\ saved' = held
    /\ refreshes' = [refreshes EXCEPT ![r].at = "done"]
    /\ asking' = NoRequest
    /\ UNCHANGED <<valid, deviceOf, fresh, held, conn, severed, mishaps>>

\* saveSettingsOnly and restartSyncServices
SaveAndRestart(r) ==
    /\ r = asking /\ refreshes[r].at = "saving"
    /\ saved' = held
    /\ refreshes' = [refreshes EXCEPT ![r].at = "done"]
    /\ asking' = NoRequest
    /\ conn' = "down"
    /\ UNCHANGED <<valid, deviceOf, fresh, held, severed, mishaps>>

Refused(r) ==
    /\ r = asking /\ refreshes[r].at = "refused"
    /\ refreshes' = [refreshes EXCEPT ![r].at = "done"]
    /\ asking' = NoRequest
    /\ UNCHANGED <<valid, deviceOf, fresh, held, saved, conn, severed, mishaps>>

\* LoginModal.login: the plugin starts over with the new tokens.
Login ==
    /\ asking = NoRequest
    /\ NewTokens(Cardinality({deviceOf[t] : t \in Issued}) + 1)
    /\ valid' = valid \cup {NextToken}
    /\ held' = NextToken /\ saved' = NextToken
    /\ conn' = "down"
    /\ severed' = FALSE
    /\ UNCHANGED <<refreshes, asking, mishaps>>

\* requestUrl fails; what the server does with the request is not affected.
Lose(r) ==
    /\ mishaps < MaxMishaps
    /\ r = asking /\ refreshes[r].at \in {"sent", "read", "answered", "refused"}
    /\ asking' = NoRequest
    /\ severed' = TRUE
    /\ mishaps' = mishaps + 1
    /\ UNCHANGED <<valid, deviceOf, fresh, refreshes, held, saved, conn>>

Drop ==
    /\ mishaps < MaxMishaps /\ conn # "down"
    /\ conn' = "down"
    /\ mishaps' = mishaps + 1
    /\ UNCHANGED <<valid, deviceOf, fresh, refreshes, held, saved, asking, severed>>

CrashPlugin ==
    /\ mishaps < MaxMishaps
    /\ held' = saved
    /\ asking' = NoRequest
    /\ conn' = "down"
    /\ severed' = (severed \/ asking # NoRequest)
    /\ mishaps' = mishaps + 1
    /\ UNCHANGED <<valid, deviceOf, fresh, refreshes, saved>>

-----------------------------------------------------------------------------
Rotate(r) == ReadToken(r) \/ ReplaceToken(r)

TokensNext ==
    \/ Expire \/ Hello \/ Login \/ Drop \/ CrashPlugin
    \/ \E r \in Request : ReadToken(r) \/ ReplaceToken(r) \/ Receive(r) \/ SaveAndRestart(r)
                            \/ Refused(r) \/ Lose(r)

SessionProgress ==
    \/ Hello
    \/ \E r \in Request : Rotate(r) \/ Receive(r) \/ SaveAndRestart(r) \/ Refused(r)

TokensSpec == TokensInit /\ [][TokensNext]_tokenVars /\ WF_tokenVars(SessionProgress)
-----------------------------------------------------------------------------
(***************************************************************************)
(* Properties.                                                             *)
(***************************************************************************)
\* auth/pg-repository.ts:62: of the refresh tokens of a device one at most is valid, also
\* when a request that the plugin has given up races the next with the same token.
OneValidPerDevice == \A t, u \in valid : deviceOf[t] = deviceOf[u] => t = u

\* Unless an answer was lost, or the plugin ended between the answer and the settings on
\* disk, the plugin has a token the server takes, or its successor is coming; also after
\* a restart.
NeverLockedOut ==
    \/ severed
    \/ held \in valid
    \/ asking # NoRequest /\ refreshes[asking].next \in valid

\* A device has one token that is taken, and the plugin has it.
OneTokenHeld == OneValidPerDevice /\ NeverLockedOut

Exhausted == Issued = Token \/ \A r \in Request : refreshes[r].at # "none"

\* A session that is refused as expired is taken up again, unless an answer was lost, and
\* until the bounds are reached.
SessionResumes == (conn = "refused") ~> (conn = "ready" \/ severed \/ Exhausted)
=============================================================================
