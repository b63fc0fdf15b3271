------------------------------- MODULE Limits -------------------------------
(***************************************************************************)
(* The limiters of packages/server/src/ws/rate-limit.ts for one key: the   *)
(* fixed window for messages, and the one for logins, which AuthService    *)
(* asks before it verifies a password and tells the outcome afterwards.    *)
(***************************************************************************)
EXTENDS Integers, Functions

CONSTANTS
    MaxInWindow, MaxFailures,         \* max, maxFailures
    Window, LoginWindow, LoginLockout, \* in ticks
    MaxLogins,                        \* bounds: logins at once, the clock
    MaxClock

ASSUME LimitsAssumption ==
    /\ {MaxInWindow, MaxFailures, Window, LoginWindow, LoginLockout} \subseteq Nat \ {0}
    /\ {MaxLogins, MaxClock} \subseteq Nat

VARIABLES
    clock,
    bucket,       \* start and count of the window, or NoBucket
    admitted,     \* history: how many messages have passed at each tick
    retryAt,      \* history: when the sender that was refused first is to come back
    logins,       \* the login record, or NoLogins
    verifying,    \* logins whose password is being verified
    failed        \* history: how many have failed at each tick since one succeeded

limitVars == <<clock, bucket, admitted, retryAt, logins, verifying, failed>>

NoBucket == [startedAt |-> 0 - Window, count |-> 0]
NoLogins == [startedAt |-> 0 - LoginWindow, failures |-> 0, lockedUntil |-> 0]

LimitsInit ==
    /\ clock = 0
    /\ bucket = NoBucket
    /\ admitted = [t \in 0..MaxClock |-> 0]
    /\ retryAt = 0
    /\ logins = NoLogins
    /\ verifying = 0
    /\ failed = [t \in 0..MaxClock |-> 0]

Tick ==
    /\ clock < MaxClock
    /\ clock' = clock + 1
    /\ UNCHANGED <<bucket, admitted, retryAt, logins, verifying, failed>>

\* Mutant of Current: a message that is refused begins a window of its own.
CurrentSliding ==
    IF clock - bucket.startedAt >= Window THEN [startedAt |-> clock, count |-> 0]
    ELSE IF bucket.count >= MaxInWindow THEN [bucket EXCEPT !.startedAt = clock]
    ELSE bucket

Current ==
    IF clock - bucket.startedAt >= Window THEN [startedAt |-> clock, count |-> 0] ELSE bucket

\* consume
Message ==
    LET state == [Current EXCEPT !.count = Current.count + 1]
        allowed == state.count <= MaxInWindow
    IN  /\ state.count <= MaxInWindow + 2    \* bound
        /\ bucket' = state
        /\ admitted' = [admitted EXCEPT ![clock] = @ + (IF allowed THEN 1 ELSE 0)]
        /\ retryAt' = IF allowed \/ retryAt > clock THEN retryAt ELSE state.startedAt + Window
        /\ UNCHANGED <<clock, logins, verifying, failed>>

\* check: a locked key is refused, an old record dropped.
LoginAllowed == logins.lockedUntil <= clock

AskLogin ==
    /\ verifying < MaxLogins
    /\ IF LoginAllowed
       THEN /\ verifying' = verifying + 1
            /\ logins' = IF clock - logins.startedAt >= LoginWindow THEN NoLogins ELSE logins
       ELSE UNCHANGED <<verifying, logins>>
    /\ UNCHANGED <<clock, bucket, admitted, retryAt, failed>>

\* Mutant of Record: the failures of the last window are kept.
RecordKeeping ==
    IF clock - logins.startedAt >= LoginWindow THEN [logins EXCEPT !.startedAt = clock]
    ELSE logins

Record ==
    IF clock - logins.startedAt >= LoginWindow
    THEN [startedAt |-> clock, failures |-> 0, lockedUntil |-> 0] ELSE logins

\* recordFailure
LoginFails ==
    /\ verifying > 0
    /\ verifying' = verifying - 1
    /\ Record.failures < MaxFailures + MaxLogins    \* bound
    /\ logins' = [Record EXCEPT
                    !.failures = @ + 1,
                    !.lockedUntil = IF Record.failures + 1 >= MaxFailures
                                    THEN clock + LoginLockout ELSE @]
    /\ failed' = [failed EXCEPT ![clock] = @ + 1]
    /\ UNCHANGED <<clock, bucket, admitted, retryAt>>

\* recordSuccess
LoginSucceeds ==
    /\ verifying > 0
    /\ verifying' = verifying - 1
    /\ logins' = NoLogins
    /\ failed' = [t \in 0..MaxClock |-> 0]
    /\ UNCHANGED <<clock, bucket, admitted, retryAt>>

MessagesNext == Tick \/ Message

LoginsNext == Tick \/ AskLogin \/ LoginFails \/ LoginSucceeds

LimitsNext == MessagesNext \/ LoginsNext

LimitsSpec == LimitsInit /\ [][LimitsNext]_limitVars
-----------------------------------------------------------------------------
(***************************************************************************)
(* Properties.                                                             *)
(***************************************************************************)
Within(counts, t, length) ==
    FoldFunctionOnSet(LAMBDA a, b : a + b, 0, counts, {u \in t..(t + length - 1) : u <= MaxClock})

\* retryAfterMs is enough: who waits as long as told is not refused, unless others have
\* used up the window that has begun since.
WaitingIsEnough ==
    (clock >= retryAt /\ bucket.startedAt < retryAt) => Current.count < MaxInWindow

\* Two windows' worth of messages at most pass in any stretch of a window's length.
BurstIsBounded ==
    \A t \in 0..MaxClock : Within(admitted, t, Window) <= 2 * MaxInWindow

\* The window refuses neither too much nor too little.
WindowIsKept == WaitingIsEnough /\ BurstIsBounded

\* A key is locked only if as many logins as that have failed in one window, and none has
\* succeeded since; also when some were being verified while others failed.
LockedForCause ==
    ~LoginAllowed => \E t \in 0..MaxClock : Within(failed, t, LoginWindow) >= MaxFailures
=============================================================================
