------------------------------ MODULE SecClient ------------------------------
(***************************************************************************)
(* sec/client.py and sec/rate_limit.py: threads send requests to the SEC   *)
(* through clients; a client lets one request through at a time and no two *)
(* within its interval, and tries again what may pass.                     *)
(*                                                                         *)
(* The workers of the machine make a client each, with a limiter of its    *)
(* own: what is said of one client says nothing of the process.            *)
(***************************************************************************)
EXTENDS Integers

CONSTANTS
    Callers,      \* the threads
    Clients,
    ClientOf,     \* the client a thread was given
    SendInterval,     \* sec_min_interval_seconds, in ticks of the clock
    MaxRetries,   \* sec_max_retries
    BackoffMin, BackoffMax,
    MaxClock,     \* bound on the clock
    MaxCalls      \* bound on the calls of a thread

Nobody == "nobody"

ASSUME SecAssumption ==
    /\ ClientOf \in [Callers -> Clients]
    /\ Nobody \notin Callers
    /\ SendInterval \in Nat /\ BackoffMin \in Nat /\ BackoffMax \in Nat

VARIABLES
    clock,
    last,       \* _last of each limiter
    lock,       \* who holds the lock of each limiter
    permitted,  \* when each limiter let a request through, the last time
    tickers,    \* whether a client has its ticker map
    caller      \* where each thread is

secVars == <<clock, last, lock, permitted, tickers, caller>>

Resting == [at |-> "rest", calls |-> 0, attempt |-> 0, due |-> 0, wants |-> "data", result |-> "none"]

SecInit ==
    /\ clock = SendInterval
    /\ last = [c \in Clients |-> 0]
    /\ lock = [c \in Clients |-> Nobody]
    /\ permitted = [c \in Clients |-> 0]
    /\ tickers = [c \in Clients |-> FALSE]
    /\ caller = [t \in Callers |-> Resting]

SecTick ==
    /\ clock < MaxClock
    /\ clock' = clock + 1
    /\ UNCHANGED <<last, lock, permitted, tickers, caller>>

\* A caller asks for submissions, or for a ticker of a map not yet loaded.
Call(t) ==
    /\ caller[t].at = "rest"
    /\ caller[t].calls < MaxCalls
    /\ \E wants \in {"data", "tickers"} :
          /\ wants = "tickers" => ~tickers[ClientOf[t]]
          /\ caller' = [caller EXCEPT ![t].at = "limit", ![t].calls = @ + 1, ![t].attempt = 1, ![t].wants = wants]
    /\ UNCHANGED <<clock, last, lock, permitted, tickers>>

\* Mutant of TakeTurn: the lock is given back before the sleep.
TakeTurnUnlocked(t) ==
    LET c == ClientOf[t] IN
    /\ caller[t].at = "limit"
    /\ caller' = [caller EXCEPT ![t].at = "sleep", ![t].due = last[c] + SendInterval]
    /\ UNCHANGED <<clock, last, lock, permitted, tickers>>

\* The lock is held while its holder sleeps.
TakeTurn(t) ==
    LET c == ClientOf[t] IN
    /\ caller[t].at = "limit"
    /\ lock[c] = Nobody
    /\ lock' = [lock EXCEPT ![c] = t]
    /\ caller' = [caller EXCEPT ![t].at = "sleep", ![t].due = last[c] + SendInterval]
    /\ UNCHANGED <<clock, last, permitted, tickers>>

\* A sleep lasts as long as asked for or longer.
Permit(t) ==
    LET c == ClientOf[t] IN
    /\ caller[t].at = "sleep"
    /\ clock >= caller[t].due
    /\ last' = [last EXCEPT ![c] = clock]
    /\ lock' = [lock EXCEPT ![c] = Nobody]
    /\ permitted' = [permitted EXCEPT ![c] = clock]
    /\ caller' = [caller EXCEPT ![t].at = "send"]
    /\ UNCHANGED <<clock, tickers>>

Attempts == IF MaxRetries > 1 THEN MaxRetries ELSE 1

Backoff(attempt) ==
    LET delay == BackoffMin * 2 ^ (attempt - 1)
    IN IF delay > BackoffMax THEN BackoffMax ELSE delay

\* 408, 429 and the 5xx that may pass, and failures of the transport.
AnswerRetryable(t) ==
    /\ caller[t].at = "send"
    /\ IF caller[t].attempt < Attempts
       THEN caller' = [caller EXCEPT ![t].at = "backoff", ![t].due = clock + Backoff(caller[t].attempt)]
       ELSE caller' = [caller EXCEPT ![t].at = "rest", ![t].result = "retryable error"]
    /\ UNCHANGED <<clock, last, lock, permitted, tickers>>

BackOff(t) ==
    /\ caller[t].at = "backoff"
    /\ clock >= caller[t].due
    /\ caller' = [caller EXCEPT ![t].at = "limit", ![t].attempt = @ + 1]
    /\ UNCHANGED <<clock, last, lock, permitted, tickers>>

\* Another status of 400 or more, no JSON, not an object, or a map without a row.
AnswerUseless(t) ==
    /\ caller[t].at = "send"
    /\ caller' = [caller EXCEPT ![t].at = "rest", ![t].result = "error"]
    /\ UNCHANGED <<clock, last, lock, permitted, tickers>>

AnswerUsable(t) ==
    /\ caller[t].at = "send"
    /\ caller' = [caller EXCEPT ![t].at = "rest", ![t].result = "ok"]
    /\ tickers' = IF caller[t].wants = "tickers" THEN [tickers EXCEPT ![ClientOf[t]] = TRUE] ELSE tickers
    /\ UNCHANGED <<clock, last, lock, permitted>>

SecNext ==
    \/ SecTick
    \/ \E t \in Callers :
          \/ Call(t) \/ TakeTurn(t) \/ Permit(t) \/ BackOff(t)
          \/ AnswerRetryable(t) \/ AnswerUseless(t) \/ AnswerUsable(t)

SecSpec == SecInit /\ [][SecNext]_secVars

-----------------------------------------------------------------------------
\* A client lets two requests through at least an interval apart, whichever
\* threads share it and however they overlap, and retries are no exception.
RequestsSpaced ==
    [][\A t \in Callers :
          caller[t].at = "sleep" /\ caller'[t].at = "send" =>
              clock - permitted[ClientOf[t]] >= SendInterval]_secVars

=============================================================================
