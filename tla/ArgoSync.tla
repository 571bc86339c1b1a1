-------------------------------- MODULE ArgoSync --------------------------------
(***************************************************************************)
(* The Argo CD client of the webserver (internal/webserver/argosync): the  *)
(* requests of all connections share one session token, which a mutex      *)
(* protects and the first request after the threshold renews.              *)
(*                                                                         *)
(* A token is the time at which Argo CD issued it.  Abstracted: the        *)
(* clients and connections that are built around each call; the unit of    *)
(* time, a few hours.  Bound: MaxTime.                                     *)
(***************************************************************************)
EXTENDS Naturals

CONSTANTS Callers,      \* goroutines of sync requests
          Threshold,    \* tokenRefreshThresholdSeconds
          Validity,     \* how long Argo CD accepts a token
          MaxTime,      \* bound on the clock
          NoCaller      \* not a caller

ASSUME CallerAssumption == NoCaller \notin Callers
ASSUME TimeAssumption ==
  /\ Threshold \in Nat \ {0} /\ Validity \in Nat /\ MaxTime \in Nat
  /\ 2 * Threshold <= Validity     \* 12 and 24 hours
  /\ Threshold < MaxTime

VARIABLES
  clock,                 \* time.Now().Unix()
  argocdAuthToken,       \* 0 before the first session
  lastTokenRefreshTime,
  mutex,                 \* who holds s.mutex
  caller,                \* caller[c]: where its call of Sync is
  now,                   \* now[c]: the clock as it read it in getAuthToken
  authToken              \* authToken[c]: the token it calls Argo CD with

ArgoVars == <<clock, argocdAuthToken, lastTokenRefreshTime, mutex, caller, now, authToken>>

Times == 0 .. MaxTime

ArgoTypeOK ==
  /\ clock \in Threshold .. MaxTime
  /\ argocdAuthToken \in 0 .. clock
  /\ lastTokenRefreshTime \in 0 .. argocdAuthToken
  /\ mutex \in Callers \cup {NoCaller}
  /\ caller \in [Callers -> {"idle", "lock", "session", "sync"}]
  /\ \A c \in Callers : caller[c] = "session" <=> mutex = c
  /\ now \in [Callers -> 0 .. clock]
  /\ authToken \in [Callers -> 0 .. clock]

\* The clock is far beyond the threshold when the process starts.
ArgoInit ==
  /\ clock = Threshold
  /\ argocdAuthToken = 0
  /\ lastTokenRefreshTime = 0
  /\ mutex = NoCaller
  /\ caller = [c \in Callers |-> "idle"]
  /\ now = [c \in Callers |-> 0]
  /\ authToken = [c \in Callers |-> 0]

Tick ==
  /\ clock < MaxTime
  /\ clock' = clock + 1
  /\ UNCHANGED <<argocdAuthToken, lastTokenRefreshTime, mutex, caller, now, authToken>>

CallSync(c) ==
  /\ caller[c] = "idle"
  /\ caller' = [caller EXCEPT ![c] = "lock"]
  /\ UNCHANGED <<clock, argocdAuthToken, lastTokenRefreshTime, mutex, now, authToken>>

\* The mutex is not taken.
GetAuthToken_unlocked(c) ==
  /\ caller[c] = "lock"
  /\ now' = [now EXCEPT ![c] = clock]
  /\ IF clock < lastTokenRefreshTime + Threshold
       THEN /\ caller' = [caller EXCEPT ![c] = "sync"]
            /\ authToken' = [authToken EXCEPT ![c] = argocdAuthToken]
       ELSE caller' = [caller EXCEPT ![c] = "session"] /\ UNCHANGED authToken
  /\ UNCHANGED <<clock, argocdAuthToken, lastTokenRefreshTime, mutex>>

\* With the mutex taken, the cached token is used (and the mutex released), or
\* the caller keeps the mutex and asks Argo CD for a session.
GetAuthToken(c) ==
  /\ caller[c] = "lock" /\ mutex = NoCaller
  /\ now' = [now EXCEPT ![c] = clock]
  /\ \/ /\ clock < lastTokenRefreshTime + Threshold
        /\ caller' = [caller EXCEPT ![c] = "sync"]
        /\ authToken' = [authToken EXCEPT ![c] = argocdAuthToken]
        /\ UNCHANGED mutex
     \/ /\ clock >= lastTokenRefreshTime + Threshold
        /\ caller' = [caller EXCEPT ![c] = "session"]
        /\ mutex' = c
        /\ UNCHANGED authToken
  /\ UNCHANGED <<clock, argocdAuthToken, lastTokenRefreshTime>>

\* The answer: a token issued during the request, kept with the time read before it.
SessionCreated(c) ==
  /\ caller[c] = "session"
  /\ argocdAuthToken' \in now[c] .. clock
  /\ lastTokenRefreshTime' = now[c]
  /\ authToken' = [authToken EXCEPT ![c] = argocdAuthToken']
  /\ mutex' = NoCaller
  /\ caller' = [caller EXCEPT ![c] = "sync"]
  /\ UNCHANGED <<clock, now>>

\* The time of the refresh is kept although it failed.
SessionFails_touch(c) ==
  /\ caller[c] = "session"
  /\ lastTokenRefreshTime' = now[c]
  /\ mutex' = NoCaller
  /\ caller' = [caller EXCEPT ![c] = "idle"]
  /\ UNCHANGED <<clock, argocdAuthToken, now, authToken>>

\* The error path does not release the mutex.
SessionFails_keepMutex(c) ==
  /\ caller[c] = "session"
  /\ caller' = [caller EXCEPT ![c] = "idle"]
  /\ UNCHANGED <<clock, argocdAuthToken, lastTokenRefreshTime, mutex, now, authToken>>

\* The session cannot be created: Sync returns the error, and what is cached stays.
SessionFails(c) ==
  /\ caller[c] = "session"
  /\ mutex' = NoCaller
  /\ caller' = [caller EXCEPT ![c] = "idle"]
  /\ UNCHANGED <<clock, argocdAuthToken, lastTokenRefreshTime, now, authToken>>

\* appClient.Sync, whatever its answer.
SyncApp(c) ==
  /\ caller[c] = "sync"
  /\ caller' = [caller EXCEPT ![c] = "idle"]
  /\ authToken' = [authToken EXCEPT ![c] = 0]
  /\ UNCHANGED <<clock, argocdAuthToken, lastTokenRefreshTime, mutex, now>>

Answers(c) == SessionCreated(c) \/ SessionFails(c) \/ SyncApp(c)

ArgoNext ==
  \/ Tick
  \/ \E c \in Callers : CallSync(c) \/ GetAuthToken(c) \/ Answers(c)

\* sync.Mutex does not starve a waiter, and a call of Argo CD returns, with an
\* answer or an error.
ArgoFairness ==
  \A c \in Callers : SF_ArgoVars(GetAuthToken(c)) /\ WF_ArgoVars(Answers(c))

ArgoSpec == ArgoInit /\ [][ArgoNext]_ArgoVars
ArgoFairSpec == ArgoSpec /\ ArgoFairness

--------------------------------------------------------------------------------
(* Properties.                                                                *)

\* A cached token is handed out only if it was issued less than the threshold ago,
\* so that it has at least as long to live: "Add a refresh threshold to ensure it is
\* refreshed before expiry" (argosync.go:21).  A new one was issued after the
\* request for it began.  Both through refreshes that fail or take long.
TokenFresh ==
  [][\A c \in Callers :
       caller[c] # "sync" /\ caller'[c] = "sync" =>
         /\ authToken'[c] > 0
         /\ IF caller[c] = "session"
              THEN authToken'[c] >= now[c]
              ELSE /\ clock - authToken'[c] < Threshold
                   /\ authToken'[c] + Validity > clock + Threshold]_ArgoVars

\* Argo CD is asked for one session per threshold, however many callers find the
\* token old at the same time: the second one behind the mutex reads the new one
\* (argosync.go:116-122).
SessionsApart ==
  [][lastTokenRefreshTime' # lastTokenRefreshTime =>
       lastTokenRefreshTime' >= lastTokenRefreshTime + Threshold]_ArgoVars

\* Every request is answered: no path of getAuthToken keeps the mutex
\* (argosync.go:117).
SyncReturns ==
  \A c \in Callers : caller[c] # "idle" ~> caller[c] = "idle"
================================================================================
