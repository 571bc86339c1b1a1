----------------------------- MODULE ArgoSync_proofs -----------------------------
(***************************************************************************)
(* Proofs about ArgoSync, for any callers, thresholds, validity and time.  *)
(***************************************************************************)
EXTENDS ArgoSync, TLAPS

\* Besides the types: who waits for a session found the token old, by the time it
\* read, and nobody has refreshed it since.
SessionInv == \A c \in Callers : caller[c] = "session" => now[c] >= lastTokenRefreshTime + Threshold

ArgoInv == ArgoTypeOK /\ SessionInv

\* A new process (argosync.go:42) satisfies the invariant.
LEMMA ArgoInitInv == ArgoInit => ArgoInv
  BY CallerAssumption, TimeAssumption, SMT DEF ArgoInit, ArgoInv, ArgoTypeOK, SessionInv

\* Every step keeps it: only the holder of the mutex is in a session, so that no
\* other caller's refresh can make the time it has read too early (argosync.go:116).
LEMMA ArgoInvStep == ArgoInv /\ [ArgoNext]_ArgoVars => ArgoInv'
<1> SUFFICES ASSUME ArgoInv, [ArgoNext]_ArgoVars PROVE ArgoInv'
  OBVIOUS
<1> USE CallerAssumption, TimeAssumption
<1>1. CASE Tick
  BY <1>1, SMT DEF Tick, ArgoInv, ArgoTypeOK, SessionInv
<1>2. ASSUME NEW c \in Callers, CallSync(c) PROVE ArgoInv'
  BY <1>2, SMT DEF CallSync, ArgoInv, ArgoTypeOK, SessionInv
<1>3. ASSUME NEW c \in Callers, GetAuthToken(c) PROVE ArgoInv'
  BY <1>3, SMT DEF GetAuthToken, ArgoInv, ArgoTypeOK, SessionInv
<1>4. ASSUME NEW c \in Callers, SessionCreated(c) PROVE ArgoInv'
  BY <1>4, SMT DEF SessionCreated, ArgoInv, ArgoTypeOK, SessionInv
<1>5. ASSUME NEW c \in Callers, SessionFails(c) PROVE ArgoInv'
  BY <1>5, SMT DEF SessionFails, ArgoInv, ArgoTypeOK, SessionInv
<1>6. ASSUME NEW c \in Callers, SyncApp(c) PROVE ArgoInv'
  BY <1>6, SMT DEF SyncApp, ArgoInv, ArgoTypeOK, SessionInv
<1>7. CASE UNCHANGED ArgoVars
  BY <1>7, SMT DEF ArgoVars, ArgoInv, ArgoTypeOK, SessionInv
<1>8. QED
  BY <1>1, <1>2, <1>3, <1>4, <1>5, <1>6, <1>7 DEF ArgoNext, Answers

LEMMA ArgoInvariant == ArgoSpec => []ArgoInv
  BY ArgoInitInv, ArgoInvStep, PTL DEF ArgoSpec

\* The times, the mutex and the callers of Argo CD's token cache are what they are
\* declared to be; one caller at most is in a session, the one with the mutex.
THEOREM ArgoTypeCorrect == ArgoSpec => []ArgoTypeOK
<1>1. ArgoInv => ArgoTypeOK
  BY DEF ArgoInv
<1>2. QED
  BY <1>1, ArgoInvariant, PTL

\* The guarantee of one step of one caller: what getAuthToken returns is fresh
\* (argosync.go:119-121, 148-150).
HandedFresh(c) ==
  caller[c] # "sync" /\ caller'[c] = "sync" =>
    /\ authToken'[c] > 0
    /\ IF caller[c] = "session"
         THEN authToken'[c] >= now[c]
         ELSE /\ clock - authToken'[c] < Threshold
              /\ authToken'[c] + Validity > clock + Threshold

LEMMA StepHandsFresh ==
  ASSUME ArgoInv, [ArgoNext]_ArgoVars, NEW c \in Callers
  PROVE  HandedFresh(c)
<1> USE CallerAssumption, TimeAssumption
<1>1. CASE Tick
  BY <1>1, SMT DEF Tick, ArgoInv, ArgoTypeOK, HandedFresh
<1>2. ASSUME NEW d \in Callers, CallSync(d) PROVE HandedFresh(c)
  BY <1>2, SMT DEF CallSync, ArgoInv, ArgoTypeOK, HandedFresh
<1>3. ASSUME NEW d \in Callers, GetAuthToken(d) PROVE HandedFresh(c)
  BY <1>3, SMT DEF GetAuthToken, ArgoInv, ArgoTypeOK, HandedFresh
<1>4. ASSUME NEW d \in Callers, SessionCreated(d) PROVE HandedFresh(c)
  <2>1. now[d] \in Nat /\ clock \in Nat /\ argocdAuthToken' \in Nat /\ argocdAuthToken' >= now[d]
    BY <1>4, SMT DEF SessionCreated, ArgoInv, ArgoTypeOK
  <2>2. now[d] >= Threshold
    BY <1>4, <2>1, SMT DEF SessionCreated, ArgoInv, ArgoTypeOK, SessionInv
  <2>3. CASE c = d
    BY <1>4, <2>1, <2>2, <2>3, SMT DEF SessionCreated, ArgoInv, ArgoTypeOK, HandedFresh
  <2>4. CASE c # d
    BY <1>4, <2>4, SMT DEF SessionCreated, ArgoInv, ArgoTypeOK, HandedFresh
  <2>5. QED
    BY <2>3, <2>4
<1>5. ASSUME NEW d \in Callers, SessionFails(d) \/ SyncApp(d) PROVE HandedFresh(c)
  BY <1>5, SMT DEF SessionFails, SyncApp, ArgoInv, ArgoTypeOK, HandedFresh
<1>6. CASE UNCHANGED ArgoVars
  BY <1>6, SMT DEF ArgoVars, HandedFresh
<1>7. QED
  BY <1>1, <1>2, <1>3, <1>4, <1>5, <1>6 DEF ArgoNext, Answers

\* No caller is handed a cached token that is past the threshold, whatever
\* refreshes failed before and however long they took (argosync.go:119).
THEOREM TokenFreshTheorem == ArgoSpec => TokenFresh
<1>1. ArgoInv /\ [ArgoNext]_ArgoVars => \A c \in Callers : HandedFresh(c)
  BY StepHandsFresh
<1>2. QED
  BY <1>1, ArgoInvariant, PTL DEF ArgoSpec, TokenFresh, HandedFresh

\* Two refreshes are at least a threshold apart, however many callers find the
\* token old together (argosync.go:116-122).
THEOREM SessionsApartTheorem == ArgoSpec => SessionsApart
<1>1. ArgoInv /\ [ArgoNext]_ArgoVars =>
        (lastTokenRefreshTime' # lastTokenRefreshTime =>
           lastTokenRefreshTime' >= lastTokenRefreshTime + Threshold)
  <2> SUFFICES ASSUME ArgoInv, [ArgoNext]_ArgoVars,
                      lastTokenRefreshTime' # lastTokenRefreshTime
               PROVE  lastTokenRefreshTime' >= lastTokenRefreshTime + Threshold
    OBVIOUS
  <2>1. PICK c \in Callers : SessionCreated(c)
    BY DEF ArgoNext, ArgoVars, Answers, Tick, CallSync, GetAuthToken, SessionFails, SyncApp
  <2>2. QED
    BY <2>1 DEF SessionCreated, ArgoInv, SessionInv
<1>2. QED
  BY <1>1, ArgoInvariant, PTL DEF ArgoSpec, SessionsApart
================================================================================
