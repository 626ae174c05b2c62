------------------------ MODULE TokenProviderProofs ------------------------
EXTENDS TokenProvider, TLAPS

\* A rotation replaces one refresh token by the next number: still positive numbers.
LEMMA RotatedTokens ==
  ASSUME NEW L \in SUBSET (Nat \ {0}), NEW n \in Nat, NEW rt
  PROVE  (L \ {rt}) \cup {n + 1} \in SUBSET (Nat \ {0})
<1>1. n + 1 \in Nat \ {0}
  OBVIOUS
<1>2. \A x \in (L \ {rt}) \cup {n + 1} : x \in Nat \ {0}
  BY <1>1
<1>3. QED
  BY <1>2, Zenon

\* Every step of a thread or of the environment keeps TypeOK.
LEMMA TypingStep == TypeOK /\ [Next]_vars => TypeOK'
<1> SUFFICES ASSUME TypeOK, [Next]_vars PROVE TypeOK'
  OBVIOUS
<1> USE ProcOfAssumption, BoundsAssumption
    DEF TypeOK, Points, Minting, Critical, FaultKinds, Goto, Leave, Fault, Grant, Me,
        Sessions, NoSession, procVars, threadVars, diskVars, verysVars, faultVars
<1>1. ASSUME NEW t \in Threads, CallToken(t) PROVE TypeOK'
  BY <1>1 DEF CallToken
<1>2. ASSUME NEW t \in Threads, CallInvalidate(t) PROVE TypeOK'
  BY <1>2 DEF CallInvalidate
<1>3. ASSUME NEW t \in Threads, TokenCached(t) PROVE TypeOK'
  BY <1>3 DEF TokenCached
<1>4. ASSUME NEW t \in Threads, TokenStale(t) PROVE TypeOK'
  BY <1>4 DEF TokenStale
<1>5. ASSUME NEW t \in Threads, Invalidate(t) PROVE TypeOK'
  BY <1>5 DEF Invalidate
<1>6. ASSUME NEW t \in Threads, OpenLockFile(t) PROVE TypeOK'
  BY <1>6 DEF OpenLockFile
<1>7. ASSUME NEW t \in Threads, TakeFlock(t) PROVE TypeOK'
  BY <1>7 DEF TakeFlock
<1>8. ASSUME NEW t \in Threads, Finish(t) PROVE TypeOK'
  BY <1>8 DEF Finish
<1>9. ASSUME NEW t \in Threads, LoadMissing(t) PROVE TypeOK'
  BY <1>9 DEF LoadMissing
<1>10. ASSUME NEW t \in Threads, LoadSession(t) PROVE TypeOK'
  BY <1>10 DEF LoadSession
<1>11. ASSUME NEW t \in Threads, RefreshRotates(t) PROVE TypeOK'
  <2>1. live' \in SUBSET (Nat \ {0}) /\ issued' \in Nat \ {0}
    <3>1. live' = (live \ {mem[Me(t)].rt}) \cup {issued + 1} /\ issued' = issued + 1
      BY <1>11 DEF RefreshRotates
    <3>2. live \in SUBSET (Nat \ {0}) /\ issued \in Nat
      OBVIOUS
    <3>3. (live \ {mem[Me(t)].rt}) \cup {issued + 1} \in SUBSET (Nat \ {0})
      BY <3>2, RotatedTokens
    <3> QED
      BY <3>1, <3>3
  <2>2. accepted' \in SUBSET (Nat \ {0}) /\ young' \in SUBSET (Nat \ {0})
    BY <1>11 DEF RefreshRotates
  <2> QED
    BY <1>11, <2>1, <2>2 DEF RefreshRotates
<1>12. ASSUME NEW t \in Threads, RefreshKeeps(t) PROVE TypeOK'
  BY <1>12 DEF RefreshKeeps
<1>13. ASSUME NEW t \in Threads, RefreshRefused(t) PROVE TypeOK'
  BY <1>13 DEF RefreshRefused
<1>14. ASSUME NEW t \in Threads, RefreshLost(t) PROVE TypeOK'
  <2>1. live' \in SUBSET (Nat \ {0}) /\ issued' \in Nat \ {0}
    <3>1. live' = (live \ {mem[Me(t)].rt}) \cup {issued + 1} /\ issued' = issued + 1
      BY <1>14 DEF RefreshLost
    <3>2. live \in SUBSET (Nat \ {0}) /\ issued \in Nat
      OBVIOUS
    <3>3. (live \ {mem[Me(t)].rt}) \cup {issued + 1} \in SUBSET (Nat \ {0})
      BY <3>2, RotatedTokens
    <3> QED
      BY <3>1, <3>3
  <2>2. accepted' \in SUBSET (Nat \ {0}) /\ young' \in SUBSET (Nat \ {0})
    BY <1>14 DEF RefreshLost
  <2> QED
    BY <1>14, <2>1, <2>2 DEF RefreshLost
<1>15. ASSUME NEW t \in Threads, ReauthorizeExpired(t) PROVE TypeOK'
  BY <1>15 DEF ReauthorizeExpired
<1>16. ASSUME NEW t \in Threads, Reauthorize(t) PROVE TypeOK'
  BY <1>16 DEF Reauthorize
<1>17. ASSUME NEW t \in Threads, GrantCode(t) PROVE TypeOK'
  BY <1>17 DEF GrantCode
<1>18. ASSUME NEW t \in Threads, GrantLost(t) PROVE TypeOK'
  BY <1>18 DEF GrantLost
<1>19. ASSUME NEW t \in Threads, GrantWithoutRefresh(t) PROVE TypeOK'
  BY <1>19 DEF GrantWithoutRefresh
<1>20. ASSUME NEW t \in Threads, StoreRefresh(t) PROVE TypeOK'
  BY <1>20 DEF StoreRefresh
<1>21. ASSUME NEW t \in Threads, StoreFails(t) PROVE TypeOK'
  BY <1>21 DEF StoreFails
<1>22. ASSUME NEW t \in Threads, Exchange(t) PROVE TypeOK'
  BY <1>22 DEF Exchange
<1>23. ASSUME NEW t \in Threads, ExchangeRetry(t) PROVE TypeOK'
  BY <1>23 DEF ExchangeRetry
<1>24. ASSUME NEW t \in Threads, ExchangeRefused(t) PROVE TypeOK'
  BY <1>24 DEF ExchangeRefused
<1>25. ASSUME NEW t \in Threads, RequestFails(t) PROVE TypeOK'
  BY <1>25 DEF RequestFails
<1>26. ASSUME NEW p \in Procs, BearerAges(p) PROVE TypeOK'
  BY <1>26 DEF BearerAges
<1>27. ASSUME NEW p \in Procs, Crash(p) PROVE TypeOK'
  <2>1. /\ pc' \in [Threads -> Points] /\ fd' \in [Threads -> Nat]
        /\ holding' \in [Threads -> BOOLEAN] /\ subject' \in [Threads -> Nat]
        /\ retried' \in [Threads -> BOOLEAN]
        /\ outcome' \in [Threads -> {"none", "ok", "expired", "error"}]
    BY <1>27 DEF Crash
  <2>2. \A t \in Threads : pc'[t] = "store" => subject'[t] # 0
    BY <1>27 DEF Crash
  <2>3. /\ lock' \in [Procs -> Threads \cup {Nobody}] /\ token' \in [Procs -> {"none", "fresh", "aging"}]
        /\ access' \in [Procs -> Nat] /\ mem' \in [Procs -> Sessions \cup {NoSession}]
    BY <1>27 DEF Crash
  <2>4. calls' \in 0..MaxCalls /\ faults' \in 0..MaxFaults /\ happened' \in SUBSET FaultKinds
    BY <1>27 DEF Crash
  <2>5. UNCHANGED <<diskVars, verysVars>>
    BY <1>27 DEF Crash
  <2> QED
    BY <2>1, <2>2, <2>3, <2>4, <2>5
<1>28. ASSUME NEW a \in 1..issued, AccessAges(a) PROVE TypeOK'
  BY <1>28 DEF AccessAges
<1>29. ASSUME NEW a \in 1..issued, AccessRevoked(a) PROVE TypeOK'
  BY <1>29 DEF AccessRevoked
<1>30. CASE SpaSignout
  BY <1>30 DEF SpaSignout
<1>31. CASE CookiesDie
  BY <1>31 DEF CookiesDie
<1>32. CASE Rest \/ UNCHANGED vars
  BY <1>32 DEF Rest, vars
<1>. QED
  BY <1>1, <1>2, <1>3, <1>4, <1>5, <1>6, <1>7, <1>8, <1>9, <1>10, <1>11, <1>12, <1>13, <1>14, <1>15, <1>16, <1>17, <1>18, <1>19, <1>20, <1>21, <1>22, <1>23, <1>24, <1>25, <1>26, <1>27, <1>28, <1>29, <1>30, <1>31, <1>32 DEF Next, ThreadStep, StepWithoutSave, Environment

\* Every behaviour keeps the variables in their types, a session that is stored
\* included: what _store_refresh writes always has a refresh token.
THEOREM Typing == Spec => []TypeOK
<1>1. Init => TypeOK
  BY ProcOfAssumption, NobodyAssumption, BoundsAssumption
     DEF Init, TypeOK, NoSession, Sessions, Points
<1>2. TypeOK /\ [Next]_vars => TypeOK'
  BY TypingStep
<1>3. QED
  BY <1>1, <1>2, PTL DEF Spec

----------------------------------------------------------------------------
(* The steps that do not touch a lock, and what they leave alone.          *)

\* The steps of a mint between taking the flock and Finish.
MintStep(t) ==
  \/ LoadMissing(t) \/ LoadSession(t)
  \/ RefreshRotates(t) \/ RefreshKeeps(t) \/ RefreshRefused(t) \/ RefreshLost(t)
  \/ ReauthorizeExpired(t) \/ Reauthorize(t)
  \/ GrantCode(t) \/ GrantLost(t) \/ GrantWithoutRefresh(t)
  \/ StoreRefresh(t) \/ StoreFails(t)
  \/ Exchange(t) \/ ExchangeRetry(t) \/ ExchangeRefused(t)
  \/ RequestFails(t)

\* Thread t moves from one point of its mint to another, under the locks it has.
StaysCritical(t) ==
  /\ pc[t] \in Critical
  /\ \E point \in Critical : pc' = [pc EXCEPT ![t] = point]
  /\ UNCHANGED <<lock, token, fd, holding, lockIno>>

\* A step made under both locks leaves the locks and the cached bearer alone and
\* stays inside the critical section.
LEMMA MintStepStaysCritical ==
  ASSUME TypeOK, NEW t \in Threads, MintStep(t)
  PROVE  StaysCritical(t)
<1> USE DEF StaysCritical, Critical, Goto, Leave, procVars, diskVars
<1>1. CASE LoadMissing(t)
  BY <1>1 DEF LoadMissing
<1>2. CASE LoadSession(t)
  BY <1>2 DEF LoadSession
<1>3. CASE RefreshRotates(t)
  BY <1>3 DEF RefreshRotates
<1>4. CASE RefreshKeeps(t)
  BY <1>4 DEF RefreshKeeps
<1>5. CASE RefreshRefused(t)
  BY <1>5 DEF RefreshRefused
<1>6. CASE RefreshLost(t)
  BY <1>6 DEF RefreshLost
<1>7. CASE ReauthorizeExpired(t)
  BY <1>7 DEF ReauthorizeExpired
<1>8. CASE Reauthorize(t)
  BY <1>8 DEF Reauthorize
<1>9. CASE GrantCode(t)
  BY <1>9 DEF GrantCode
<1>10. CASE GrantLost(t)
  BY <1>10 DEF GrantLost
<1>11. CASE GrantWithoutRefresh(t)
  BY <1>11 DEF GrantWithoutRefresh
<1>12. CASE StoreRefresh(t)
  BY <1>12 DEF StoreRefresh
<1>13. CASE StoreFails(t)
  BY <1>13 DEF StoreFails
<1>14. CASE Exchange(t)
  BY <1>14 DEF Exchange
<1>15. CASE ExchangeRetry(t)
  BY <1>15 DEF ExchangeRetry
<1>16. CASE ExchangeRefused(t)
  BY <1>16 DEF ExchangeRefused
<1>17. CASE RequestFails(t)
  BY <1>17 DEF RequestFails
<1> QED
  BY <1>1, <1>2, <1>3, <1>4, <1>5, <1>6, <1>7, <1>8, <1>9, <1>10, <1>11, <1>12, <1>13, <1>14, <1>15, <1>16, <1>17 DEF MintStep

\* Time, Verys and the rest state: no thread moves, no lock changes hands.
Ambient ==
  \/ \E p \in Procs : BearerAges(p)
  \/ \E a \in 1..issued : AccessAges(a) \/ AccessRevoked(a)
  \/ SpaSignout \/ CookiesDie \/ Rest
  \/ UNCHANGED vars

\* Steps of Verys and of the clock touch no thread, no file and no process.
LEMMA AmbientLeavesThreads ==
  ASSUME Ambient
  PROVE  UNCHANGED <<threadVars, lock, mem, diskVars>>
BY DEF Ambient, BearerAges, AccessAges, AccessRevoked, SpaSignout, CookiesDie, Rest,
       vars, procVars, threadVars, diskVars

\* Every step is one of the following.
LEMMA StepKinds ==
  ASSUME [Next]_vars
  PROVE  \/ \E t \in Threads :
               \/ CallToken(t) \/ CallInvalidate(t)
               \/ TokenCached(t) \/ TokenStale(t) \/ Invalidate(t)
               \/ OpenLockFile(t) \/ TakeFlock(t) \/ Finish(t)
               \/ MintStep(t)
         \/ \E p \in Procs : Crash(p)
         \/ Ambient
BY DEF Next, ThreadStep, StepWithoutSave, Environment, MintStep, Ambient

----------------------------------------------------------------------------
(* The two locks.                                                          *)

Locked == LockOwned /\ FlockHeld /\ FlockExclusive

\* Every step keeps both locks exclusive: whoever is in the critical section holds its
\* process's lock and the flock on the one inode ever created at session.lock.
LEMMA LockedStep == TypeOK /\ Locked /\ [Next]_vars => Locked'
<1> SUFFICES ASSUME TypeOK, Locked, [Next]_vars PROVE Locked'
  OBVIOUS
<1> USE ProcOfAssumption, NobodyAssumption
    DEF TypeOK, Locked, LockOwned, FlockHeld, FlockExclusive, FlockFree, Points, Minting, Critical, Goto, Me, procVars, threadVars, diskVars
<1>1. LockOwned'
  <2>1. ASSUME NEW t \in Threads, CallToken(t) PROVE LockOwned'
    BY <2>1 DEF CallToken
  <2>2. ASSUME NEW t \in Threads, CallInvalidate(t) PROVE LockOwned'
    BY <2>2 DEF CallInvalidate
  <2>3. ASSUME NEW t \in Threads, TokenCached(t) PROVE LockOwned'
    BY <2>3 DEF TokenCached
  <2>4. ASSUME NEW t \in Threads, TokenStale(t) PROVE LockOwned'
    BY <2>4 DEF TokenStale
  <2>5. ASSUME NEW t \in Threads, Invalidate(t) PROVE LockOwned'
    BY <2>5 DEF Invalidate
  <2>6. ASSUME NEW t \in Threads, OpenLockFile(t) PROVE LockOwned'
    BY <2>6 DEF OpenLockFile
  <2>7. ASSUME NEW t \in Threads, TakeFlock(t) PROVE LockOwned'
    BY <2>7 DEF TakeFlock
  <2>8. ASSUME NEW t \in Threads, Finish(t) PROVE LockOwned'
    BY <2>8 DEF Finish
  <2>9. ASSUME NEW t \in Threads, MintStep(t) PROVE LockOwned'
    BY <2>9, MintStepStaysCritical DEF StaysCritical
  <2>10. ASSUME NEW p \in Procs, Crash(p) PROVE LockOwned'
    BY <2>10 DEF Crash
  <2>11. CASE Ambient
    BY <2>11, AmbientLeavesThreads
  <2> QED
    BY <2>1, <2>2, <2>3, <2>4, <2>5, <2>6, <2>7, <2>8, <2>9, <2>10, <2>11, StepKinds
<1>2. FlockHeld'
  <2>1. ASSUME NEW t \in Threads, CallToken(t) PROVE FlockHeld'
    BY <2>1 DEF CallToken
  <2>2. ASSUME NEW t \in Threads, CallInvalidate(t) PROVE FlockHeld'
    BY <2>2 DEF CallInvalidate
  <2>3. ASSUME NEW t \in Threads, TokenCached(t) PROVE FlockHeld'
    BY <2>3 DEF TokenCached
  <2>4. ASSUME NEW t \in Threads, TokenStale(t) PROVE FlockHeld'
    BY <2>4 DEF TokenStale
  <2>5. ASSUME NEW t \in Threads, Invalidate(t) PROVE FlockHeld'
    BY <2>5 DEF Invalidate
  <2>6. ASSUME NEW t \in Threads, OpenLockFile(t) PROVE FlockHeld'
    BY <2>6 DEF OpenLockFile
  <2>7. ASSUME NEW t \in Threads, TakeFlock(t) PROVE FlockHeld'
    BY <2>7 DEF TakeFlock
  <2>8. ASSUME NEW t \in Threads, Finish(t) PROVE FlockHeld'
    BY <2>8 DEF Finish
  <2>9. ASSUME NEW t \in Threads, MintStep(t) PROVE FlockHeld'
    BY <2>9, MintStepStaysCritical DEF StaysCritical
  <2>10. ASSUME NEW p \in Procs, Crash(p) PROVE FlockHeld'
    BY <2>10 DEF Crash
  <2>11. CASE Ambient
    BY <2>11, AmbientLeavesThreads
  <2> QED
    BY <2>1, <2>2, <2>3, <2>4, <2>5, <2>6, <2>7, <2>8, <2>9, <2>10, <2>11, StepKinds
<1>3. FlockExclusive'
  <2>1. ASSUME NEW t \in Threads, CallToken(t) PROVE FlockExclusive'
    BY <2>1 DEF CallToken
  <2>2. ASSUME NEW t \in Threads, CallInvalidate(t) PROVE FlockExclusive'
    BY <2>2 DEF CallInvalidate
  <2>3. ASSUME NEW t \in Threads, TokenCached(t) PROVE FlockExclusive'
    BY <2>3 DEF TokenCached
  <2>4. ASSUME NEW t \in Threads, TokenStale(t) PROVE FlockExclusive'
    BY <2>4 DEF TokenStale
  <2>5. ASSUME NEW t \in Threads, Invalidate(t) PROVE FlockExclusive'
    BY <2>5 DEF Invalidate
  <2>6. ASSUME NEW t \in Threads, OpenLockFile(t) PROVE FlockExclusive'
    BY <2>6 DEF OpenLockFile
  <2>7. ASSUME NEW t \in Threads, TakeFlock(t) PROVE FlockExclusive'
    BY <2>7 DEF TakeFlock
  <2>8. ASSUME NEW t \in Threads, Finish(t) PROVE FlockExclusive'
    BY <2>8 DEF Finish
  <2>9. ASSUME NEW t \in Threads, MintStep(t) PROVE FlockExclusive'
    BY <2>9, MintStepStaysCritical DEF StaysCritical
  <2>10. ASSUME NEW p \in Procs, Crash(p) PROVE FlockExclusive'
    BY <2>10 DEF Crash
  <2>11. CASE Ambient
    BY <2>11, AmbientLeavesThreads
  <2> QED
    BY <2>1, <2>2, <2>3, <2>4, <2>5, <2>6, <2>7, <2>8, <2>9, <2>10, <2>11, StepKinds
<1> QED
  BY <1>1, <1>2, <1>3

\* Only one mint at a time holds the flock, over all threads of all processes:
\* the lock file is created once and every mint locks that inode.
THEOREM FlockExcludes == Spec => []FlockExclusive
<1>1. Init => Locked
  BY NobodyAssumption, ProcOfAssumption
     DEF Init, Locked, LockOwned, FlockHeld, FlockExclusive, Minting, Critical, Me
<1>2. TypeOK /\ Locked /\ [Next]_vars => Locked'
  BY LockedStep
<1>3. QED
  BY <1>1, <1>2, Typing, PTL DEF Spec, Locked

----------------------------------------------------------------------------
(* What the mint knows between its steps.                                  *)

\* The steps of thread t outside the calls to Verys: they change no session, no
\* credential and no fault, and put t at a point where it knows nothing yet.
Outside(t) ==
  /\ pc[t] \notin Critical \ {"finish"}
  /\ \E point \in (Points \ Critical) \cup {"load"} : pc' = [pc EXCEPT ![t] = point]
  /\ \A u \in Threads \ {t} : subject'[u] = subject[u] /\ outcome'[u] = outcome[u]
  /\ UNCHANGED <<mem, file, verysVars, faultVars>>

\* Steps outside the critical section (calls, waiting, opening the lock file, leaving)
\* touch neither the session, on disk or in memory, nor Verys.
LEMMA OutsideSteps ==
  ASSUME TypeOK, NEW t \in Threads,
         \/ CallToken(t) \/ CallInvalidate(t) \/ TokenCached(t) \/ TokenStale(t)
         \/ Invalidate(t) \/ OpenLockFile(t) \/ TakeFlock(t) \/ Finish(t)
  PROVE  Outside(t)
<1> USE DEF TypeOK, Outside, Points, Minting, Critical, Goto, procVars, diskVars, verysVars, faultVars
<1>1. CASE CallToken(t)
  BY <1>1 DEF CallToken
<1>2. CASE CallInvalidate(t)
  BY <1>2 DEF CallInvalidate
<1>3. CASE TokenCached(t)
  BY <1>3 DEF TokenCached
<1>4. CASE TokenStale(t)
  BY <1>4 DEF TokenStale
<1>5. CASE Invalidate(t)
  BY <1>5 DEF Invalidate
<1>6. CASE OpenLockFile(t)
  BY <1>6 DEF OpenLockFile
<1>7. CASE TakeFlock(t)
  BY <1>7 DEF TakeFlock
<1>8. CASE Finish(t)
  BY <1>8 DEF Finish
<1> QED
  BY <1>1, <1>2, <1>3, <1>4, <1>5, <1>6, <1>7, <1>8

\* The numbers of refresh tokens: the one on disk is among those issued, and the
\* one about to be stored is newer; once it was replaced or refused, it is dead.
Chain ==
  /\ file.rt <= issued
  /\ \A t \in Threads :
       /\ pc[t] = "store" => file.rt < subject[t] /\ subject[t] <= issued
       /\ pc[t] \in {"reauth", "grant", "store"} => file.rt \notin live

\* What a thread is about to store is live, unless an SPA sign-out killed it.
Pending ==
  \A t \in Threads : pc[t] = "store" /\ "signout" \notin happened => subject[t] \in live

\* No step makes a thread that is about to call Verys hold another session than the
\* file's: nobody writes the file while it holds the flock.
LEMMA PresentsCurrentStep ==
  ASSUME TypeOK, Locked, PresentsCurrent, [Next]_vars
  PROVE  PresentsCurrent'
<1> USE ProcOfAssumption
    DEF TypeOK, Locked, LockOwned, FlockExclusive, Points, Minting, Critical, Goto, Leave, Fault,
        Grant, Me, PresentsCurrent, NoSession,
        procVars, threadVars, diskVars, verysVars, faultVars
<1>1. ASSUME NEW t \in Threads, Outside(t) PROVE PresentsCurrent'
  BY <1>1 DEF Outside
<1>2. ASSUME NEW t \in Threads, LoadMissing(t) PROVE PresentsCurrent'
  BY <1>2 DEF LoadMissing
<1>3. ASSUME NEW t \in Threads, LoadSession(t) PROVE PresentsCurrent'
  BY <1>3 DEF LoadSession
<1>4. ASSUME NEW t \in Threads, RefreshRotates(t) PROVE PresentsCurrent'
  BY <1>4 DEF RefreshRotates
<1>5. ASSUME NEW t \in Threads, RefreshKeeps(t) PROVE PresentsCurrent'
  BY <1>5 DEF RefreshKeeps
<1>6. ASSUME NEW t \in Threads, RefreshRefused(t) PROVE PresentsCurrent'
  BY <1>6 DEF RefreshRefused
<1>7. ASSUME NEW t \in Threads, RefreshLost(t) PROVE PresentsCurrent'
  BY <1>7 DEF RefreshLost
<1>8. ASSUME NEW t \in Threads, ReauthorizeExpired(t) PROVE PresentsCurrent'
  BY <1>8 DEF ReauthorizeExpired
<1>9. ASSUME NEW t \in Threads, Reauthorize(t) PROVE PresentsCurrent'
  BY <1>9 DEF Reauthorize
<1>10. ASSUME NEW t \in Threads, GrantCode(t) PROVE PresentsCurrent'
  BY <1>10 DEF GrantCode
<1>11. ASSUME NEW t \in Threads, GrantLost(t) PROVE PresentsCurrent'
  BY <1>11 DEF GrantLost
<1>12. ASSUME NEW t \in Threads, GrantWithoutRefresh(t) PROVE PresentsCurrent'
  BY <1>12 DEF GrantWithoutRefresh
<1>13. ASSUME NEW t \in Threads, StoreRefresh(t) PROVE PresentsCurrent'
  BY <1>13 DEF StoreRefresh
<1>14. ASSUME NEW t \in Threads, StoreFails(t) PROVE PresentsCurrent'
  BY <1>14 DEF StoreFails
<1>15. ASSUME NEW t \in Threads, Exchange(t) PROVE PresentsCurrent'
  BY <1>15 DEF Exchange
<1>16. ASSUME NEW t \in Threads, ExchangeRetry(t) PROVE PresentsCurrent'
  BY <1>16 DEF ExchangeRetry
<1>17. ASSUME NEW t \in Threads, ExchangeRefused(t) PROVE PresentsCurrent'
  BY <1>17 DEF ExchangeRefused
<1>18. ASSUME NEW t \in Threads, RequestFails(t) PROVE PresentsCurrent'
  BY <1>18 DEF RequestFails
<1>19. ASSUME NEW p \in Procs, Crash(p) PROVE PresentsCurrent'
  BY <1>19 DEF Crash
<1>20. CASE Ambient
  <2>1. ASSUME NEW p \in Procs, BearerAges(p) PROVE PresentsCurrent'
    BY <2>1 DEF BearerAges
  <2>2. ASSUME NEW a \in 1..issued, AccessAges(a) PROVE PresentsCurrent'
    BY <2>2 DEF AccessAges
  <2>3. ASSUME NEW a \in 1..issued, AccessRevoked(a) PROVE PresentsCurrent'
    BY <2>3 DEF AccessRevoked
  <2>4. CASE SpaSignout
    BY <2>4 DEF SpaSignout
  <2>5. CASE CookiesDie
    BY <2>5 DEF CookiesDie
  <2>6. CASE Rest \/ UNCHANGED vars
    BY <2>6 DEF Rest, vars
  <2> QED
    BY <1>20, <2>1, <2>2, <2>3, <2>4, <2>5, <2>6 DEF Ambient
<1> QED
  BY <1>1, <1>2, <1>3, <1>4, <1>5, <1>6, <1>7, <1>8, <1>9, <1>10, <1>11, <1>12, <1>13, <1>14, <1>15, <1>16, <1>17, <1>18, <1>19, <1>20, OutsideSteps, StepKinds DEF MintStep

\* Every step keeps the chain of refresh tokens: what is stored, held or pending was
\* issued, and only the newest can be live.
LEMMA ChainStep ==
  ASSUME TypeOK, Locked, PresentsCurrent, Chain, [Next]_vars
  PROVE  Chain'
<1> USE ProcOfAssumption
    DEF TypeOK, Locked, LockOwned, FlockExclusive, Points, Minting, Critical, Goto, Leave, Fault,
        Grant, Me, PresentsCurrent, Chain, NoSession, Sessions,
        procVars, threadVars, diskVars, verysVars, faultVars
<1>1. ASSUME NEW t \in Threads, Outside(t) PROVE Chain'
  BY <1>1 DEF Outside
<1>2. ASSUME NEW t \in Threads, LoadMissing(t) PROVE Chain'
  BY <1>2 DEF LoadMissing
<1>3. ASSUME NEW t \in Threads, LoadSession(t) PROVE Chain'
  BY <1>3 DEF LoadSession
<1>4. ASSUME NEW t \in Threads, RefreshRotates(t) PROVE Chain'
  BY <1>4 DEF RefreshRotates
<1>5. ASSUME NEW t \in Threads, RefreshKeeps(t) PROVE Chain'
  BY <1>5 DEF RefreshKeeps
<1>6. ASSUME NEW t \in Threads, RefreshRefused(t) PROVE Chain'
  BY <1>6 DEF RefreshRefused
<1>7. ASSUME NEW t \in Threads, RefreshLost(t) PROVE Chain'
  BY <1>7 DEF RefreshLost
<1>8. ASSUME NEW t \in Threads, ReauthorizeExpired(t) PROVE Chain'
  BY <1>8 DEF ReauthorizeExpired
<1>9. ASSUME NEW t \in Threads, Reauthorize(t) PROVE Chain'
  BY <1>9 DEF Reauthorize
<1>10. ASSUME NEW t \in Threads, GrantCode(t) PROVE Chain'
  BY <1>10 DEF GrantCode
<1>11. ASSUME NEW t \in Threads, GrantLost(t) PROVE Chain'
  BY <1>11 DEF GrantLost
<1>12. ASSUME NEW t \in Threads, GrantWithoutRefresh(t) PROVE Chain'
  BY <1>12 DEF GrantWithoutRefresh
<1>13. ASSUME NEW t \in Threads, StoreRefresh(t) PROVE Chain'
  BY <1>13 DEF StoreRefresh
<1>14. ASSUME NEW t \in Threads, StoreFails(t) PROVE Chain'
  BY <1>14 DEF StoreFails
<1>15. ASSUME NEW t \in Threads, Exchange(t) PROVE Chain'
  BY <1>15 DEF Exchange
<1>16. ASSUME NEW t \in Threads, ExchangeRetry(t) PROVE Chain'
  BY <1>16 DEF ExchangeRetry
<1>17. ASSUME NEW t \in Threads, ExchangeRefused(t) PROVE Chain'
  BY <1>17 DEF ExchangeRefused
<1>18. ASSUME NEW t \in Threads, RequestFails(t) PROVE Chain'
  BY <1>18 DEF RequestFails
<1>19. ASSUME NEW p \in Procs, Crash(p) PROVE Chain'
  BY <1>19 DEF Crash
<1>20. CASE Ambient
  <2>1. ASSUME NEW p \in Procs, BearerAges(p) PROVE Chain'
    BY <2>1 DEF BearerAges
  <2>2. ASSUME NEW a \in 1..issued, AccessAges(a) PROVE Chain'
    BY <2>2 DEF AccessAges
  <2>3. ASSUME NEW a \in 1..issued, AccessRevoked(a) PROVE Chain'
    BY <2>3 DEF AccessRevoked
  <2>4. CASE SpaSignout
    BY <2>4 DEF SpaSignout
  <2>5. CASE CookiesDie
    BY <2>5 DEF CookiesDie
  <2>6. CASE Rest \/ UNCHANGED vars
    BY <2>6 DEF Rest, vars
  <2> QED
    BY <1>20, <2>1, <2>2, <2>3, <2>4, <2>5, <2>6 DEF Ambient
<1> QED
  BY <1>1, <1>2, <1>3, <1>4, <1>5, <1>6, <1>7, <1>8, <1>9, <1>10, <1>11, <1>12, <1>13, <1>14, <1>15, <1>16, <1>17, <1>18, <1>19, <1>20, OutsideSteps, StepKinds DEF MintStep

\* Every step keeps a refresh token that is about to be stored live.
LEMMA PendingStep ==
  ASSUME TypeOK, Locked, PresentsCurrent, Pending, [Next]_vars
  PROVE  Pending'
<1> USE ProcOfAssumption
    DEF TypeOK, Locked, LockOwned, FlockExclusive, Points, Minting, Critical, Goto, Leave, Fault,
        Grant, Me, PresentsCurrent, Pending, NoSession, Sessions,
        procVars, threadVars, diskVars, verysVars, faultVars
<1>1. ASSUME NEW t \in Threads, Outside(t) PROVE Pending'
  BY <1>1 DEF Outside
<1>2. ASSUME NEW t \in Threads, LoadMissing(t) PROVE Pending'
  BY <1>2 DEF LoadMissing
<1>3. ASSUME NEW t \in Threads, LoadSession(t) PROVE Pending'
  BY <1>3 DEF LoadSession
<1>4. ASSUME NEW t \in Threads, RefreshRotates(t) PROVE Pending'
  BY <1>4 DEF RefreshRotates
<1>5. ASSUME NEW t \in Threads, RefreshKeeps(t) PROVE Pending'
  BY <1>5 DEF RefreshKeeps
<1>6. ASSUME NEW t \in Threads, RefreshRefused(t) PROVE Pending'
  BY <1>6 DEF RefreshRefused
<1>7. ASSUME NEW t \in Threads, RefreshLost(t) PROVE Pending'
  BY <1>7 DEF RefreshLost
<1>8. ASSUME NEW t \in Threads, ReauthorizeExpired(t) PROVE Pending'
  BY <1>8 DEF ReauthorizeExpired
<1>9. ASSUME NEW t \in Threads, Reauthorize(t) PROVE Pending'
  BY <1>9 DEF Reauthorize
<1>10. ASSUME NEW t \in Threads, GrantCode(t) PROVE Pending'
  BY <1>10 DEF GrantCode
<1>11. ASSUME NEW t \in Threads, GrantLost(t) PROVE Pending'
  BY <1>11 DEF GrantLost
<1>12. ASSUME NEW t \in Threads, GrantWithoutRefresh(t) PROVE Pending'
  BY <1>12 DEF GrantWithoutRefresh
<1>13. ASSUME NEW t \in Threads, StoreRefresh(t) PROVE Pending'
  BY <1>13 DEF StoreRefresh
<1>14. ASSUME NEW t \in Threads, StoreFails(t) PROVE Pending'
  BY <1>14 DEF StoreFails
<1>15. ASSUME NEW t \in Threads, Exchange(t) PROVE Pending'
  BY <1>15 DEF Exchange
<1>16. ASSUME NEW t \in Threads, ExchangeRetry(t) PROVE Pending'
  BY <1>16 DEF ExchangeRetry
<1>17. ASSUME NEW t \in Threads, ExchangeRefused(t) PROVE Pending'
  BY <1>17 DEF ExchangeRefused
<1>18. ASSUME NEW t \in Threads, RequestFails(t) PROVE Pending'
  BY <1>18 DEF RequestFails
<1>19. ASSUME NEW p \in Procs, Crash(p) PROVE Pending'
  BY <1>19 DEF Crash
<1>20. CASE Ambient
  <2>1. ASSUME NEW p \in Procs, BearerAges(p) PROVE Pending'
    BY <2>1 DEF BearerAges
  <2>2. ASSUME NEW a \in 1..issued, AccessAges(a) PROVE Pending'
    BY <2>2 DEF AccessAges
  <2>3. ASSUME NEW a \in 1..issued, AccessRevoked(a) PROVE Pending'
    BY <2>3 DEF AccessRevoked
  <2>4. CASE SpaSignout
    BY <2>4 DEF SpaSignout
  <2>5. CASE CookiesDie
    BY <2>5 DEF CookiesDie
  <2>6. CASE Rest \/ UNCHANGED vars
    BY <2>6 DEF Rest, vars
  <2> QED
    BY <1>20, <2>1, <2>2, <2>3, <2>4, <2>5, <2>6 DEF Ambient
<1> QED
  BY <1>1, <1>2, <1>3, <1>4, <1>5, <1>6, <1>7, <1>8, <1>9, <1>10, <1>11, <1>12, <1>13, <1>14, <1>15, <1>16, <1>17, <1>18, <1>19, <1>20, OutsideSteps, StepKinds DEF MintStep

\* Every step keeps the file's refresh token live, unless a fault that may kill it
\* has happened or its replacement is about to be stored.
LEMMA CredentialHeldStep ==
  ASSUME TypeOK, Locked, PresentsCurrent, Pending, CredentialHeld, [Next]_vars
  PROVE  CredentialHeld'
<1> USE ProcOfAssumption
    DEF TypeOK, Locked, LockOwned, FlockExclusive, Points, Minting, Critical, Goto, Leave, Fault,
        Grant, Me, PresentsCurrent, Pending, CredentialHeld, NoSession,
        procVars, threadVars, diskVars, verysVars, faultVars
<1>1. ASSUME NEW t \in Threads, Outside(t) PROVE CredentialHeld'
  BY <1>1 DEF Outside
<1>2. ASSUME NEW t \in Threads, LoadMissing(t) PROVE CredentialHeld'
  BY <1>2 DEF LoadMissing
<1>3. ASSUME NEW t \in Threads, LoadSession(t) PROVE CredentialHeld'
  BY <1>3 DEF LoadSession
<1>4. ASSUME NEW t \in Threads, RefreshRotates(t) PROVE CredentialHeld'
  BY <1>4 DEF RefreshRotates
<1>5. ASSUME NEW t \in Threads, RefreshKeeps(t) PROVE CredentialHeld'
  BY <1>5 DEF RefreshKeeps
<1>6. ASSUME NEW t \in Threads, RefreshRefused(t) PROVE CredentialHeld'
  BY <1>6 DEF RefreshRefused
<1>7. ASSUME NEW t \in Threads, RefreshLost(t) PROVE CredentialHeld'
  BY <1>7 DEF RefreshLost
<1>8. ASSUME NEW t \in Threads, ReauthorizeExpired(t) PROVE CredentialHeld'
  BY <1>8 DEF ReauthorizeExpired
<1>9. ASSUME NEW t \in Threads, Reauthorize(t) PROVE CredentialHeld'
  BY <1>9 DEF Reauthorize
<1>10. ASSUME NEW t \in Threads, GrantCode(t) PROVE CredentialHeld'
  BY <1>10 DEF GrantCode
<1>11. ASSUME NEW t \in Threads, GrantLost(t) PROVE CredentialHeld'
  BY <1>11 DEF GrantLost
<1>12. ASSUME NEW t \in Threads, GrantWithoutRefresh(t) PROVE CredentialHeld'
  BY <1>12 DEF GrantWithoutRefresh
<1>13. ASSUME NEW t \in Threads, StoreRefresh(t) PROVE CredentialHeld'
  BY <1>13 DEF StoreRefresh
<1>14. ASSUME NEW t \in Threads, StoreFails(t) PROVE CredentialHeld'
  BY <1>14 DEF StoreFails
<1>15. ASSUME NEW t \in Threads, Exchange(t) PROVE CredentialHeld'
  BY <1>15 DEF Exchange
<1>16. ASSUME NEW t \in Threads, ExchangeRetry(t) PROVE CredentialHeld'
  BY <1>16 DEF ExchangeRetry
<1>17. ASSUME NEW t \in Threads, ExchangeRefused(t) PROVE CredentialHeld'
  BY <1>17 DEF ExchangeRefused
<1>18. ASSUME NEW t \in Threads, RequestFails(t) PROVE CredentialHeld'
  BY <1>18 DEF RequestFails
<1>19. ASSUME NEW p \in Procs, Crash(p) PROVE CredentialHeld'
  BY <1>19 DEF Crash
<1>20. CASE Ambient
  <2>1. ASSUME NEW p \in Procs, BearerAges(p) PROVE CredentialHeld'
    BY <2>1 DEF BearerAges
  <2>2. ASSUME NEW a \in 1..issued, AccessAges(a) PROVE CredentialHeld'
    BY <2>2 DEF AccessAges
  <2>3. ASSUME NEW a \in 1..issued, AccessRevoked(a) PROVE CredentialHeld'
    BY <2>3 DEF AccessRevoked
  <2>4. CASE SpaSignout
    BY <2>4 DEF SpaSignout
  <2>5. CASE CookiesDie
    BY <2>5 DEF CookiesDie
  <2>6. CASE Rest \/ UNCHANGED vars
    BY <2>6 DEF Rest, vars
  <2> QED
    BY <1>20, <2>1, <2>2, <2>3, <2>4, <2>5, <2>6 DEF Ambient
<1> QED
  BY <1>1, <1>2, <1>3, <1>4, <1>5, <1>6, <1>7, <1>8, <1>9, <1>10, <1>11, <1>12, <1>13, <1>14, <1>15, <1>16, <1>17, <1>18, <1>19, <1>20, OutsideSteps, StepKinds DEF MintStep

\* No step leaves a live refresh token that is neither in the file nor about to be
\* stored, but for the faults that may do it.
LEMMA NoOrphanStep ==
  ASSUME TypeOK, Locked, PresentsCurrent, Chain, NoOrphanedCredential, [Next]_vars
  PROVE  NoOrphanedCredential'
<1> USE ProcOfAssumption
    DEF TypeOK, Locked, LockOwned, FlockExclusive, Points, Minting, Critical, Goto, Leave, Fault,
        Grant, Me, PresentsCurrent, Chain, NoOrphanedCredential,
        procVars, threadVars, diskVars, verysVars, faultVars
<1>1. ASSUME NEW t \in Threads, Outside(t) PROVE NoOrphanedCredential'
  BY <1>1 DEF Outside
<1>2. ASSUME NEW t \in Threads, LoadMissing(t) PROVE NoOrphanedCredential'
  BY <1>2 DEF LoadMissing
<1>3. ASSUME NEW t \in Threads, LoadSession(t) PROVE NoOrphanedCredential'
  BY <1>3 DEF LoadSession
<1>4. ASSUME NEW t \in Threads, RefreshRotates(t) PROVE NoOrphanedCredential'
  BY <1>4 DEF RefreshRotates
<1>5. ASSUME NEW t \in Threads, RefreshKeeps(t) PROVE NoOrphanedCredential'
  BY <1>5 DEF RefreshKeeps
<1>6. ASSUME NEW t \in Threads, RefreshRefused(t) PROVE NoOrphanedCredential'
  BY <1>6 DEF RefreshRefused
<1>7. ASSUME NEW t \in Threads, RefreshLost(t) PROVE NoOrphanedCredential'
  BY <1>7 DEF RefreshLost
<1>8. ASSUME NEW t \in Threads, ReauthorizeExpired(t) PROVE NoOrphanedCredential'
  BY <1>8 DEF ReauthorizeExpired
<1>9. ASSUME NEW t \in Threads, Reauthorize(t) PROVE NoOrphanedCredential'
  BY <1>9 DEF Reauthorize
<1>10. ASSUME NEW t \in Threads, GrantCode(t) PROVE NoOrphanedCredential'
  BY <1>10 DEF GrantCode
<1>11. ASSUME NEW t \in Threads, GrantLost(t) PROVE NoOrphanedCredential'
  BY <1>11 DEF GrantLost
<1>12. ASSUME NEW t \in Threads, GrantWithoutRefresh(t) PROVE NoOrphanedCredential'
  BY <1>12 DEF GrantWithoutRefresh
<1>13. ASSUME NEW t \in Threads, StoreRefresh(t) PROVE NoOrphanedCredential'
  BY <1>13 DEF StoreRefresh
<1>14. ASSUME NEW t \in Threads, StoreFails(t) PROVE NoOrphanedCredential'
  BY <1>14 DEF StoreFails
<1>15. ASSUME NEW t \in Threads, Exchange(t) PROVE NoOrphanedCredential'
  BY <1>15 DEF Exchange
<1>16. ASSUME NEW t \in Threads, ExchangeRetry(t) PROVE NoOrphanedCredential'
  BY <1>16 DEF ExchangeRetry
<1>17. ASSUME NEW t \in Threads, ExchangeRefused(t) PROVE NoOrphanedCredential'
  BY <1>17 DEF ExchangeRefused
<1>18. ASSUME NEW t \in Threads, RequestFails(t) PROVE NoOrphanedCredential'
  BY <1>18 DEF RequestFails
<1>19. ASSUME NEW p \in Procs, Crash(p) PROVE NoOrphanedCredential'
  BY <1>19 DEF Crash
<1>20. CASE Ambient
  <2>1. ASSUME NEW p \in Procs, BearerAges(p) PROVE NoOrphanedCredential'
    BY <2>1 DEF BearerAges
  <2>2. ASSUME NEW a \in 1..issued, AccessAges(a) PROVE NoOrphanedCredential'
    BY <2>2 DEF AccessAges
  <2>3. ASSUME NEW a \in 1..issued, AccessRevoked(a) PROVE NoOrphanedCredential'
    BY <2>3 DEF AccessRevoked
  <2>4. CASE SpaSignout
    BY <2>4 DEF SpaSignout
  <2>5. CASE CookiesDie
    BY <2>5 DEF CookiesDie
  <2>6. CASE Rest \/ UNCHANGED vars
    BY <2>6 DEF Rest, vars
  <2> QED
    BY <1>20, <2>1, <2>2, <2>3, <2>4, <2>5, <2>6 DEF Ambient
<1> QED
  BY <1>1, <1>2, <1>3, <1>4, <1>5, <1>6, <1>7, <1>8, <1>9, <1>10, <1>11, <1>12, <1>13, <1>14, <1>15, <1>16, <1>17, <1>18, <1>19, <1>20, OutsideSteps, StepKinds DEF MintStep

\* No step raises SessionExpiredError while the stored credentials still work.
LEMMA ExpiredStep ==
  ASSUME TypeOK, Locked, PresentsCurrent, Chain, ExpiredMeansDead, [Next]_vars
  PROVE  ExpiredMeansDead'
<1> USE ProcOfAssumption
    DEF TypeOK, Locked, LockOwned, FlockExclusive, Points, Minting, Critical, Goto, Leave, Fault,
        Grant, Me, PresentsCurrent, Chain, ExpiredMeansDead, NoSession, Sessions,
        procVars, threadVars, diskVars, verysVars, faultVars
<1>1. ASSUME NEW t \in Threads, Outside(t) PROVE ExpiredMeansDead'
  BY <1>1 DEF Outside
<1>2. ASSUME NEW t \in Threads, LoadMissing(t) PROVE ExpiredMeansDead'
  BY <1>2 DEF LoadMissing
<1>3. ASSUME NEW t \in Threads, LoadSession(t) PROVE ExpiredMeansDead'
  BY <1>3 DEF LoadSession
<1>4. ASSUME NEW t \in Threads, RefreshRotates(t) PROVE ExpiredMeansDead'
  BY <1>4 DEF RefreshRotates
<1>5. ASSUME NEW t \in Threads, RefreshKeeps(t) PROVE ExpiredMeansDead'
  BY <1>5 DEF RefreshKeeps
<1>6. ASSUME NEW t \in Threads, RefreshRefused(t) PROVE ExpiredMeansDead'
  BY <1>6 DEF RefreshRefused
<1>7. ASSUME NEW t \in Threads, RefreshLost(t) PROVE ExpiredMeansDead'
  BY <1>7 DEF RefreshLost
<1>8. ASSUME NEW t \in Threads, ReauthorizeExpired(t) PROVE ExpiredMeansDead'
  BY <1>8 DEF ReauthorizeExpired
<1>9. ASSUME NEW t \in Threads, Reauthorize(t) PROVE ExpiredMeansDead'
  BY <1>9 DEF Reauthorize
<1>10. ASSUME NEW t \in Threads, GrantCode(t) PROVE ExpiredMeansDead'
  BY <1>10 DEF GrantCode
<1>11. ASSUME NEW t \in Threads, GrantLost(t) PROVE ExpiredMeansDead'
  BY <1>11 DEF GrantLost
<1>12. ASSUME NEW t \in Threads, GrantWithoutRefresh(t) PROVE ExpiredMeansDead'
  BY <1>12 DEF GrantWithoutRefresh
<1>13. ASSUME NEW t \in Threads, StoreRefresh(t) PROVE ExpiredMeansDead'
  BY <1>13 DEF StoreRefresh
<1>14. ASSUME NEW t \in Threads, StoreFails(t) PROVE ExpiredMeansDead'
  BY <1>14 DEF StoreFails
<1>15. ASSUME NEW t \in Threads, Exchange(t) PROVE ExpiredMeansDead'
  BY <1>15 DEF Exchange
<1>16. ASSUME NEW t \in Threads, ExchangeRetry(t) PROVE ExpiredMeansDead'
  BY <1>16 DEF ExchangeRetry
<1>17. ASSUME NEW t \in Threads, ExchangeRefused(t) PROVE ExpiredMeansDead'
  BY <1>17 DEF ExchangeRefused
<1>18. ASSUME NEW t \in Threads, RequestFails(t) PROVE ExpiredMeansDead'
  BY <1>18 DEF RequestFails
<1>19. ASSUME NEW p \in Procs, Crash(p) PROVE ExpiredMeansDead'
  BY <1>19 DEF Crash
<1>20. CASE Ambient
  <2>1. ASSUME NEW p \in Procs, BearerAges(p) PROVE ExpiredMeansDead'
    BY <2>1 DEF BearerAges
  <2>2. ASSUME NEW a \in 1..issued, AccessAges(a) PROVE ExpiredMeansDead'
    BY <2>2 DEF AccessAges
  <2>3. ASSUME NEW a \in 1..issued, AccessRevoked(a) PROVE ExpiredMeansDead'
    BY <2>3 DEF AccessRevoked
  <2>4. CASE SpaSignout
    BY <2>4 DEF SpaSignout
  <2>5. CASE CookiesDie
    BY <2>5 DEF CookiesDie
  <2>6. CASE Rest \/ UNCHANGED vars
    BY <2>6 DEF Rest, vars
  <2> QED
    BY <1>20, <2>1, <2>2, <2>3, <2>4, <2>5, <2>6 DEF Ambient
<1> QED
  BY <1>1, <1>2, <1>3, <1>4, <1>5, <1>6, <1>7, <1>8, <1>9, <1>10, <1>11, <1>12, <1>13, <1>14, <1>15, <1>16, <1>17, <1>18, <1>19, <1>20, OutsideSteps, StepKinds DEF MintStep

\* No step makes a thread mint while its process's bearer is fresh.
LEMMA MintOnlyWhenNeededStep ==
  ASSUME TypeOK, Locked, MintOnlyWhenNeeded, [Next]_vars
  PROVE  MintOnlyWhenNeeded'
<1> USE ProcOfAssumption, NobodyAssumption
    DEF TypeOK, Locked, LockOwned, FlockExclusive, Points, Minting, Critical, Goto, Leave, Fault,
        Grant, Me, MintOnlyWhenNeeded,
        procVars, threadVars, diskVars, verysVars, faultVars
<1>1. ASSUME NEW t \in Threads, CallToken(t) PROVE MintOnlyWhenNeeded'
  BY <1>1 DEF CallToken
<1>2. ASSUME NEW t \in Threads, CallInvalidate(t) PROVE MintOnlyWhenNeeded'
  BY <1>2 DEF CallInvalidate
<1>3. ASSUME NEW t \in Threads, TokenCached(t) PROVE MintOnlyWhenNeeded'
  BY <1>3 DEF TokenCached
<1>4. ASSUME NEW t \in Threads, TokenStale(t) PROVE MintOnlyWhenNeeded'
  BY <1>4 DEF TokenStale
<1>5. ASSUME NEW t \in Threads, Invalidate(t) PROVE MintOnlyWhenNeeded'
  BY <1>5 DEF Invalidate
<1>6. ASSUME NEW t \in Threads, OpenLockFile(t) PROVE MintOnlyWhenNeeded'
  BY <1>6 DEF OpenLockFile
<1>7. ASSUME NEW t \in Threads, TakeFlock(t) PROVE MintOnlyWhenNeeded'
  BY <1>7 DEF TakeFlock
<1>8. ASSUME NEW t \in Threads, Finish(t) PROVE MintOnlyWhenNeeded'
  BY <1>8 DEF Finish
<1>9. ASSUME NEW t \in Threads, MintStep(t) PROVE MintOnlyWhenNeeded'
  BY <1>9, MintStepStaysCritical DEF StaysCritical
<1>10. ASSUME NEW p \in Procs, Crash(p) PROVE MintOnlyWhenNeeded'
  BY <1>10 DEF Crash
<1>11. CASE Ambient
  <2>1. ASSUME NEW p \in Procs, BearerAges(p) PROVE MintOnlyWhenNeeded'
    BY <2>1 DEF BearerAges
  <2>2. ASSUME NEW a \in 1..issued, AccessAges(a) PROVE MintOnlyWhenNeeded'
    BY <2>2 DEF AccessAges
  <2>3. ASSUME NEW a \in 1..issued, AccessRevoked(a) PROVE MintOnlyWhenNeeded'
    BY <2>3 DEF AccessRevoked
  <2>4. CASE SpaSignout
    BY <2>4 DEF SpaSignout
  <2>5. CASE CookiesDie
    BY <2>5 DEF CookiesDie
  <2>6. CASE Rest \/ UNCHANGED vars
    BY <2>6 DEF Rest, vars
  <2> QED
    BY <1>11, <2>1, <2>2, <2>3, <2>4, <2>5, <2>6 DEF Ambient
<1> QED
  BY <1>1, <1>2, <1>3, <1>4, <1>5, <1>6, <1>7, <1>8, <1>9, <1>10, <1>11, StepKinds

\* Access tokens: the numbers in use were issued; a mint starts unretried; and as long as nothing failed,
\* the one obtained by this mint is accepted, is not the cached one, and no mint
\* had to re-authorize.
Subjects ==
  /\ \A p \in Procs : access[p] <= issued
  /\ \A t \in Threads : subject[t] <= issued
  /\ \A t \in Threads : pc[t] \notin Critical \ {"load"} => ~ retried[t]
  /\ happened = {} =>
       \A t \in Threads :
         /\ pc[t] \in {"store", "exchange"} /\ subject[t] # access[Me(t)] => subject[t] \in accepted
         /\ pc[t] = "store" \/ (pc[t] = "exchange" /\ retried[t]) => subject[t] # access[Me(t)]
         /\ pc[t] \notin {"reauth", "grant"}

\* Without faults, every step keeps the access token a thread presents one that Verys
\* accepts, from the second try on at the latest.
LEMMA SubjectsStep ==
  ASSUME TypeOK, Locked, PresentsCurrent, CredentialHeld, Subjects, [Next]_vars
  PROVE  Subjects'
<1> USE ProcOfAssumption, NobodyAssumption
    DEF TypeOK, Locked, LockOwned, FlockExclusive, Points, Minting, Critical, Goto, Leave, Fault,
        Grant, Me, PresentsCurrent, CredentialHeld, Subjects,
        procVars, threadVars, diskVars, verysVars, faultVars
<1>1. ASSUME NEW t \in Threads, CallToken(t) PROVE Subjects'
  BY <1>1 DEF CallToken
<1>2. ASSUME NEW t \in Threads, CallInvalidate(t) PROVE Subjects'
  BY <1>2 DEF CallInvalidate
<1>3. ASSUME NEW t \in Threads, TokenCached(t) PROVE Subjects'
  BY <1>3 DEF TokenCached
<1>4. ASSUME NEW t \in Threads, TokenStale(t) PROVE Subjects'
  BY <1>4 DEF TokenStale
<1>5. ASSUME NEW t \in Threads, Invalidate(t) PROVE Subjects'
  BY <1>5 DEF Invalidate
<1>6. ASSUME NEW t \in Threads, OpenLockFile(t) PROVE Subjects'
  BY <1>6 DEF OpenLockFile
<1>7. ASSUME NEW t \in Threads, TakeFlock(t) PROVE Subjects'
  BY <1>7 DEF TakeFlock
<1>8. ASSUME NEW t \in Threads, Finish(t) PROVE Subjects'
  BY <1>8 DEF Finish
<1>9. ASSUME NEW t \in Threads, LoadMissing(t) PROVE Subjects'
  BY <1>9 DEF LoadMissing
<1>10. ASSUME NEW t \in Threads, LoadSession(t) PROVE Subjects'
  BY <1>10 DEF LoadSession
<1>11. ASSUME NEW t \in Threads, RefreshRotates(t) PROVE Subjects'
  BY <1>11 DEF RefreshRotates
<1>12. ASSUME NEW t \in Threads, RefreshKeeps(t) PROVE Subjects'
  BY <1>12 DEF RefreshKeeps
<1>13. ASSUME NEW t \in Threads, RefreshRefused(t) PROVE Subjects'
  BY <1>13 DEF RefreshRefused
<1>14. ASSUME NEW t \in Threads, RefreshLost(t) PROVE Subjects'
  BY <1>14 DEF RefreshLost
<1>15. ASSUME NEW t \in Threads, ReauthorizeExpired(t) PROVE Subjects'
  BY <1>15 DEF ReauthorizeExpired
<1>16. ASSUME NEW t \in Threads, Reauthorize(t) PROVE Subjects'
  BY <1>16 DEF Reauthorize
<1>17. ASSUME NEW t \in Threads, GrantCode(t) PROVE Subjects'
  BY <1>17 DEF GrantCode
<1>18. ASSUME NEW t \in Threads, GrantLost(t) PROVE Subjects'
  BY <1>18 DEF GrantLost
<1>19. ASSUME NEW t \in Threads, GrantWithoutRefresh(t) PROVE Subjects'
  BY <1>19 DEF GrantWithoutRefresh
<1>20. ASSUME NEW t \in Threads, StoreRefresh(t) PROVE Subjects'
  BY <1>20 DEF StoreRefresh
<1>21. ASSUME NEW t \in Threads, StoreFails(t) PROVE Subjects'
  BY <1>21 DEF StoreFails
<1>22. ASSUME NEW t \in Threads, Exchange(t) PROVE Subjects'
  BY <1>22 DEF Exchange
<1>23. ASSUME NEW t \in Threads, ExchangeRetry(t) PROVE Subjects'
  BY <1>23 DEF ExchangeRetry
<1>24. ASSUME NEW t \in Threads, ExchangeRefused(t) PROVE Subjects'
  BY <1>24 DEF ExchangeRefused
<1>25. ASSUME NEW t \in Threads, RequestFails(t) PROVE Subjects'
  BY <1>25 DEF RequestFails
<1>26. ASSUME NEW p \in Procs, Crash(p) PROVE Subjects'
  BY <1>26 DEF Crash
<1>27. CASE Ambient
  <2>1. ASSUME NEW p \in Procs, BearerAges(p) PROVE Subjects'
    BY <2>1 DEF BearerAges
  <2>2. ASSUME NEW a \in 1..issued, AccessAges(a) PROVE Subjects'
    BY <2>2 DEF AccessAges, JustIssued
  <2>3. ASSUME NEW a \in 1..issued, AccessRevoked(a) PROVE Subjects'
    BY <2>3 DEF AccessRevoked
  <2>4. CASE SpaSignout
    BY <2>4 DEF SpaSignout
  <2>5. CASE CookiesDie
    BY <2>5 DEF CookiesDie
  <2>6. CASE Rest \/ UNCHANGED vars
    BY <2>6 DEF Rest, vars
  <2> QED
    BY <1>27, <2>1, <2>2, <2>3, <2>4, <2>5, <2>6 DEF Ambient
<1> QED
  BY <1>1, <1>2, <1>3, <1>4, <1>5, <1>6, <1>7, <1>8, <1>9, <1>10, <1>11, <1>12, <1>13, <1>14, <1>15, <1>16, <1>17, <1>18, <1>19, <1>20, <1>21, <1>22, <1>23, <1>24, <1>25, <1>26, <1>27, StepKinds DEF MintStep

\* Without faults, no step of a logged-in mint raises.
LEMMA NoErrorStep ==
  ASSUME TypeOK, Locked, PresentsCurrent, CredentialHeld, Subjects, NoErrorWithoutFault, [Next]_vars
  PROVE  NoErrorWithoutFault'
<1> USE ProcOfAssumption, NobodyAssumption
    DEF TypeOK, Locked, LockOwned, FlockExclusive, Points, Minting, Critical, Goto, Leave, Fault,
        Grant, Me, PresentsCurrent, CredentialHeld, Subjects, NoErrorWithoutFault,
        procVars, threadVars, diskVars, verysVars, faultVars
<1>1. ASSUME NEW t \in Threads, CallToken(t) PROVE NoErrorWithoutFault'
  BY <1>1 DEF CallToken
<1>2. ASSUME NEW t \in Threads, CallInvalidate(t) PROVE NoErrorWithoutFault'
  BY <1>2 DEF CallInvalidate
<1>3. ASSUME NEW t \in Threads, TokenCached(t) PROVE NoErrorWithoutFault'
  BY <1>3 DEF TokenCached
<1>4. ASSUME NEW t \in Threads, TokenStale(t) PROVE NoErrorWithoutFault'
  BY <1>4 DEF TokenStale
<1>5. ASSUME NEW t \in Threads, Invalidate(t) PROVE NoErrorWithoutFault'
  BY <1>5 DEF Invalidate
<1>6. ASSUME NEW t \in Threads, OpenLockFile(t) PROVE NoErrorWithoutFault'
  BY <1>6 DEF OpenLockFile
<1>7. ASSUME NEW t \in Threads, TakeFlock(t) PROVE NoErrorWithoutFault'
  BY <1>7 DEF TakeFlock
<1>8. ASSUME NEW t \in Threads, Finish(t) PROVE NoErrorWithoutFault'
  BY <1>8 DEF Finish
<1>9. ASSUME NEW t \in Threads, LoadMissing(t) PROVE NoErrorWithoutFault'
  BY <1>9 DEF LoadMissing
<1>10. ASSUME NEW t \in Threads, LoadSession(t) PROVE NoErrorWithoutFault'
  BY <1>10 DEF LoadSession
<1>11. ASSUME NEW t \in Threads, RefreshRotates(t) PROVE NoErrorWithoutFault'
  BY <1>11 DEF RefreshRotates
<1>12. ASSUME NEW t \in Threads, RefreshKeeps(t) PROVE NoErrorWithoutFault'
  BY <1>12 DEF RefreshKeeps
<1>13. ASSUME NEW t \in Threads, RefreshRefused(t) PROVE NoErrorWithoutFault'
  BY <1>13 DEF RefreshRefused
<1>14. ASSUME NEW t \in Threads, RefreshLost(t) PROVE NoErrorWithoutFault'
  BY <1>14 DEF RefreshLost
<1>15. ASSUME NEW t \in Threads, ReauthorizeExpired(t) PROVE NoErrorWithoutFault'
  BY <1>15 DEF ReauthorizeExpired
<1>16. ASSUME NEW t \in Threads, Reauthorize(t) PROVE NoErrorWithoutFault'
  BY <1>16 DEF Reauthorize
<1>17. ASSUME NEW t \in Threads, GrantCode(t) PROVE NoErrorWithoutFault'
  BY <1>17 DEF GrantCode
<1>18. ASSUME NEW t \in Threads, GrantLost(t) PROVE NoErrorWithoutFault'
  BY <1>18 DEF GrantLost
<1>19. ASSUME NEW t \in Threads, GrantWithoutRefresh(t) PROVE NoErrorWithoutFault'
  BY <1>19 DEF GrantWithoutRefresh
<1>20. ASSUME NEW t \in Threads, StoreRefresh(t) PROVE NoErrorWithoutFault'
  BY <1>20 DEF StoreRefresh
<1>21. ASSUME NEW t \in Threads, StoreFails(t) PROVE NoErrorWithoutFault'
  BY <1>21 DEF StoreFails
<1>22. ASSUME NEW t \in Threads, Exchange(t) PROVE NoErrorWithoutFault'
  BY <1>22 DEF Exchange
<1>23. ASSUME NEW t \in Threads, ExchangeRetry(t) PROVE NoErrorWithoutFault'
  BY <1>23 DEF ExchangeRetry
<1>24. ASSUME NEW t \in Threads, ExchangeRefused(t) PROVE NoErrorWithoutFault'
  BY <1>24 DEF ExchangeRefused
<1>25. ASSUME NEW t \in Threads, RequestFails(t) PROVE NoErrorWithoutFault'
  BY <1>25 DEF RequestFails
<1>26. ASSUME NEW p \in Procs, Crash(p) PROVE NoErrorWithoutFault'
  BY <1>26 DEF Crash
<1>27. CASE Ambient
  <2>1. ASSUME NEW p \in Procs, BearerAges(p) PROVE NoErrorWithoutFault'
    BY <2>1 DEF BearerAges
  <2>2. ASSUME NEW a \in 1..issued, AccessAges(a) PROVE NoErrorWithoutFault'
    BY <2>2 DEF AccessAges, JustIssued
  <2>3. ASSUME NEW a \in 1..issued, AccessRevoked(a) PROVE NoErrorWithoutFault'
    BY <2>3 DEF AccessRevoked
  <2>4. CASE SpaSignout
    BY <2>4 DEF SpaSignout
  <2>5. CASE CookiesDie
    BY <2>5 DEF CookiesDie
  <2>6. CASE Rest \/ UNCHANGED vars
    BY <2>6 DEF Rest, vars
  <2> QED
    BY <1>27, <2>1, <2>2, <2>3, <2>4, <2>5, <2>6 DEF Ambient
<1> QED
  BY <1>1, <1>2, <1>3, <1>4, <1>5, <1>6, <1>7, <1>8, <1>9, <1>10, <1>11, <1>12, <1>13, <1>14, <1>15, <1>16, <1>17, <1>18, <1>19, <1>20, <1>21, <1>22, <1>23, <1>24, <1>25, <1>26, <1>27, StepKinds DEF MintStep

\* The stored refresh token only ever moves forward.
LEMMA FileStep ==
  ASSUME TypeOK, Locked, PresentsCurrent, Chain, [Next]_vars
  PROVE  file.rt <= file'.rt
<1>1. CASE UNCHANGED file
  BY <1>1 DEF TypeOK, Sessions, NoSession
<1>2. ASSUME NEW t \in Threads, StoreRefresh(t) PROVE file.rt <= file'.rt
  BY <1>2, ProcOfAssumption DEF StoreRefresh, Chain, TypeOK, Sessions, NoSession, Me
<1>3. UNCHANGED file \/ \E t \in Threads : StoreRefresh(t)
  <2>1. ASSUME NEW t \in Threads, MintStep(t), ~ StoreRefresh(t) PROVE UNCHANGED file
    BY <2>1 DEF MintStep, LoadMissing, LoadSession, RefreshRotates, RefreshKeeps, RefreshRefused,
         RefreshLost, ReauthorizeExpired, Reauthorize, GrantCode, GrantLost, GrantWithoutRefresh,
         StoreFails, Exchange, ExchangeRetry, ExchangeRefused, RequestFails, diskVars
  <2>2. ASSUME NEW p \in Procs, Crash(p) PROVE UNCHANGED file
    BY <2>2 DEF Crash, diskVars
  <2> QED
    BY <2>1, <2>2, OutsideSteps, AmbientLeavesThreads, StepKinds DEF Outside, diskVars
<1> QED
  BY <1>1, <1>2, <1>3

----------------------------------------------------------------------------
(* The inductive invariant and the theorems.                               *)

IInv ==
  /\ TypeOK
  /\ Locked
  /\ PresentsCurrent /\ Chain /\ Pending /\ Subjects
  /\ CredentialHeld /\ NoOrphanedCredential
  /\ MintOnlyWhenNeeded /\ ExpiredMeansDead /\ NoErrorWithoutFault

\* The inductive invariant holds initially.
LEMMA IInvInit == Init => IInv
<1> SUFFICES ASSUME Init PROVE IInv
  OBVIOUS
<1>1. TypeOK
  BY ProcOfAssumption, NobodyAssumption, BoundsAssumption
     DEF Init, TypeOK, NoSession, Sessions, Points
<1>2. Locked
  BY NobodyAssumption, ProcOfAssumption
     DEF Init, Locked, LockOwned, FlockHeld, FlockExclusive, Minting, Critical, Me
<1>3. Chain /\ CredentialHeld /\ NoOrphanedCredential
  BY DEF Init, Chain, CredentialHeld, NoOrphanedCredential, NoSession
<1>4. PresentsCurrent /\ Pending /\ Subjects /\ MintOnlyWhenNeeded /\ ExpiredMeansDead /\ NoErrorWithoutFault
  BY DEF Init, PresentsCurrent, Pending, Subjects, MintOnlyWhenNeeded, ExpiredMeansDead,
         NoErrorWithoutFault, Minting, Critical
<1> QED
  BY <1>1, <1>2, <1>3, <1>4 DEF IInv

\* Every step keeps the inductive invariant.
LEMMA IInvStep == IInv /\ [Next]_vars => IInv'
<1>1. TypeOK /\ [Next]_vars => TypeOK'
  BY TypingStep
<1> QED
  BY <1>1, LockedStep, PresentsCurrentStep, ChainStep, PendingStep, SubjectsStep, CredentialHeldStep,
     NoOrphanStep, MintOnlyWhenNeededStep, ExpiredStep, NoErrorStep DEF IInv

\* The inductive invariant holds in every reachable state.
THEOREM Invariance == Spec => []IInv
<1>1. IInv /\ [Next]_vars => IInv'
  BY IInvStep
<1> QED
  BY <1>1, IInvInit, PTL DEF Spec

\* Every call to Verys is made with the session that is on disk, for any number
\* of threads and processes and any sequence of faults.
THEOREM AlwaysPresentsCurrent == Spec => []PresentsCurrent
<1>1. IInv => PresentsCurrent
  BY DEF IInv
<1> QED
  BY <1>1, Invariance, PTL

\* A token storm mints once.
THEOREM StormMintsOnce == Spec => []MintOnlyWhenNeeded
<1>1. IInv => MintOnlyWhenNeeded
  BY DEF IInv
<1> QED
  BY <1>1, Invariance, PTL

\* Only a crash, a lost answer, a failed save or a sign-out can leave the session
\* file with a dead refresh token.
THEOREM CredentialSafe == Spec => []CredentialHeld
<1>1. IInv => CredentialHeld
  BY DEF IInv
<1> QED
  BY <1>1, Invariance, PTL

\* And only a crash, a lost answer or a failed save can leave a live refresh token that
\* nobody knows.
THEOREM NothingOrphaned == Spec => []NoOrphanedCredential
<1>1. IInv => NoOrphanedCredential
  BY DEF IInv
<1> QED
  BY <1>1, Invariance, PTL

\* SessionExpiredError is never raised while a stored credential still works.
THEOREM ExpiryIsReal == Spec => []ExpiredMeansDead
<1>1. IInv => ExpiredMeansDead
  BY DEF IInv
<1> QED
  BY <1>1, Invariance, PTL

\* A logged-in user's mint fails only after a fault: concurrency alone never does it.
THEOREM OneRetryIsEnough == Spec => []NoErrorWithoutFault
<1>1. IInv => NoErrorWithoutFault
  BY DEF IInv
<1> QED
  BY <1>1, Invariance, PTL

\* The refresh token on disk is only ever replaced by a newer one.
THEOREM FileMovesForward == Spec => FileNeverRegresses
<1>1. IInv /\ [Next]_vars => [file.rt <= file'.rt]_vars
  BY FileStep DEF IInv
<1> QED
  BY <1>1, Invariance, PTL DEF Spec, FileNeverRegresses

=============================================================================
