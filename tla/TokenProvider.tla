--------------------------- MODULE TokenProvider ---------------------------
(***************************************************************************)
(* VerysTokenProvider (auth.py): threads of several chudp processes share  *)
(* one session file.  A process caches a chud-money bearer (token) and a   *)
(* Verys access token (access) under a threading.Lock; a mint also holds   *)
(* flock on <auth_file>.lock, re-reads the file, and talks to Verys, which *)
(* rotates the refresh token on every use.                                 *)
(*                                                                         *)
(* A refresh token and the access token issued with it share a number:     *)
(* grant n returns refresh token n and access token n; 0 is "none".        *)
(***************************************************************************)
EXTENDS Naturals, FiniteSets

CONSTANTS
  Threads,    \* threads that call token() and invalidate()
  Procs,      \* chudp processes, one provider each
  ProcOf,     \* the process a thread belongs to
  Nobody,     \* "no thread holds the lock"
  MaxCalls,   \* bound: calls of token() and invalidate() in a behaviour
  MaxFaults   \* bound: failures of the environment in a behaviour

ASSUME ProcOfAssumption == ProcOf \in [Threads -> Procs]
ASSUME NobodyAssumption == Nobody \notin Threads
ASSUME BoundsAssumption == MaxCalls \in Nat /\ MaxFaults \in Nat

VARIABLES
  lock, token, access, mem,               \* per process: _lock, _token, _access, _session
  pc, fd, holding, subject, retried, outcome,   \* per thread
  file, lockIno, nextIno,                 \* session.json; inode at session.lock, next inode
  live, accepted, young, issued, validCookies,      \* Verys and the clock
  calls, faults, happened                 \* bounds, and the kinds of fault so far

procVars   == <<lock, token, access, mem>>
threadVars == <<pc, fd, holding, subject, retried, outcome>>
diskVars   == <<file, lockIno, nextIno>>
verysVars  == <<live, accepted, young, issued, validCookies>>
faultVars  == <<faults, happened>>
vars == <<procVars, threadVars, diskVars, verysVars, calls, faultVars>>

\* A session is its refresh token and its browser cookies (0: none stored).
NoSession == [rt |-> 0, cookies |-> 0]
Sessions  == [rt : Nat \ {0}, cookies : Nat]

FaultKinds == {"crash", "lost", "error", "disk", "signout", "cookies", "revoke", "norefresh"}

\* Program points: waiting for _lock; _lock held, lock file not opened; waiting
\* for flock; then the calls made under both locks.
Critical == {"load", "refresh", "store", "reauth", "grant", "exchange", "finish"}
Minting  == {"open", "flock"} \cup Critical
Points   == {"idle", "lock", "inval"} \cup Minting

Me(t) == ProcOf[t]

Init ==
  /\ lock = [p \in Procs |-> Nobody]
  /\ token = [p \in Procs |-> "none"]
  /\ access = [p \in Procs |-> 0]
  /\ mem = [p \in Procs |-> NoSession]
  /\ pc = [t \in Threads |-> "idle"]
  /\ fd = [t \in Threads |-> 0]
  /\ holding = [t \in Threads |-> FALSE]
  /\ subject = [t \in Threads |-> 0]
  /\ retried = [t \in Threads |-> FALSE]
  /\ outcome = [t \in Threads |-> "none"]
  /\ file \in {NoSession} \cup [rt : {1}, cookies : {0, 1}]
  /\ lockIno = 0 /\ nextIno = 1
  /\ live = (IF file = NoSession THEN {} ELSE {1})
  /\ accepted = {} /\ young = {}
  /\ issued = 1
  /\ validCookies = {1}
  /\ calls = 0 /\ faults = 0 /\ happened = {}

----------------------------------------------------------------------------
(* Helpers                                                                 *)

Goto(t, point) == pc' = [pc EXCEPT ![t] = point]

\* Leave _mint: the value or the exception travels through both `finally`s.
Leave(t, result) ==
  /\ Goto(t, "finish")
  /\ outcome' = [outcome EXCEPT ![t] = result]

Fault(kind) ==
  /\ faults < MaxFaults
  /\ faults' = faults + 1
  /\ happened' = happened \cup {kind}

NoFault == UNCHANGED faultVars

\* expires_within(access, early_s), or no access token at all
Expiring(a) == a \notin young

\* Verys answers a grant: pair n is issued.  When a refresh token is presented, the
\* access token issued with it may end ("revoked, or rotated by a sibling").
Grant(n, liveAfter, presented) ==
  /\ n = issued + 1
  /\ issued' = n
  /\ live' = liveAfter
  /\ accepted' \in {accepted \cup {n}, (accepted \ presented) \cup {n}}
  /\ young' = young \cup {n}
  /\ UNCHANGED validCookies

----------------------------------------------------------------------------
(* token() and invalidate()                                                *)

CallToken(t) ==
  /\ pc[t] = "idle" /\ calls < MaxCalls
  /\ calls' = calls + 1
  /\ Goto(t, "lock")
  /\ UNCHANGED <<procVars, fd, holding, subject, retried, outcome, diskVars, verysVars, faultVars>>

CallInvalidate(t) ==
  /\ pc[t] = "idle" /\ calls < MaxCalls
  /\ calls' = calls + 1
  /\ Goto(t, "inval")
  /\ UNCHANGED <<procVars, fd, holding, subject, retried, outcome, diskVars, verysVars, faultVars>>

\* Under _lock, the cached bearer is good for at least early_s more.
TokenCached(t) ==
  /\ pc[t] = "lock"
  /\ lock[Me(t)] = Nobody
  /\ token[Me(t)] = "fresh"
  /\ Goto(t, "idle")
  /\ UNCHANGED <<procVars, fd, holding, subject, retried, outcome, diskVars, verysVars, calls, faultVars>>

\* Mutant: staleness was judged before waiting for _lock and is not judged again.
TokenStaleUnchecked(t) ==
  /\ pc[t] = "lock"
  /\ lock[Me(t)] = Nobody
  /\ lock' = [lock EXCEPT ![Me(t)] = t]
  /\ Goto(t, "open")
  /\ UNCHANGED <<token, access, mem, fd, holding, subject, retried, outcome, diskVars, verysVars, calls, faultVars>>

TokenStale(t) ==
  /\ pc[t] = "lock"
  /\ lock[Me(t)] = Nobody
  /\ token[Me(t)] # "fresh"
  /\ lock' = [lock EXCEPT ![Me(t)] = t]
  /\ Goto(t, "open")
  /\ UNCHANGED <<token, access, mem, fd, holding, subject, retried, outcome, diskVars, verysVars, calls, faultVars>>

Invalidate(t) ==
  /\ pc[t] = "inval"
  /\ lock[Me(t)] = Nobody
  /\ token' = [token EXCEPT ![Me(t)] = "none"]
  /\ access' = [access EXCEPT ![Me(t)] = 0]
  /\ Goto(t, "idle")
  /\ UNCHANGED <<lock, mem, fd, holding, subject, retried, outcome, diskVars, verysVars, calls, faultVars>>

----------------------------------------------------------------------------
(* _flock                                                                  *)

\* os.open(path, O_RDWR | O_CREAT): the file there, or a new one.
OpenLockFile(t) ==
  /\ pc[t] = "open"
  /\ IF lockIno = 0
       THEN lockIno' = nextIno /\ nextIno' = nextIno + 1
       ELSE UNCHANGED <<lockIno, nextIno>>
  /\ fd' = [fd EXCEPT ![t] = lockIno']
  /\ Goto(t, "flock")
  /\ UNCHANGED <<procVars, holding, subject, retried, outcome, file, verysVars, calls, faultVars>>

\* Mutant: the flock call is missing.
FlockMissing(ino) == TRUE

\* flock(LOCK_EX) excludes the holders of locks on the same open inode.
FlockFree(ino) == \A u \in Threads : holding[u] => fd[u] # ino

TakeFlock(t) ==
  /\ pc[t] = "flock"
  /\ FlockFree(fd[t])
  /\ holding' = [holding EXCEPT ![t] = TRUE]
  /\ Goto(t, "load")
  /\ UNCHANGED <<procVars, fd, subject, retried, outcome, diskVars, verysVars, calls, faultVars>>

\* Mutant: _lock is released on success only (no `with`).
FinishNoFinally(t) ==
  /\ pc[t] = "finish"
  /\ holding' = [holding EXCEPT ![t] = FALSE]
  /\ fd' = [fd EXCEPT ![t] = 0]
  /\ lock' = (IF outcome[t] = "ok" THEN [lock EXCEPT ![Me(t)] = Nobody] ELSE lock)
  /\ token' = (IF outcome[t] = "ok" THEN [token EXCEPT ![Me(t)] = "fresh"] ELSE token)
  /\ subject' = [subject EXCEPT ![t] = 0]
  /\ retried' = [retried EXCEPT ![t] = FALSE]
  /\ outcome' = [outcome EXCEPT ![t] = "none"]
  /\ Goto(t, "idle")
  /\ UNCHANGED <<access, mem, diskVars, verysVars, calls, faultVars>>

\* The end of _mint and of token(): flock and fd go, then the bearer is cached
\* (only on success) and _lock goes.
Finish(t) ==
  /\ pc[t] = "finish"
  /\ holding' = [holding EXCEPT ![t] = FALSE]
  /\ fd' = [fd EXCEPT ![t] = 0]
  /\ lock' = [lock EXCEPT ![Me(t)] = Nobody]
  /\ token' = (IF outcome[t] = "ok" THEN [token EXCEPT ![Me(t)] = "fresh"] ELSE token)
  /\ subject' = [subject EXCEPT ![t] = 0]
  /\ retried' = [retried EXCEPT ![t] = FALSE]
  /\ outcome' = [outcome EXCEPT ![t] = "none"]
  /\ Goto(t, "idle")
  /\ UNCHANGED <<access, mem, diskVars, verysVars, calls, faultVars>>

----------------------------------------------------------------------------
(* _mint under both locks                                                  *)

LoadMissing(t) ==
  /\ pc[t] = "load"
  /\ file = NoSession
  /\ Leave(t, "expired")
  /\ UNCHANGED <<procVars, fd, holding, subject, retried, diskVars, verysVars, calls, faultVars>>

\* Mutant: the session is read once per process, not under every flock.
LoadOnce(t) ==
  /\ pc[t] = "load"
  /\ file # NoSession
  /\ mem' = (IF mem[Me(t)] = NoSession THEN [mem EXCEPT ![Me(t)] = file] ELSE mem)
  /\ IF Expiring(access[Me(t)])
       THEN Goto(t, "refresh") /\ UNCHANGED subject
       ELSE Goto(t, "exchange") /\ subject' = [subject EXCEPT ![t] = access[Me(t)]]
  /\ UNCHANGED <<lock, token, access, fd, holding, retried, outcome, diskVars, verysVars, calls, faultVars>>

\* Session.load, then reuse _access unless it is missing or about to expire.
LoadSession(t) ==
  /\ pc[t] = "load"
  /\ file # NoSession
  /\ mem' = [mem EXCEPT ![Me(t)] = file]
  /\ IF Expiring(access[Me(t)])
       THEN Goto(t, "refresh") /\ UNCHANGED subject
       ELSE Goto(t, "exchange") /\ subject' = [subject EXCEPT ![t] = access[Me(t)]]
  /\ UNCHANGED <<lock, token, access, fd, holding, retried, outcome, diskVars, verysVars, calls, faultVars>>

\* The refresh grant, answered with a rotated token: the presented one dies.
RefreshRotates(t) ==
  LET rt == mem[Me(t)].rt
  IN  /\ pc[t] = "refresh"
      /\ rt \in live
      /\ Grant(issued + 1, (live \ {rt}) \cup {issued + 1}, {rt})
      /\ subject' = [subject EXCEPT ![t] = issued + 1]
      /\ Goto(t, "store")
      /\ UNCHANGED <<procVars, fd, holding, retried, outcome, diskVars, calls, faultVars>>

\* Mutant: _store_refresh without its guard writes the missing refresh token.
RefreshStoresNone(t) ==
  LET emptied == [mem[Me(t)] EXCEPT !.rt = 0]
  IN  /\ pc[t] = "refresh"
      /\ mem[Me(t)].rt \in live
      /\ Grant(issued + 1, live, {mem[Me(t)].rt})
      /\ subject' = [subject EXCEPT ![t] = issued + 1]
      /\ mem' = [mem EXCEPT ![Me(t)] = emptied]
      /\ file' = emptied
      /\ Goto(t, "exchange")
      /\ UNCHANGED <<lock, token, access, fd, holding, retried, outcome, lockIno, nextIno, calls, faultVars>>

\* ... or answered without a refresh token, or with the one presented: nothing to store.
RefreshKeeps(t) ==
  /\ pc[t] = "refresh"
  /\ mem[Me(t)].rt \in live
  /\ Grant(issued + 1, live, {mem[Me(t)].rt})
  /\ subject' = [subject EXCEPT ![t] = issued + 1]
  /\ Goto(t, "exchange")
  /\ UNCHANGED <<procVars, fd, holding, retried, outcome, diskVars, calls, faultVars>>

\* Mutant: any error of the refresh grant, not only invalid_grant, re-authorizes.
RefreshRefusedOnAnyError(t) ==
  /\ pc[t] = "refresh"
  /\ Goto(t, "reauth")
  /\ UNCHANGED <<procVars, fd, holding, subject, retried, outcome, diskVars, verysVars, calls, faultVars>>

\* invalid_grant: fall back to the stored cookies.
RefreshRefused(t) ==
  /\ pc[t] = "refresh"
  /\ mem[Me(t)].rt \notin live
  /\ Goto(t, "reauth")
  /\ UNCHANGED <<procVars, fd, holding, subject, retried, outcome, diskVars, verysVars, calls, faultVars>>

\* Verys rotated, but the answer never arrived (httpx timeout): the error propagates.
RefreshLost(t) ==
  LET rt == mem[Me(t)].rt
  IN  /\ pc[t] = "refresh"
      /\ rt \in live
      /\ Fault("lost")
      /\ Grant(issued + 1, (live \ {rt}) \cup {issued + 1}, {rt})
      /\ Leave(t, "error")
      /\ UNCHANGED <<procVars, fd, holding, subject, retried, diskVars, calls>>

\* _reauthorize: no cookie stored, or /authorize serves the login page.
ReauthorizeExpired(t) ==
  /\ pc[t] = "reauth"
  /\ mem[Me(t)].cookies \notin validCookies
  /\ Leave(t, "expired")
  /\ UNCHANGED <<procVars, fd, holding, subject, retried, diskVars, verysVars, calls, faultVars>>

Reauthorize(t) ==
  /\ pc[t] = "reauth"
  /\ mem[Me(t)].cookies \in validCookies
  /\ Goto(t, "grant")
  /\ UNCHANGED <<procVars, fd, holding, subject, retried, outcome, diskVars, verysVars, calls, faultVars>>

\* The authorization-code grant issues a second line of refresh tokens.
GrantCode(t) ==
  /\ pc[t] = "grant"
  /\ Grant(issued + 1, live \cup {issued + 1}, {})
  /\ subject' = [subject EXCEPT ![t] = issued + 1]
  /\ Goto(t, "store")
  /\ UNCHANGED <<procVars, fd, holding, retried, outcome, diskVars, calls, faultVars>>

GrantLost(t) ==
  /\ pc[t] = "grant"
  /\ Fault("lost")
  /\ Grant(issued + 1, live \cup {issued + 1}, {})
  /\ Leave(t, "error")
  /\ UNCHANGED <<procVars, fd, holding, subject, retried, diskVars, calls>>

GrantWithoutRefresh(t) ==
  /\ pc[t] = "grant"
  /\ Fault("norefresh")
  /\ Grant(issued + 1, live, {})
  /\ Leave(t, "expired")
  /\ UNCHANGED <<procVars, fd, holding, subject, retried, diskVars, calls>>

\* Mutant: the rotated token stays in memory.
StoreInMemory(t) ==
  /\ pc[t] = "store"
  /\ mem' = [mem EXCEPT ![Me(t)].rt = subject[t]]
  /\ Goto(t, "exchange")
  /\ UNCHANGED <<lock, token, access, fd, holding, subject, retried, outcome, diskVars, verysVars, calls, faultVars>>

\* Mutant: flock on session.json itself, whose inode os.replace changes.
StoreReplacesLockFile(t) ==
  LET renewed == [mem[Me(t)] EXCEPT !.rt = subject[t]]
  IN  /\ pc[t] = "store"
      /\ mem' = [mem EXCEPT ![Me(t)] = renewed]
      /\ file' = renewed
      /\ lockIno' = nextIno /\ nextIno' = nextIno + 1
      /\ Goto(t, "exchange")
      /\ UNCHANGED <<lock, token, access, fd, holding, subject, retried, outcome, verysVars, calls, faultVars>>

\* _store_refresh: the in-memory session first, then tmp + fsync + os.replace.  Mints
\* save one at a time and nobody else does, so that is one step; AuthCli has its parts.
StoreRefresh(t) ==
  LET renewed == [mem[Me(t)] EXCEPT !.rt = subject[t]]
  IN  /\ pc[t] = "store"
      /\ mem' = [mem EXCEPT ![Me(t)] = renewed]
      /\ file' = renewed
      /\ Goto(t, "exchange")
      /\ UNCHANGED <<lock, token, access, fd, holding, subject, retried, outcome, lockIno, nextIno, verysVars, calls, faultVars>>

StoreFails(t) ==
  /\ pc[t] = "store"
  /\ Fault("disk")
  /\ mem' = [mem EXCEPT ![Me(t)].rt = subject[t]]
  /\ Leave(t, "error")
  /\ UNCHANGED <<lock, token, access, fd, holding, subject, retried, diskVars, verysVars, calls>>

\* The exchange succeeds: only now is the access token remembered.
Exchange(t) ==
  /\ pc[t] = "exchange"
  /\ subject[t] \in accepted
  /\ access' = [access EXCEPT ![Me(t)] = subject[t]]
  /\ Leave(t, "ok")
  /\ UNCHANGED <<lock, token, mem, fd, holding, subject, retried, diskVars, verysVars, calls, faultVars>>

\* Mutant: the exchange is retried with the same subject token.
RetryWithoutRefresh(t) ==
  /\ pc[t] = "exchange"
  /\ subject[t] \notin accepted
  /\ ~ retried[t]
  /\ retried' = [retried EXCEPT ![t] = TRUE]
  /\ UNCHANGED <<procVars, pc, fd, holding, subject, outcome, diskVars, verysVars, calls, faultVars>>

\* invalid_grant for the subject token: refresh once more, then give up.
ExchangeRetry(t) ==
  /\ pc[t] = "exchange"
  /\ subject[t] \notin accepted
  /\ ~ retried[t]
  /\ retried' = [retried EXCEPT ![t] = TRUE]
  /\ Goto(t, "refresh")
  /\ UNCHANGED <<procVars, fd, holding, subject, outcome, diskVars, verysVars, calls, faultVars>>

ExchangeRefused(t) ==
  /\ pc[t] = "exchange"
  /\ subject[t] \notin accepted
  /\ retried[t]
  /\ Leave(t, "error")
  /\ UNCHANGED <<procVars, fd, holding, subject, retried, diskVars, verysVars, calls, faultVars>>

\* Any other answer (5xx, access_denied, a missing role, httpx errors) raises
\* before Verys changed anything.
RequestFails(t) ==
  /\ \/ pc[t] \in {"refresh", "grant", "exchange"}
     \/ pc[t] = "reauth" /\ mem[Me(t)].cookies # 0
  /\ Fault("error")
  /\ Leave(t, "error")
  /\ UNCHANGED <<procVars, fd, holding, subject, retried, diskVars, verysVars, calls>>

----------------------------------------------------------------------------
(* Time, the identity provider, and crashes                                *)

BearerAges(p) ==
  /\ token[p] = "fresh"
  /\ token' = [token EXCEPT ![p] = "aging"]
  /\ UNCHANGED <<lock, access, mem, threadVars, diskVars, verysVars, calls, faultVars>>

\* An access token outlives the mint that obtained it; a cached one may age,
\* and die, at any moment, also under the mint that is about to use it.
JustIssued(a) ==
  \E t \in Threads : pc[t] \in {"store", "exchange"} /\ subject[t] = a /\ access[Me(t)] # a

AccessAges(a) ==
  /\ a \in accepted \cup young /\ ~ JustIssued(a)
  /\ young' = young \ {a}
  /\ accepted' \in {accepted, accepted \ {a}}
  /\ <<young', accepted'>> # <<young, accepted>>
  /\ UNCHANGED <<procVars, threadVars, diskVars, live, issued, validCookies, calls, faultVars>>

AccessRevoked(a) ==
  /\ a \in accepted
  /\ Fault("revoke")
  /\ accepted' = accepted \ {a}
  /\ UNCHANGED <<procVars, threadVars, diskVars, live, young, issued, validCookies, calls>>

\* An SPA sign-out revokes every refresh token of the client, not the cookies.
SpaSignout ==
  /\ live # {}
  /\ Fault("signout")
  /\ live' = {}
  /\ UNCHANGED <<procVars, threadVars, diskVars, accepted, young, issued, validCookies, calls>>

CookiesDie ==
  /\ validCookies # {}
  /\ Fault("cookies")
  /\ validCookies' = {}
  /\ UNCHANGED <<procVars, threadVars, diskVars, live, accepted, young, issued, calls>>

\* The process dies and is started again: its caches are empty, and the kernel
\* has closed its descriptors, which drops their flocks.
Crash(p) ==
  LET mine(f, v) == [t \in Threads |-> IF ProcOf[t] = p THEN v ELSE f[t]]
  IN  /\ Fault("crash")
      /\ lock' = [lock EXCEPT ![p] = Nobody]
      /\ token' = [token EXCEPT ![p] = "none"]
      /\ access' = [access EXCEPT ![p] = 0]
      /\ mem' = [mem EXCEPT ![p] = NoSession]
      /\ pc' = mine(pc, "idle")
      /\ fd' = mine(fd, 0)
      /\ holding' = mine(holding, FALSE)
      /\ subject' = mine(subject, 0)
      /\ retried' = mine(retried, FALSE)
      /\ outcome' = mine(outcome, "none")
      /\ UNCHANGED <<diskVars, verysVars, calls>>

----------------------------------------------------------------------------

StepWithoutSave(t) ==
  \/ TokenCached(t) \/ TokenStale(t) \/ Invalidate(t)
  \/ OpenLockFile(t) \/ TakeFlock(t) \/ Finish(t)
  \/ LoadMissing(t) \/ LoadSession(t)
  \/ RefreshRotates(t) \/ RefreshKeeps(t) \/ RefreshRefused(t) \/ RefreshLost(t)
  \/ ReauthorizeExpired(t) \/ Reauthorize(t)
  \/ GrantCode(t) \/ GrantLost(t) \/ GrantWithoutRefresh(t)
  \/ Exchange(t) \/ ExchangeRetry(t) \/ ExchangeRefused(t)
  \/ RequestFails(t)

\* What thread t does inside token() or invalidate().
ThreadStep(t) == StepWithoutSave(t) \/ StoreRefresh(t) \/ StoreFails(t)

Environment ==
  \/ \E p \in Procs : BearerAges(p) \/ Crash(p)
  \/ \E a \in 1..issued : AccessAges(a) \/ AccessRevoked(a)
  \/ SpaSignout
  \/ CookiesDie

\* Every call has been made and has ended: the only state with nothing to do.
Rest ==
  /\ calls = MaxCalls
  /\ \A t \in Threads : pc[t] = "idle"
  /\ UNCHANGED vars

Next ==
  \/ \E t \in Threads : CallToken(t) \/ CallInvalidate(t) \/ ThreadStep(t)
  \/ Environment
  \/ Rest

Spec == Init /\ [][Next]_vars

\* The operating system runs every thread, and every HTTP call ends: the client
\* has a 20 s timeout.  Calls are bounded by MaxCalls, so a lock is not
\* contended for ever and weak fairness is enough.
FairSpec == Spec /\ \A t \in Threads : WF_vars(ThreadStep(t))

----------------------------------------------------------------------------
(* Properties                                                              *)

TypeOK ==
  /\ lock \in [Procs -> Threads \cup {Nobody}]
  /\ token \in [Procs -> {"none", "fresh", "aging"}]
  /\ access \in [Procs -> Nat]
  /\ mem \in [Procs -> Sessions \cup {NoSession}]
  /\ pc \in [Threads -> Points]
  /\ fd \in [Threads -> Nat]
  /\ holding \in [Threads -> BOOLEAN]
  /\ subject \in [Threads -> Nat]
  /\ \A t \in Threads : pc[t] = "store" => subject[t] # 0
  /\ retried \in [Threads -> BOOLEAN]
  /\ outcome \in [Threads -> {"none", "ok", "expired", "error"}]
  /\ file \in Sessions \cup {NoSession}
  /\ lockIno \in Nat /\ nextIno \in Nat \ {0}
  /\ issued \in Nat \ {0}
  /\ live \in SUBSET (Nat \ {0})
  /\ accepted \in SUBSET (Nat \ {0})
  /\ young \in SUBSET (Nat \ {0})
  /\ validCookies \in SUBSET (Nat \ {0})
  /\ calls \in 0..MaxCalls
  /\ faults \in 0..MaxFaults
  /\ happened \in SUBSET FaultKinds

\* The threads of a process that are past TokenStale own its _lock: at most one.
LockOwned ==
  \A t \in Threads : pc[t] \in Minting <=> lock[Me(t)] = t

\* A mint has the inode at the lock file's path open, and holds flock on it from
\* TakeFlock to Finish.
FlockHeld ==
  \A t \in Threads :
    /\ pc[t] \in {"flock"} \cup Critical => lockIno # 0 /\ fd[t] = lockIno
    /\ holding[t] <=> pc[t] \in Critical

\* Two mints, in one process or in two, are never both between taking and
\* dropping the flock: the lock is on an inode, and exclusion holds because
\* every mint opens the same one.
FlockExclusive ==
  \A t, u \in Threads : pc[t] \in Critical /\ pc[u] \in Critical => t = u

\* The session a mint works with is the one on disk, at every call it makes to
\* Verys: a refresh token that a sibling process rotated is never presented,
\* and what is used for the exchange was stored first.
PresentsCurrent ==
  \A t \in Threads :
    pc[t] \in {"refresh", "reauth", "grant", "store", "exchange"} =>
      file # NoSession /\ mem[Me(t)] = file

\* A token storm costs one mint: while a thread mints, no thread of its process
\* already has a bearer that is good for early_s more.
MintOnlyWhenNeeded ==
  \A t \in Threads : pc[t] \in Minting => token[Me(t)] # "fresh"

\* A credential is lost only through a fault: otherwise the stored refresh token
\* is live, or a thread holds its live successor and is about to store it.
CredentialHeld ==
  file # NoSession /\ happened \cap {"crash", "lost", "disk", "signout"} = {} =>
    \/ file.rt \in live
    \/ \E t \in Threads : pc[t] = "store" /\ subject[t] \in live

\* No refresh token that nobody can present or revoke stays live at Verys,
\* unless an answer or a process was lost.
NoOrphanedCredential ==
  happened \cap {"crash", "lost", "disk"} = {} =>
    \A rt \in live :
      \/ rt = file.rt
      \/ \E t \in Threads : pc[t] = "store" /\ subject[t] = rt

\* SessionExpiredError sends the user back to an emailed code: a mint ends with
\* it only when the stored refresh token and the stored cookies are both dead.
ExpiredMeansDead ==
  \A t \in Threads :
    pc[t] = "finish" /\ outcome[t] = "expired" /\ "norefresh" \notin happened =>
      file.rt \notin live /\ file.cookies \notin validCookies

\* Without a fault every mint of a logged-in user succeeds, whatever siblings
\* rotate and whichever cached access token ages under it: one retry is enough.
NoErrorWithoutFault ==
  \A t \in Threads :
    pc[t] = "finish" /\ happened = {} /\ file # NoSession => outcome[t] = "ok"

\* session.json never goes back to an older refresh token, nor disappears.
FileNeverRegresses == [][file.rt <= file'.rt]_vars

\* Every call of token() and invalidate() returns or raises.
CallsReturn == \A t \in Threads : (pc[t] # "idle") ~> (pc[t] = "idle")

=============================================================================
