---------------------------- MODULE AuthCliProofs ----------------------------
(***************************************************************************)
(* Theorems about AuthCli.  Neither command takes the flock, so little of  *)
(* what TokenProviderProofs relies on survives them: a login replaces the  *)
(* session under a mint, a logout removes the inode that mints lock.  What *)
(* is left is stated here for the histories without the other command, and *)
(* what is said of logins for those in which no two saves overlap.         *)
(***************************************************************************)
EXTENDS AuthCli, TokenProviderProofs, FiniteSetTheorems

NoLogin  == \A c \in Logins : cmd[c] = "start"
NoLogout == \A c \in Logouts : cmd[c] = "start"

\* A login between its grant and its save.
Pends(c) == cmd[c] \in {"exchange", "save"}

\* The refresh token of a pending login is its own: it is in no file, no process's
\* memory, and no thread or other login is about to store it.
Apart ==
  /\ file.rt <= issued
  /\ \A p \in Procs : mem[p].rt <= issued
  /\ \A c \in Logins : Pends(c) =>
       /\ grant[c] # 0
       /\ grant[c] # file.rt
       /\ \A p \in Procs : grant[c] # mem[p].rt
       /\ \A t \in Threads : pc[t] = "store" => grant[c] # subject[t]
       /\ \A d \in Logins \ {c} : Pends(d) => grant[c] # grant[d]
       /\ cmd[c] = "save" => saved[c].rt = grant[c]

\* What somebody is about to store is live, but for the faults that may kill it.
Kept ==
  happened \cap {"crash", "lost", "disk", "signout"} = {} =>
    /\ file = NoSession \/ file.rt \in live \/ \E t \in Threads : pc[t] = "store"
    /\ \A t \in Threads : pc[t] = "store" => subject[t] \in live
    /\ \A c \in Logins : Pends(c) => grant[c] \in live

\* Access tokens were issued, and a mint starts unretried.
Access ==
  /\ \A p \in Procs : access[p] <= issued
  /\ \A t \in Threads : subject[t] <= issued
  /\ \A t \in Threads : pc[t] \notin Critical \ {"load"} => ~ retried[t]

\* Without a fault a mint has a live refresh token until it is done, and an access token
\* it has just obtained is accepted.
Smooth ==
  happened = {} =>
    /\ file = NoSession => \A p \in Procs : mem[p] = NoSession
    /\ \A t \in Threads :
         /\ pc[t] \in {"refresh", "exchange"} => mem[Me(t)].rt \in live
         /\ pc[t] \notin {"reauth", "grant"}
         /\ pc[t] \in {"store", "exchange"} /\ subject[t] # access[Me(t)] => subject[t] \in accepted
         /\ pc[t] = "store" \/ (pc[t] = "exchange" /\ retried[t]) => subject[t] # access[Me(t)]
         /\ pc[t] = "finish" /\ mem[Me(t)] # NoSession => outcome[t] = "ok"

\* The three phases of logouts nobody overlaps: none has read a session; some are at work
\* on the only session there is; the session is gone.
BeforeLogout ==
  /\ \A c \in Logouts : cmd[c] \in {"start", "failed"}
  /\ IInv

DuringLogout ==
  /\ \E c \in Logouts : cmd[c] \in {"revoke", "unlink"}
  /\ \A c \in Logouts :
       /\ cmd[c] \in {"start", "failed", "revoke", "unlink"}
       /\ cmd[c] = "revoke" => saved[c] = file
       /\ cmd[c] = "unlink" => live = {}
  /\ \A t \in Threads : pc[t] \notin Critical
  /\ live \subseteq {file.rt}

AfterLogout ==
  /\ file = NoSession /\ live = {}
  /\ \A t \in Threads : pc[t] \notin Critical \ {"load", "finish"}

\* Saves that do not overlap: session.json.tmp is the saver's own, and it has the session
\* once it is written.
Filed ==
  /\ path \in {"absent", "whole"}
  /\ \A v, w \in Savers : at[v] # "out" /\ at[w] # "out" => v = w
  /\ \A w \in Savers : at[w] \in {"write", "replace"} => fdName[w] = "tmp"
  /\ \A w \in Savers : at[w] = "write" => tmp = Nothing("empty")
  /\ \A w \in Savers : at[w] = "replace" => tmp = Content("whole", Payload(w))

Forgetting ==
  NoLogin /\ happened = {} /\ ~ raced =>
    /\ ~ tangled /\ Filed
    /\ BeforeLogout \/ DuringLogout \/ AfterLogout

CInv ==
  /\ CliTypeOK
  /\ NoLogout /\ ~ tangled => Filed /\ Apart /\ Access /\ Locked /\ Kept /\ Smooth
  /\ Forgetting

----------------------------------------------------------------------------
(* The steps.                                                              *)

\* A step of the threads and of Verys: the commands stay where they are.
Beside ==
  /\ [Next]_vars
  /\ UNCHANGED <<cmd, saved, asked, grant>>
  /\ Watch \/ UNCHANGED <<vars, raced>>

\* A login's save when nobody sees it half done.
Saves(c) ==
  /\ cmd[c] = "save"
  /\ file' = saved[c]
  /\ Reach(c, "done")
  /\ UNCHANGED <<procVars, threadVars, lockIno, nextIno, verysVars, calls, faultVars, saved, asked, grant>>

\* An error of a command, in its save or elsewhere.
Ends(c) ==
  /\ cmd[c] # "start"
  /\ Fault("error")
  /\ Reach(c, "failed") \/ Reach(c, "ask")
  /\ UNCHANGED <<procVars, threadVars, diskVars, verysVars, calls, saved, asked, grant>>

\* A step while saves do not overlap: each is whole or nothing.
AtOnce ==
  \/ Beside
  \/ \E c \in Logouts : LogoutLoad(c) \/ LogoutRevoke(c) \/ LogoutUnlinkSession(c) \/ LogoutUnlinkLock(c)
  \/ \E c \in Logins : \/ LoginStart(c) \/ LoginAsk(c) \/ LoginAuthorize(c)
                       \/ LoginGrant(c) \/ LoginExchange(c) \/ Saves(c)
  \/ \E c \in Commands : Ends(c)

\* To the provider, a mint's save that nobody overlaps is that of TokenProvider.
LEMMA MintSaves ==
  ASSUME CliTypeOK, Filed, NEW t \in Threads, SaveStep(t)
  PROVE  /\ StoreRefresh(t) \/ StoreFails(t) \/ UNCHANGED vars
         /\ UNCHANGED commandVars
<1> USE CommandsAssumption DEF Savers, CliTypeOK, SavesOK, Filed, Due, commandVars
<1>1. CASE SaveOpens(t)
  BY <1>1 DEF SaveOpens
<1>2. CASE SaveWrites(t)
  <2>1. fdName[t] = "tmp"
    BY <1>2 DEF SaveWrites
  <2> QED
    BY <1>2, <2>1 DEF SaveWrites, vars, diskVars
<1>3. CASE SaveReplaces(t)
  <2>1. pc[t] = "store" /\ file' = Payload(t)
    BY <1>3 DEF SaveReplaces, Content
  <2>2. mem' = [mem EXCEPT ![Me(t)] = Payload(t)]
    BY <1>3 DEF SaveReplaces, Returns, Renewed, Payload
  <2> QED
    BY <1>3, <2>1, <2>2 DEF SaveReplaces, Returns, StoreRefresh, Payload
<1>4. CASE SaveMisses(t)
  BY <1>4 DEF SaveMisses, Content
<1>5. CASE SaveFails(t)
  BY <1>5 DEF SaveFails, Raises, Renewed, StoreFails
<1>6. CASE SaveCleansUp(t)
  BY <1>6 DEF SaveCleansUp
<1> QED
  BY <1>1, <1>2, <1>3, <1>4, <1>5, <1>6 DEF SaveStep

\* So it is for a login.
LEMMA LoginSaves ==
  ASSUME CliTypeOK, Filed, NEW c \in Logins, SaveStep(c), UNCHANGED raced
  PROVE  Beside \/ Saves(c) \/ Ends(c)
<1> USE CommandsAssumption DEF Savers, CliTypeOK, SavesOK, Filed, Due, commandVars
<1>0. c \notin Threads
  BY DEF Commands
<1>1. CASE SaveOpens(c)
  BY <1>1 DEF SaveOpens, Beside
<1>2. CASE SaveWrites(c)
  <2>1. fdName[c] = "tmp"
    BY <1>2 DEF SaveWrites
  <2> QED
    BY <1>2, <2>1 DEF SaveWrites, Beside, vars, diskVars
<1>3. CASE SaveReplaces(c)
  <2>1. cmd[c] = "save" /\ file' = saved[c]
    BY <1>0, <1>3 DEF SaveReplaces, Content, Payload
  <2> QED
    BY <1>0, <1>3, <2>1 DEF SaveReplaces, Returns, Saves, procVars, threadVars
<1>4. CASE SaveMisses(c)
  BY <1>4 DEF SaveMisses, Content
<1>5. CASE SaveFails(c)
  BY <1>0, <1>5 DEF SaveFails, Raises, Ends, procVars, threadVars
<1>6. CASE SaveCleansUp(c)
  BY <1>6 DEF SaveCleansUp, Beside
<1> QED
  BY <1>1, <1>2, <1>3, <1>4, <1>5, <1>6 DEF SaveStep

\* Every step from a state without overlapping saves is of that kind.
LEMMA CliStepKinds ==
  ASSUME CliTypeOK, Filed, [CliNext]_allVars
  PROVE  AtOnce
<1>1. CASE UNCHANGED allVars
  BY <1>1 DEF allVars, AtOnce, Beside, commandVars
<1>2. CASE ProviderStep /\ Watch /\ Killed /\ UNCHANGED <<commandVars, path, tmp, tangled>>
  BY <1>2 DEF ProviderStep, Next, ThreadStep, AtOnce, Beside, commandVars
<1>3. ASSUME NEW t \in Threads, SaveStep(t), Watch PROVE AtOnce
  BY <1>3, MintSaves DEF Next, ThreadStep, AtOnce, Beside, commandVars
<1>4. ASSUME NEW c \in Logouts, LogoutStep(c) PROVE AtOnce
  BY <1>4 DEF LogoutStep, AtOnce
<1>5. ASSUME NEW c \in Logins, LoginStep(c) PROVE AtOnce
  BY <1>5 DEF LoginStep, AtOnce
<1>6. ASSUME NEW c \in Logins, SaveStep(c), UNCHANGED raced PROVE AtOnce
  BY <1>6, LoginSaves DEF AtOnce, Commands
<1>7. ASSUME NEW c \in Commands, CommandFails(c) PROVE AtOnce
  <2>1. cmd[c] # "start"
    BY <1>7, CommandsAssumption DEF CommandFails, CliTypeOK, SavesOK, Savers, Commands
  <2> QED
    BY <1>7, <2>1 DEF CommandFails, LoginGivesUp, Ends, AtOnce
<1> QED
  BY <1>1, <1>2, <1>3, <1>4, <1>5, <1>6, <1>7 DEF CliNext

\* Steps of a mint that neither change a session nor issue or kill a refresh token.
Quiet(t) ==
  /\ pc[t] \in Critical \ {"store"}
  /\ \E point \in Critical \ {"store"} : pc' = [pc EXCEPT ![t] = point]
  /\ UNCHANGED <<mem, file, subject, live, issued>>
  /\ happened \subseteq happened'

\* Most steps of a mint are of that kind.
LEMMA QuietSteps ==
  ASSUME TypeOK, NEW t \in Threads,
         \/ LoadMissing(t) \/ RefreshRefused(t) \/ ReauthorizeExpired(t) \/ Reauthorize(t)
         \/ Exchange(t) \/ ExchangeRetry(t) \/ ExchangeRefused(t) \/ RequestFails(t)
  PROVE  Quiet(t)
<1> USE DEF Quiet, Critical, Goto, Leave, Fault, procVars, diskVars, verysVars, faultVars
<1>1. CASE LoadMissing(t)
  BY <1>1 DEF LoadMissing
<1>2. CASE RefreshRefused(t)
  BY <1>2 DEF RefreshRefused
<1>3. CASE ReauthorizeExpired(t)
  BY <1>3 DEF ReauthorizeExpired
<1>4. CASE Reauthorize(t)
  BY <1>4 DEF Reauthorize
<1>5. CASE Exchange(t)
  BY <1>5 DEF Exchange
<1>6. CASE ExchangeRetry(t)
  BY <1>6 DEF ExchangeRetry
<1>7. CASE ExchangeRefused(t)
  BY <1>7 DEF ExchangeRefused
<1>8. CASE RequestFails(t)
  BY <1>8 DEF RequestFails
<1> QED
  BY <1>1, <1>2, <1>3, <1>4, <1>5, <1>6, <1>7, <1>8

\* Only a grant issues a token.
LEMMA IssuedGrows ==
  ASSUME TypeOK, [Next]_vars
  PROVE  issued' \in Nat /\ issued <= issued'
<1>1. ASSUME NEW t \in Threads, MintStep(t) PROVE issued' = issued \/ issued' = issued + 1
  BY <1>1 DEF Grant, verysVars, MintStep, LoadMissing, LoadSession, RefreshRotates, RefreshKeeps, RefreshRefused,
       RefreshLost, ReauthorizeExpired, Reauthorize, GrantCode, GrantLost, GrantWithoutRefresh,
       StoreRefresh, StoreFails, Exchange, ExchangeRetry, ExchangeRefused, RequestFails
<1>2. ASSUME NEW p \in Procs, Crash(p) PROVE issued' = issued
  BY <1>2 DEF Crash, verysVars
<1>3. ASSUME Ambient PROVE issued' = issued
  BY <1>3 DEF verysVars, Ambient, BearerAges, AccessAges, AccessRevoked, SpaSignout, CookiesDie, Rest, vars
<1>4. ASSUME NEW t \in Threads, Outside(t) PROVE issued' = issued
  BY <1>4 DEF Outside, verysVars
<1>5. issued' = issued \/ issued' = issued + 1
  BY <1>1, <1>2, <1>3, <1>4, OutsideSteps, StepKinds
<1> QED
  BY <1>5 DEF TypeOK

\* Every step of the threads and of Verys is one of the following.
LEMMA SessionSteps ==
  ASSUME TypeOK, [Next]_vars
  PROVE  \/ \E t \in Threads :
               \/ Outside(t) \/ Quiet(t) \/ LoadSession(t)
               \/ RefreshRotates(t) \/ RefreshKeeps(t) \/ RefreshLost(t)
               \/ GrantCode(t) \/ GrantLost(t) \/ GrantWithoutRefresh(t)
               \/ StoreRefresh(t) \/ StoreFails(t)
         \/ \E p \in Procs : Crash(p)
         \/ Ambient
BY OutsideSteps, QuietSteps, StepKinds DEF MintStep

----------------------------------------------------------------------------
(* Types.                                                                  *)

\* What is saved is a session with a refresh token.
LEMMA PayloadTyped ==
  ASSUME CliTypeOK, NEW w \in Savers, Due(w)
  PROVE  Payload(w) \in Sessions
<1>1. CASE w \in Threads
  BY <1>1, ProcOfAssumption DEF CliTypeOK, TypeOK, Payload, Due, Sessions, NoSession, Me
<1>2. CASE w \in Logins /\ w \notin Threads
  BY <1>2 DEF CliTypeOK, CommandsOK, Payload, Due, Sessions, Commands
<1> QED
  BY <1>1, <1>2 DEF Savers

\* So is what a mint then has in memory.
LEMMA StoreTyped ==
  ASSUME TypeOK, mem' = mem \/ \E t \in Threads : pc[t] = "store" /\ mem' = [mem EXCEPT ![Me(t)].rt = subject[t]]
  PROVE  mem' \in [Procs -> Sessions \cup {NoSession}]
<1>1. mem \in [Procs -> Sessions \cup {NoSession}]
  BY DEF TypeOK
<1>2. ASSUME NEW t \in Threads, pc[t] = "store", mem' = [mem EXCEPT ![Me(t)].rt = subject[t]]
      PROVE  mem' \in [Procs -> Sessions \cup {NoSession}]
  <2>1. Me(t) \in Procs /\ subject[t] \in Nat \ {0}
    BY <1>2, ProcOfAssumption DEF Me, TypeOK
  <2>2. [mem[Me(t)] EXCEPT !.rt = subject[t]] \in Sessions
    BY <1>1, <2>1 DEF Sessions, NoSession
  <2> QED
    BY <1>1, <1>2, <2>1, <2>2
<1> QED
  BY <1>1, <1>2

\* A step of the provider moves no thread that is in a save, but for a kill.
LEMMA SaversWait ==
  ASSUME CliTypeOK, ProviderStep, NEW w \in Threads, at[w] # "out"
  PROVE  pc'[w] = "idle" \/ UNCHANGED <<pc[w], subject[w]>>
<1> USE ProcOfAssumption DEF CliTypeOK, SavesOK, TypeOK, Savers, Goto, Leave, procVars, threadVars
<1>1. ASSUME NEW t \in Threads, CallToken(t) \/ CallInvalidate(t) PROVE UNCHANGED <<pc[w], subject[w]>>
  BY <1>1, CommandsAssumption DEF CallToken, CallInvalidate, Due
<1>2. ASSUME NEW t \in Threads \ {w}, StepWithoutSave(t) PROVE UNCHANGED <<pc[w], subject[w]>>
  BY <1>2 DEF StepWithoutSave, TokenCached, TokenStale, Invalidate, OpenLockFile, TakeFlock, Finish, LoadMissing,
       LoadSession, RefreshRotates, RefreshKeeps, RefreshRefused, RefreshLost, ReauthorizeExpired, Reauthorize,
       GrantCode, GrantLost, GrantWithoutRefresh, Exchange, ExchangeRetry, ExchangeRefused, RequestFails
<1>3. ASSUME NEW p \in Procs, Crash(p) PROVE pc'[w] = "idle" \/ UNCHANGED <<pc[w], subject[w]>>
  BY <1>3 DEF Crash
<1>4. ASSUME Ambient PROVE UNCHANGED <<pc[w], subject[w]>>
  BY <1>4, AmbientLeavesThreads
<1> QED
  BY <1>1, <1>2, <1>3, <1>4 DEF ProviderStep, Environment, Ambient

\* Nor does it change the session file.
LEMMA ProviderKeepsFile ==
  ASSUME ProviderStep
  PROVE  file' = file
<1> USE DEF diskVars
<1>1. ASSUME NEW t \in Threads, CallToken(t) \/ CallInvalidate(t) PROVE file' = file
  BY <1>1 DEF CallToken, CallInvalidate
<1>2. ASSUME NEW t \in Threads, StepWithoutSave(t) PROVE file' = file
  BY <1>2 DEF StepWithoutSave, TokenCached, TokenStale, Invalidate, OpenLockFile, TakeFlock, Finish, LoadMissing,
       LoadSession, RefreshRotates, RefreshKeeps, RefreshRefused, RefreshLost, ReauthorizeExpired, Reauthorize,
       GrantCode, GrantLost, GrantWithoutRefresh, Exchange, ExchangeRetry, ExchangeRefused, RequestFails
<1>3. ASSUME NEW p \in Procs, Crash(p) PROVE file' = file
  BY <1>3 DEF Crash
<1>4. ASSUME Ambient PROVE file' = file
  BY <1>4, AmbientLeavesThreads
<1> QED
  BY <1>1, <1>2, <1>3, <1>4 DEF ProviderStep, Environment, Ambient

\* Every step of a save keeps the types, overlapped or not.
LEMMA SaveTyping ==
  ASSUME CliTypeOK, NEW w \in Savers, SaveStep(w), raced' \in BOOLEAN
  PROVE  CliTypeOK'
<1> USE CommandsAssumption, BoundsAssumption, ProcOfAssumption
    DEF CliTypeOK, CommandsOK, SavesOK, Due, At, Commands, Savers, Holding, Content, Nothing, commandVars, Meets
<1>1. CASE SaveOpens(w)
  <2>1. TypeOK' /\ issued' = issued
    BY <1>1, TypingStep DEF SaveOpens, vars, verysVars
  <2> QED
    BY <1>1, <2>1 DEF SaveOpens, vars, threadVars, diskVars, Sessions, NoSession
<1>2. CASE SaveWrites(w)
  <2>1. /\ file' \in Sessions \cup {NoSession} /\ path' \in Holding /\ (path' = "whole" <=> file' # NoSession)
        /\ tmp' \in [is : Holding, session : Sessions \cup {NoSession}]
        /\ tmp'.is = "whole" <=> tmp'.session # NoSession
    <3>1. Payload(w) \in Sessions /\ NoSession \notin Sessions
      BY <1>2, PayloadTyped DEF SaveWrites, Sessions, NoSession
    <3>2. file \in Sessions \cup {NoSession}
      BY DEF TypeOK
    <3>3. \A old : \A new \in Written(old, Payload(w)) :
            /\ new \in [is : Holding, session : Sessions \cup {NoSession}]
            /\ new.is = "whole" <=> new.session # NoSession
      BY <3>1 DEF Written
    <3>4. CASE fdName[w] = "tmp"
      BY <1>2, <3>2, <3>3, <3>4 DEF SaveWrites
    <3>5. CASE fdName[w] = "path"
      BY <1>2, <3>3, <3>5 DEF SaveWrites
    <3>6. CASE fdName[w] = "gone"
      BY <1>2, <3>2, <3>6 DEF SaveWrites
    <3> QED
      BY <3>4, <3>5, <3>6
  <2>2. TypeOK' /\ issued' = issued
    BY <1>2, <2>1 DEF SaveWrites, procVars, threadVars, verysVars, faultVars, TypeOK
  <2> QED
    BY <1>2, <2>1, <2>2 DEF SaveWrites, threadVars
<1>3. CASE SaveReplaces(w)
  <2>1. Due(w) /\ file' \in Sessions \cup {NoSession} /\ (path' = "whole" <=> file' # NoSession)
    BY <1>3 DEF SaveReplaces
  <2>2. \/ mem' = mem /\ pc' = pc
        \/ /\ w \in Threads /\ pc[w] = "store" /\ pc' = [pc EXCEPT ![w] = "exchange"] /\ cmd' = cmd
           /\ mem' = [mem EXCEPT ![Me(w)].rt = subject[w]]
    BY <1>3, <2>1 DEF SaveReplaces, Returns, Renewed, Goto
  <2>3. TypeOK' /\ issued' = issued
    <3>1. mem' \in [Procs -> Sessions \cup {NoSession}]
      BY <2>2, StoreTyped
    <3>2. pc' \in [Threads -> Points] /\ \A u \in Threads : pc'[u] = "store" => pc[u] = "store"
      BY <2>2 DEF TypeOK, Points, Minting, Critical
    <3> QED
      BY <1>3, <2>1, <3>1, <3>2 DEF SaveReplaces, verysVars, faultVars, TypeOK
  <2>4. CommandsOK'
    BY <1>3, <2>3 DEF SaveReplaces, Returns, Reach
  <2>5. \A v \in Savers \ {w} : at'[v] = at[v] /\ (Due(v) => Due(v)')
    BY <1>3 DEF SaveReplaces, Returns, Reach, Goto, TypeOK
  <2>6. \A v \in Savers \ {w} : at[v] = "cleanup" => IF v \in Threads THEN pc'[v] = "finish" ELSE cmd'[v] = "failed"
    BY <1>3 DEF SaveReplaces, Returns, Reach, Goto, TypeOK
  <2> QED
    BY <1>3, <2>1, <2>3, <2>4, <2>5, <2>6 DEF SaveReplaces, Sessions, NoSession
<1>4. ASSUME Raises(w), Due(w), NoFault \/ Fault("disk") \/ Fault("error") PROVE CliTypeOK'
  <2>1. faults' \in 0..MaxFaults /\ happened' \in SUBSET FaultKinds
    <3>1. faults \in 0..MaxFaults /\ happened \in SUBSET FaultKinds
      BY DEF TypeOK
    <3>2. CASE NoFault
      BY <3>1, <3>2 DEF NoFault, faultVars
    <3>3. ASSUME NEW kind \in FaultKinds, Fault(kind) PROVE faults' \in 0..MaxFaults /\ happened' \in SUBSET FaultKinds
      BY <3>1, <3>3 DEF Fault
    <3> QED
      BY <1>4, <3>2, <3>3 DEF FaultKinds
  <2>2. \/ mem' = mem /\ pc' = pc /\ outcome' = outcome
        \/ /\ w \in Threads /\ pc[w] = "store" /\ pc' = [pc EXCEPT ![w] = "finish"] /\ cmd' = cmd
           /\ outcome' = [outcome EXCEPT ![w] = "error"]
           /\ mem' = [mem EXCEPT ![Me(w)].rt = subject[w]]
    BY <1>4 DEF Raises, Renewed, Leave, Goto
  <2>3. TypeOK' /\ issued' = issued
    <3>1. mem' \in [Procs -> Sessions \cup {NoSession}]
      BY <2>2, StoreTyped
    <3>2. pc' \in [Threads -> Points] /\ \A u \in Threads : pc'[u] = "store" => pc[u] = "store"
      BY <2>2 DEF TypeOK, Points, Minting, Critical
    <3>3. outcome' \in [Threads -> {"none", "ok", "expired", "error"}]
      BY <2>2 DEF TypeOK
    <3> QED
      BY <1>4, <2>1, <3>1, <3>2, <3>3 DEF Raises, diskVars, verysVars, TypeOK
  <2>4. CommandsOK'
    BY <1>4, <2>3 DEF Raises, Reach
  <2>5. \A v \in Savers \ {w} : at'[v] = at[v] /\ (Due(v) => Due(v)')
    BY <1>4 DEF Raises, Reach, Leave, Goto, TypeOK
  <2>6. \A v \in Savers : at'[v] = "cleanup" => IF v \in Threads THEN pc'[v] = "finish" ELSE cmd'[v] = "failed"
    BY <1>4 DEF Raises, Reach, Leave, Goto, TypeOK
  <2> QED
    BY <1>4, <2>3, <2>4, <2>5, <2>6 DEF Raises, diskVars
<1>5. CASE SaveMisses(w)
  BY <1>4, <1>5 DEF SaveMisses
<1>6. CASE SaveFails(w)
  BY <1>4, <1>6 DEF SaveFails
<1>7. CASE SaveCleansUp(w)
  <2>1. TypeOK' /\ issued' = issued
    BY <1>7, TypingStep DEF SaveCleansUp, vars, verysVars
  <2> QED
    BY <1>7, <2>1 DEF SaveCleansUp, Unlinked, vars, threadVars, diskVars, Sessions, NoSession
<1> QED
  BY <1>1, <1>2, <1>3, <1>5, <1>6, <1>7 DEF SaveStep

\* A step that leaves the savers and the file where they are keeps what is known of saves.
LEMMA SavesAside ==
  ASSUME SavesOK, UNCHANGED <<saveVars, pc, file>>,
         \A c \in Logins : cmd'[c] = cmd[c] \/ (cmd[c] # "save" /\ at[c] # "cleanup")
  PROVE  SavesOK'
BY CommandsAssumption DEF SavesOK, saveVars, Due, Savers, Commands

\* Every step keeps the types, whoever saves when.
LEMMA CliTypingStep ==
  ASSUME CliTypeOK, [CliNext]_allVars
  PROVE  CliTypeOK'
<1> USE CommandsAssumption, BoundsAssumption
    DEF CliTypeOK, CommandsOK, Reach, Commands, LoginGivesUp
<1>1. CASE UNCHANGED allVars
  <2>1. TypeOK' /\ UNCHANGED <<saveVars, pc, file, cmd>>
    BY <1>1, TypingStep DEF allVars, commandVars, vars, threadVars, diskVars
  <2> QED
    BY <1>1, <2>1, SavesAside DEF allVars, commandVars, saveVars, vars, verysVars
<1>2. CASE ProviderStep /\ Watch /\ Killed /\ UNCHANGED <<commandVars, path, tmp, tangled>>
  <2>1. [Next]_vars
    BY <1>2 DEF ProviderStep, Next, ThreadStep
  <2>2. TypeOK' /\ issued' \in Nat /\ issued <= issued' /\ file' = file
    BY <1>2, <2>1, TypingStep, IssuedGrows, ProviderKeepsFile
  <2>3. CommandsOK'
    BY <1>2, <2>2 DEF commandVars, Watch, TypeOK
  <2>4. \A w \in Savers : at'[w] = "out" \/ (at'[w] = at[w] /\ (w \in Threads => pc'[w] # "idle"))
    BY <1>2 DEF Killed, SavesOK
  <2>5. \A w \in Threads : at'[w] # "out" => at'[w] = at[w] /\ pc'[w] = pc[w]
    BY <1>2, <2>4, SaversWait DEF Savers
  <2>6. SavesOK'
    BY <1>2, <2>2, <2>4, <2>5 DEF SavesOK, Killed, Due, Savers, commandVars
  <2> QED
    BY <2>2, <2>3, <2>6
<1>3. ASSUME NEW t \in Threads, SaveStep(t), Watch PROVE CliTypeOK'
  BY <1>3, SaveTyping DEF Watch, Savers
<1>4. ASSUME NEW c \in Logins, SaveStep(c), UNCHANGED raced PROVE CliTypeOK'
  BY <1>4, SaveTyping DEF Savers
<1>11. ASSUME NEW c \in Logouts, LogoutLoad(c) PROVE CliTypeOK'
  <2>1. TypeOK' /\ issued' = issued
    BY <1>11, TypingStep DEF LogoutLoad, vars, verysVars
  <2>2. file \in [rt : Nat, cookies : Nat]
    BY DEF TypeOK, Sessions, NoSession
  <2>9. SavesOK'
    BY <1>11, SavesAside DEF CliTypeOK, SavesOK, Savers, LogoutLoad, MayStart, vars, threadVars, diskVars
  <2> QED
    BY <1>11, <2>9, <2>1, <2>2 DEF LogoutLoad, saveVars
<1>12. ASSUME NEW c \in Logouts, LogoutRevoke(c) PROVE CliTypeOK'
  <2>1. UNCHANGED <<procVars, threadVars, diskVars, accepted, young, issued, validCookies, calls>>
    BY <1>12 DEF LogoutRevoke
  <2>2. live' \in SUBSET (Nat \ {0})
    BY <1>12 DEF LogoutRevoke, TypeOK
  <2>3. faults' \in 0..MaxFaults /\ happened' \in SUBSET FaultKinds
    <3>1. NoFault \/ Fault("error")
      BY <1>12 DEF LogoutRevoke
    <3>2. faults \in 0..MaxFaults /\ happened \in SUBSET FaultKinds
      BY DEF TypeOK
    <3>3. CASE NoFault
      BY <3>2, <3>3 DEF NoFault, faultVars
    <3>4. CASE Fault("error")
      BY <3>2, <3>4 DEF Fault, FaultKinds
    <3> QED
      BY <3>1, <3>3, <3>4
  <2>4. TypeOK'
    BY <2>1, <2>2, <2>3 DEF procVars, threadVars, diskVars, TypeOK
  <2>9. SavesOK'
    BY <1>12, SavesAside DEF CliTypeOK, SavesOK, Savers, LogoutRevoke, MayStart, vars, threadVars, diskVars
  <2> QED
    BY <1>12, <2>9, <2>1, <2>4 DEF LogoutRevoke, saveVars
<1>13. ASSUME NEW c \in Logouts, LogoutUnlinkSession(c) PROVE CliTypeOK'
  <2>1. TypeOK' /\ issued' = issued
    BY <1>13 DEF LogoutUnlinkSession, procVars, threadVars, verysVars, faultVars, TypeOK
  <2>9. SavesOK'
    BY <1>13, CommandsAssumption DEF LogoutUnlinkSession, SavesOK, Unlinked, Due, Savers, Commands, Reach, Holding, threadVars
  <2> QED
    BY <1>13, <2>9, <2>1 DEF LogoutUnlinkSession, saveVars
<1>14. ASSUME NEW c \in Logouts, LogoutUnlinkLock(c) PROVE CliTypeOK'
  <2>1. TypeOK' /\ issued' = issued
    BY <1>14 DEF LogoutUnlinkLock, procVars, threadVars, verysVars, faultVars, TypeOK
  <2>9. SavesOK'
    BY <1>14, SavesAside DEF CliTypeOK, SavesOK, Savers, LogoutUnlinkLock, MayStart, vars, threadVars, diskVars
  <2> QED
    BY <1>14, <2>9, <2>1 DEF LogoutUnlinkLock, saveVars
<1>15. ASSUME NEW c \in Logins, LoginStart(c) PROVE CliTypeOK'
  <2>1. TypeOK' /\ issued' = issued
    BY <1>15, TypingStep DEF LoginStart, vars, verysVars
  <2>2. file \in [rt : Nat, cookies : Nat]
    BY DEF TypeOK, Sessions, NoSession
  <2>9. SavesOK'
    BY <1>15, SavesAside DEF CliTypeOK, SavesOK, Savers, LoginStart, MayStart, vars, threadVars, diskVars
  <2> QED
    BY <1>15, <2>9, <2>1, <2>2 DEF LoginStart, saveVars
<1>16. ASSUME NEW c \in Logins, LoginAsk(c) PROVE CliTypeOK'
  <2> DEFINE used == {d \in Commands : asked[d]}
             cookie == Cardinality(used) + 2
  <2>1. IsFiniteSet(Commands)
    BY FS_Union
  <2>2. Cardinality(used) \in Nat
    BY <2>1, FS_Subset, FS_CardinalityType
  <2>3. cookie \in Nat \ {0}
    BY <2>2
  <2>4. /\ validCookies' = validCookies \cup {cookie}
        /\ saved' = [saved EXCEPT ![c] = [rt |-> 0, cookies |-> cookie]]
    BY <1>16 DEF LoginAsk
  <2> HIDE DEF cookie
  <2>5. TypeOK' /\ issued' = issued
    BY <1>16, <2>3, <2>4 DEF LoginAsk, procVars, threadVars, diskVars, faultVars, TypeOK
  <2>6. saved' \in [Commands -> [rt : Nat, cookies : Nat]]
    BY <2>3, <2>4
  <2>9. SavesOK'
    BY <1>16, SavesAside DEF CliTypeOK, SavesOK, Savers, LoginAsk, MayStart, vars, threadVars, diskVars
  <2> QED
    BY <1>16, <2>9, <2>5, <2>6 DEF LoginAsk, saveVars
<1>17. ASSUME NEW c \in Logins, LoginAuthorize(c) PROVE CliTypeOK'
  <2>1. TypeOK' /\ issued' = issued
    BY <1>17, TypingStep DEF LoginAuthorize, vars, verysVars
  <2>9. SavesOK'
    BY <1>17, SavesAside DEF CliTypeOK, SavesOK, Savers, LoginAuthorize, MayStart, vars, threadVars, diskVars
  <2> QED
    BY <1>17, <2>9, <2>1 DEF LoginAuthorize, saveVars
<1>18. ASSUME NEW c \in Logins, LoginGrant(c) PROVE CliTypeOK'
  <2>1. TypeOK' /\ issued' = issued + 1
    BY <1>18 DEF LoginGrant, Grant, procVars, threadVars, diskVars, faultVars, TypeOK
  <2>2. grant' \in [Commands -> 0..issued']
    BY <1>18, <2>1 DEF LoginGrant, TypeOK
  <2>9. SavesOK'
    BY <1>18, SavesAside DEF CliTypeOK, SavesOK, Savers, LoginGrant, MayStart, vars, threadVars, diskVars
  <2>3. \A d \in Logins : cmd'[d] \in {"exchange", "save"} => grant'[d] # 0
    BY <1>18 DEF LoginGrant, TypeOK
  <2> QED
    BY <1>18, <2>9, <2>1, <2>2, <2>3 DEF LoginGrant, saveVars
<1>19. ASSUME NEW c \in Logins, LoginExchange(c) PROVE CliTypeOK'
  <2>1. TypeOK' /\ issued' = issued
    BY <1>19, TypingStep DEF LoginExchange, vars, verysVars
  <2>2. grant[c] \in Nat
    BY DEF TypeOK
  <2>9. SavesOK'
    BY <1>19, SavesAside DEF CliTypeOK, SavesOK, Savers, LoginExchange, MayStart, vars, threadVars, diskVars
  <2> QED
    BY <1>19, <2>9, <2>1, <2>2 DEF LoginExchange, saveVars
<1>20. ASSUME NEW c \in Commands, CommandFails(c) PROVE CliTypeOK'
  <2>1. TypeOK' /\ issued' = issued
    BY <1>20 DEF CommandFails, Fault, procVars, threadVars, diskVars, verysVars, TypeOK, FaultKinds
  <2>9. SavesOK'
    BY <1>20, CommandsAssumption DEF CommandFails, SavesOK, Out, At, Due, Savers, Commands, Reach, LoginGivesUp,
         threadVars, diskVars, saveVars
  <2> QED
    BY <1>20, <2>9, <2>1 DEF CommandFails, saveVars
<1> QED
  BY <1>1, <1>2, <1>3, <1>4, <1>11, <1>12, <1>13, <1>14, <1>15, <1>16, <1>17, <1>18, <1>19, <1>20
     DEF CliNext, LogoutStep, LoginStep

----------------------------------------------------------------------------
(* Saves.                                                                  *)

\* No other mint of its process is at work while a thread stores.
StoresAlone == \A t, u \in Threads : pc[t] = "store" /\ pc[u] \in Critical /\ Me(u) = Me(t) => u = t

\* What a thread is about to store does not change under it.
LEMMA StoreIsStable ==
  ASSUME TypeOK, StoresAlone, [Next]_vars, NEW t \in Threads, pc[t] = "store", pc'[t] = "store"
  PROVE  mem'[Me(t)] = mem[Me(t)] /\ subject'[t] = subject[t]
<1> USE ProcOfAssumption DEF TypeOK, StoresAlone, Me, Critical, Goto, Leave, procVars, threadVars, diskVars
<1>1. ASSUME NEW u \in Threads, Outside(u) \/ Quiet(u) PROVE mem'[Me(t)] = mem[Me(t)] /\ subject'[t] = subject[t]
  BY <1>1 DEF Outside, Quiet, Points, Minting
<1>2. ASSUME NEW u \in Threads, LoadSession(u) PROVE mem'[Me(t)] = mem[Me(t)] /\ subject'[t] = subject[t]
  BY <1>2 DEF LoadSession
<1>3. ASSUME NEW u \in Threads, RefreshRotates(u) \/ RefreshKeeps(u) \/ RefreshLost(u)
      PROVE  mem'[Me(t)] = mem[Me(t)] /\ subject'[t] = subject[t]
  BY <1>3 DEF RefreshRotates, RefreshKeeps, RefreshLost
<1>4. ASSUME NEW u \in Threads, GrantCode(u) \/ GrantLost(u) \/ GrantWithoutRefresh(u)
      PROVE  mem'[Me(t)] = mem[Me(t)] /\ subject'[t] = subject[t]
  BY <1>4 DEF GrantCode, GrantLost, GrantWithoutRefresh
<1>5. ASSUME NEW u \in Threads, StoreRefresh(u) \/ StoreFails(u)
      PROVE  mem'[Me(t)] = mem[Me(t)] /\ subject'[t] = subject[t]
  BY <1>5 DEF StoreRefresh, StoreFails
<1>6. ASSUME NEW p \in Procs, Crash(p) PROVE mem'[Me(t)] = mem[Me(t)] /\ subject'[t] = subject[t]
  BY <1>6 DEF Crash
<1>7. ASSUME Ambient PROVE mem'[Me(t)] = mem[Me(t)] /\ subject'[t] = subject[t]
  BY <1>7, AmbientLeavesThreads
<1> QED
  BY <1>1, <1>2, <1>3, <1>4, <1>5, <1>6, <1>7, SessionSteps

\* Every step of a save that nobody overlaps keeps session.json.tmp the saver's own.
LEMMA FiledSave ==
  ASSUME CliTypeOK, Filed, CliTypeOK', NEW w \in Savers, SaveStep(w), ~ tangled'
  PROVE  Filed'
<1> USE CommandsAssumption DEF Filed, CliTypeOK, SavesOK, Due, At, Content, Nothing, commandVars, Meets
<1>0. ASSUME \A v \in Savers \ {w} : at'[v] = "out", at'[w] = "cleanup", UNCHANGED path PROVE Filed'
  BY <1>0
<1>9. ASSUME Meets(w) PROVE \A v \in Savers \ {w} : at[v] = "out"
  BY <1>9, Zenon DEF Meets
<1>1. CASE SaveOpens(w)
  <2>0. Meets(w)
    BY <1>1 DEF SaveOpens
  <2>1. \A v \in Savers \ {w} : at'[v] = "out"
    BY <1>1, <1>9, <2>0 DEF SaveOpens
  <2>2. at'[w] = "write" /\ fdName'[w] = "tmp" /\ UNCHANGED path
    BY <1>1 DEF SaveOpens
  <2>3. tmp' = Nothing("empty")
    BY <1>1 DEF SaveOpens
  <2> QED
    BY <2>1, <2>2, <2>3
<1>2. CASE SaveWrites(w)
  <2>0. fdName[w] = "tmp" /\ tmp.is = "empty"
    BY <1>2 DEF SaveWrites
  <2>1. Payload(w)' = Payload(w)
    BY <1>2 DEF SaveWrites, Payload, procVars, threadVars, Savers, Me
  <2>2. tmp' = Content("whole", Payload(w)) /\ UNCHANGED <<file, path, fdName>>
    BY <1>2, <2>0 DEF SaveWrites, Written
  <2> QED
    BY <1>2, <2>1, <2>2 DEF SaveWrites
<1>3. CASE SaveReplaces(w)
  BY <1>3 DEF SaveReplaces
<1>4. CASE SaveMisses(w) \/ SaveFails(w)
  <2>1. Raises(w)
    BY <1>4 DEF SaveMisses, SaveFails
  <2>2. /\ \A v \in Savers \ {w} : at'[v] = "out"
        /\ at'[w] = "cleanup" /\ UNCHANGED path
    BY <1>9, <2>1 DEF Raises
  <2> QED
    BY <1>0, <2>2
<1>5. CASE SaveCleansUp(w)
  BY <1>5 DEF SaveCleansUp
<1> QED
  BY <1>1, <1>2, <1>3, <1>4, <1>5 DEF SaveStep

\* Every step keeps saves that do not overlap whole.
LEMMA FiledStep ==
  ASSUME CliTypeOK, Filed, StoresAlone, CliTypeOK', [CliNext]_allVars, ~ tangled'
  PROVE  Filed'
<1> USE CommandsAssumption DEF CliTypeOK, SavesOK, Due
<1>1. ASSUME UNCHANGED <<path, tmp>>,
             \A w \in Savers : at'[w] = "out" \/ (at'[w] = at[w] /\ fdName'[w] = fdName[w]),
             \A w \in Savers : at'[w] = "replace" => Payload(w)' = Payload(w)
      PROVE  Filed'
  BY <1>1 DEF Filed
<1>2. CASE UNCHANGED allVars
  BY <1>1, <1>2 DEF allVars, saveVars, commandVars, vars, procVars, threadVars, Payload, Me
<1>3. CASE ProviderStep /\ Watch /\ Killed /\ UNCHANGED <<commandVars, path, tmp, tangled>>
  <2>1. [Next]_vars
    BY <1>3 DEF ProviderStep, Next, ThreadStep
  <2>2. \A w \in Savers : at'[w] = "out" \/ (at'[w] = at[w] /\ fdName'[w] = fdName[w])
    BY <1>3 DEF Killed
  <2>3. ASSUME NEW w \in Savers, at'[w] = "replace" PROVE Payload(w)' = Payload(w)
    <3>1. CASE w \in Threads
      <4>1. pc[w] = "store" /\ pc'[w] = "store"
        BY <2>2, <2>3, <3>1
      <4> QED
        BY <2>1, <3>1, <4>1, StoreIsStable DEF Payload, Me
    <3>2. CASE w \notin Threads
      BY <1>3, <3>2 DEF Payload, commandVars
    <3> QED
      BY <3>1, <3>2
  <2> QED
    BY <1>1, <1>3, <2>2, <2>3
<1>4. ASSUME NEW w \in Savers, SaveStep(w) PROVE Filed'
  BY <1>4, FiledSave
<1>5. ASSUME NEW c \in Logouts,
             LogoutLoad(c) \/ LogoutRevoke(c) \/ LogoutUnlinkLock(c)
      PROVE  Filed'
  <2>1. UNCHANGED <<saveVars, mem, subject>> /\ \A d \in Logins : saved'[d] = saved[d]
    BY <1>5 DEF LogoutLoad, LogoutRevoke, LogoutUnlinkLock, vars, procVars, threadVars, Commands, CommandsOK
  <2> QED
    BY <1>1, <2>1 DEF saveVars, Payload, Me, Savers
<1>6. ASSUME NEW c \in Logouts, LogoutUnlinkSession(c) PROVE Filed'
  BY <1>6 DEF LogoutUnlinkSession, Filed, Unlinked, procVars, threadVars, Payload, Me, Savers
<1>7. ASSUME NEW c \in Logins, LoginStep(c) PROVE Filed'
  <2>1. UNCHANGED <<saveVars, mem, subject>> /\ \A d \in Logins \ {c} : saved'[d] = saved[d]
    BY <1>7 DEF LoginStep, LoginStart, LoginAsk, LoginAuthorize, LoginGrant, LoginExchange, vars, procVars, threadVars,
         Commands, CommandsOK
  <2>2. at[c] # "replace"
    BY <1>7 DEF LoginStep, LoginStart, LoginAsk, LoginAuthorize, LoginGrant, LoginExchange, MayStart, Commands, Savers
  <2> QED
    BY <1>1, <2>1, <2>2 DEF saveVars, Payload, Me, Savers
<1>8. ASSUME NEW c \in Commands, CommandFails(c) PROVE Filed'
  <2>1. UNCHANGED <<path, tmp, mem, subject, saved>>
    BY <1>8 DEF CommandFails, saveVars, procVars, threadVars
  <2>2. \A w \in Savers : at'[w] = "out" \/ (at'[w] = at[w] /\ fdName'[w] = fdName[w])
    BY <1>8 DEF CommandFails, saveVars, Out, At, Savers
  <2> QED
    BY <1>1, <2>1, <2>2 DEF Payload, Me
<1> QED
  BY <1>2, <1>3, <1>4, <1>5, <1>6, <1>7, <1>8 DEF CliNext, LogoutStep, Savers

----------------------------------------------------------------------------
(* Pending logins.                                                         *)

\* Threads and Verys keep the tokens of pending logins apart from the others.
LEMMA ApartBeside ==
  ASSUME CliTypeOK, Apart, Access, Beside
  PROVE  Apart'
<1> USE ProcOfAssumption
    DEF TypeOK, CliTypeOK, CommandsOK, Apart, Pends, Commands, Points, Minting, Critical, Goto, Leave, Grant, Me,
        NoSession, Sessions, procVars, threadVars, diskVars, verysVars
<1>1. [Next]_vars /\ UNCHANGED <<cmd, saved, asked, grant>>
  BY DEF Beside
<1>2. ASSUME NEW t \in Threads, issued' = issued + 1, UNCHANGED <<mem, file>>,
             \/ pc' = [pc EXCEPT ![t] = "store"] /\ subject' = [subject EXCEPT ![t] = issued + 1]
             \/ pc' = [pc EXCEPT ![t] = "exchange"] /\ subject' = [subject EXCEPT ![t] = issued + 1]
             \/ pc' = [pc EXCEPT ![t] = "finish"] /\ subject' = subject
      PROVE  Apart'
  <2>1. \A u \in Threads : pc'[u] = "store" =>
          (pc[u] = "store" /\ subject'[u] = subject[u]) \/ subject'[u] = issued + 1
    BY <1>2
  <2>2. \A c \in Logins : grant[c] \in Nat /\ grant[c] <= issued
    OBVIOUS
  <2>3. file'.rt <= issued' /\ \A p \in Procs : mem'[p].rt <= issued'
    BY <1>2
  <2>4. \A c \in Logins : \A u \in Threads : Pends(c) /\ pc'[u] = "store" => grant[c] # subject'[u]
    BY <2>1, <2>2
  <2> QED
    BY <1>1, <1>2, <2>3, <2>4
<1>3. ASSUME NEW t \in Threads, RefreshRotates(t) PROVE Apart'
  BY <1>2, <1>3 DEF RefreshRotates
<1>4. ASSUME NEW t \in Threads, RefreshKeeps(t) PROVE Apart'
  BY <1>2, <1>4 DEF RefreshKeeps
<1>5. ASSUME NEW t \in Threads, RefreshLost(t) PROVE Apart'
  BY <1>2, <1>5 DEF RefreshLost
<1>6. ASSUME NEW t \in Threads, GrantCode(t) PROVE Apart'
  BY <1>2, <1>6 DEF GrantCode
<1>7. ASSUME NEW t \in Threads, GrantLost(t) PROVE Apart'
  BY <1>2, <1>7 DEF GrantLost
<1>8. ASSUME NEW t \in Threads, GrantWithoutRefresh(t) PROVE Apart'
  BY <1>2, <1>8 DEF GrantWithoutRefresh
<1>9. ASSUME NEW t \in Threads, Outside(t) PROVE Apart'
  BY <1>1, <1>9 DEF Outside
<1>10. ASSUME NEW t \in Threads, Quiet(t) PROVE Apart'
  BY <1>1, <1>10 DEF Quiet
<1>11. ASSUME NEW t \in Threads, LoadSession(t) PROVE Apart'
  <2>1. /\ UNCHANGED <<issued, file>> /\ mem' = [mem EXCEPT ![Me(t)] = file]
        /\ pc' = [pc EXCEPT ![t] = "refresh"] \/ pc' = [pc EXCEPT ![t] = "exchange"]
        /\ \A u \in Threads \ {t} : subject'[u] = subject[u]
    BY <1>11 DEF LoadSession
  <2>2. \A u \in Threads : pc'[u] = "store" => pc[u] = "store" /\ subject'[u] = subject[u]
    BY <2>1
  <2>3. \A p \in Procs : mem'[p] = file \/ mem'[p] = mem[p]
    BY <2>1
  <2> QED
    BY <1>1, <2>1, <2>2, <2>3
<1>12. ASSUME NEW t \in Threads, StoreRefresh(t) PROVE Apart'
  BY <1>1, <1>12 DEF StoreRefresh, Access
<1>13. ASSUME NEW t \in Threads, StoreFails(t) PROVE Apart'
  BY <1>1, <1>13 DEF StoreFails, Access
<1>14. ASSUME NEW p \in Procs, Crash(p) PROVE Apart'
  BY <1>1, <1>14 DEF Crash
<1>15. ASSUME Ambient PROVE Apart'
  <2>1. issued' = issued
    BY <1>15 DEF Ambient, BearerAges, AccessAges, AccessRevoked, SpaSignout, CookiesDie, Rest, vars
  <2> QED
    BY <1>1, <2>1, <1>15, AmbientLeavesThreads
<1> QED
  BY <1>1, <1>3, <1>4, <1>5, <1>6, <1>7, <1>8, <1>9, <1>10, <1>11, <1>12, <1>13, <1>14, <1>15, SessionSteps

\* Every step keeps the tokens of pending logins apart from the others.
LEMMA ApartStep ==
  ASSUME CliTypeOK, Apart, Access, AtOnce
  PROVE  Apart'
<1> USE CommandsAssumption
    DEF TypeOK, CliTypeOK, CommandsOK, Apart, Access, Pends, Commands, Reach, LoginGivesUp, NoSession, Sessions,
        vars, procVars, threadVars, diskVars, verysVars, faultVars
<1>1. ASSUME Beside PROVE Apart'
  BY <1>1, ApartBeside
<1>2. ASSUME NEW c \in Logouts, LogoutLoad(c) PROVE Apart'
  BY <1>2 DEF LogoutLoad
<1>3. ASSUME NEW c \in Logouts, LogoutRevoke(c) PROVE Apart'
  BY <1>3 DEF LogoutRevoke
<1>4. ASSUME NEW c \in Logouts, LogoutUnlinkSession(c) PROVE Apart'
  BY <1>4 DEF LogoutUnlinkSession
<1>5. ASSUME NEW c \in Logouts, LogoutUnlinkLock(c) PROVE Apart'
  BY <1>5 DEF LogoutUnlinkLock
<1>6. ASSUME NEW c \in Logins, LoginStart(c) PROVE Apart'
  BY <1>6 DEF LoginStart
<1>7. ASSUME NEW c \in Logins, LoginAsk(c) PROVE Apart'
  BY <1>7 DEF LoginAsk
<1>8. ASSUME NEW c \in Logins, LoginAuthorize(c) PROVE Apart'
  BY <1>8 DEF LoginAuthorize
<1>9. ASSUME NEW c \in Logins, LoginGrant(c) PROVE Apart'
  BY <1>9 DEF LoginGrant, Grant
<1>10. ASSUME NEW c \in Logins, LoginExchange(c) PROVE Apart'
  BY <1>10 DEF LoginExchange
<1>11. ASSUME NEW c \in Logins, Saves(c) PROVE Apart'
  BY <1>11 DEF Saves
<1>12. ASSUME NEW c \in Commands, Ends(c) PROVE Apart'
  BY <1>12 DEF Ends
<1> QED
  BY <1>1, <1>2, <1>3, <1>4, <1>5, <1>6, <1>7, <1>8, <1>9, <1>10, <1>11, <1>12 DEF AtOnce

----------------------------------------------------------------------------
(* Logins beside mints.                                                    *)

\* A command that was started stays so: a history without a logout had none before.
LEMMA LoginHistories ==
  ASSUME CliTypeOK, AtOnce, NoLogout'
  PROVE  /\ NoLogout
         /\ \/ Beside
            \/ \E c \in Logins : \/ LoginStart(c) \/ LoginAsk(c) \/ LoginAuthorize(c)
                                 \/ LoginGrant(c) \/ LoginExchange(c) \/ Saves(c)
                                 \/ Ends(c)
<1> USE CommandsAssumption DEF CliTypeOK, CommandsOK, NoLogout, Commands, Reach, LoginGivesUp
<1>1. ASSUME NEW c \in Logouts,
             LogoutLoad(c) \/ LogoutRevoke(c) \/ LogoutUnlinkSession(c) \/ LogoutUnlinkLock(c) \/ Ends(c)
      PROVE  FALSE
  BY <1>1 DEF LogoutLoad, LogoutRevoke, LogoutUnlinkSession, LogoutUnlinkLock, Ends
<1>2. \/ Beside
      \/ \E c \in Logins : \/ LoginStart(c) \/ LoginAsk(c) \/ LoginAuthorize(c)
                           \/ LoginGrant(c) \/ LoginExchange(c) \/ Saves(c)
                           \/ Ends(c)
  BY <1>1 DEF AtOnce
<1>3. \A c \in Logouts : cmd[c] = cmd'[c]
  BY <1>2 DEF Beside, LoginStart, LoginAsk, LoginAuthorize, LoginGrant, LoginExchange, Saves, Ends
<1> QED
  BY <1>2, <1>3

\* A login touches no lock.
LEMMA LoginLeavesLocks ==
  ASSUME CliTypeOK, Locked, AtOnce, NoLogout'
  PROVE  Locked'
<1>1. ASSUME Beside PROVE Locked'
  BY <1>1, LockedStep DEF Beside, CliTypeOK
<1>2. ASSUME NEW c \in Logins,
             \/ LoginStart(c) \/ LoginAsk(c) \/ LoginAuthorize(c)
             \/ LoginGrant(c) \/ LoginExchange(c) \/ Saves(c) \/ Ends(c)
      PROVE  UNCHANGED <<pc, lock, fd, holding, lockIno>>
  BY <1>2 DEF LoginStart, LoginAsk, LoginAuthorize, LoginGrant, LoginExchange, Saves, Ends,
       vars, procVars, threadVars, diskVars
<1>3. ASSUME UNCHANGED <<pc, lock, fd, holding, lockIno>> PROVE Locked'
  BY <1>3 DEF Locked, LockOwned, FlockHeld, FlockExclusive, Me
<1> QED
  BY <1>1, <1>2, <1>3, LoginHistories

\* Mints, one at a time, keep what is about to be stored live.
LEMMA KeptBeside ==
  ASSUME CliTypeOK, Apart, Locked, Kept, Beside
  PROVE  Kept'
<1> USE ProcOfAssumption
    DEF TypeOK, CliTypeOK, CommandsOK, Apart, Kept, Pends, Commands, Locked, FlockExclusive, Points, Minting, Critical, Goto, Leave,
        Fault, Grant, Me, NoSession, procVars, threadVars, diskVars, verysVars, faultVars
<1>1. [Next]_vars /\ UNCHANGED <<cmd, saved, asked, grant>>
  BY DEF Beside
<1>2. ASSUME NEW t \in Threads, Outside(t) PROVE Kept'
  BY <1>1, <1>2 DEF Outside
<1>3. ASSUME NEW t \in Threads, Quiet(t) PROVE Kept'
  BY <1>1, <1>3 DEF Quiet
<1>4. ASSUME NEW t \in Threads, LoadSession(t) PROVE Kept'
  BY <1>1, <1>4 DEF LoadSession
<1>5. ASSUME NEW t \in Threads, RefreshRotates(t) PROVE Kept'
  BY <1>1, <1>5 DEF RefreshRotates
<1>6. ASSUME NEW t \in Threads, RefreshKeeps(t) PROVE Kept'
  BY <1>1, <1>6 DEF RefreshKeeps
<1>7. ASSUME NEW t \in Threads, RefreshLost(t) PROVE Kept'
  BY <1>1, <1>7 DEF RefreshLost
<1>8. ASSUME NEW t \in Threads, GrantCode(t) PROVE Kept'
  BY <1>1, <1>8 DEF GrantCode
<1>9. ASSUME NEW t \in Threads, GrantLost(t) PROVE Kept'
  BY <1>1, <1>9 DEF GrantLost
<1>10. ASSUME NEW t \in Threads, GrantWithoutRefresh(t) PROVE Kept'
  BY <1>1, <1>10 DEF GrantWithoutRefresh
<1>11. ASSUME NEW t \in Threads, StoreRefresh(t) PROVE Kept'
  BY <1>1, <1>11 DEF StoreRefresh
<1>12. ASSUME NEW t \in Threads, StoreFails(t) PROVE Kept'
  BY <1>1, <1>12 DEF StoreFails
<1>13. ASSUME NEW p \in Procs, Crash(p) PROVE Kept'
  BY <1>13 DEF Crash
<1>14. ASSUME Ambient PROVE Kept'
  <2>1. \/ live' = live /\ happened \subseteq happened'
        \/ "signout" \in happened'
    BY <1>14 DEF Ambient, BearerAges, AccessAges, AccessRevoked, SpaSignout, CookiesDie, Rest, vars
  <2> QED
    BY <1>1, <2>1, <1>14, AmbientLeavesThreads
<1> QED
  BY <1>1, <1>2, <1>3, <1>4, <1>5, <1>6, <1>7, <1>8, <1>9, <1>10, <1>11, <1>12, <1>13, <1>14, SessionSteps

\* Without a logout, whatever is about to be stored stays live.
LEMMA KeptStep ==
  ASSUME CliTypeOK, Apart, Locked, Kept, AtOnce, NoLogout'
  PROVE  Kept'
<1> USE CommandsAssumption
    DEF TypeOK, CliTypeOK, CommandsOK, Apart, Kept, Pends, Commands, Reach, LoginGivesUp, NoSession,
        vars, procVars, threadVars, diskVars, verysVars, faultVars
<1>1. ASSUME Beside PROVE Kept'
  BY <1>1, KeptBeside
<1>2. ASSUME NEW c \in Logins, LoginStart(c) PROVE Kept'
  BY <1>2 DEF LoginStart
<1>3. ASSUME NEW c \in Logins, LoginAsk(c) PROVE Kept'
  BY <1>3 DEF LoginAsk
<1>4. ASSUME NEW c \in Logins, LoginAuthorize(c) PROVE Kept'
  BY <1>4 DEF LoginAuthorize
<1>5. ASSUME NEW c \in Logins, LoginGrant(c) PROVE Kept'
  BY <1>5 DEF LoginGrant, Grant
<1>6. ASSUME NEW c \in Logins, LoginExchange(c) PROVE Kept'
  BY <1>6 DEF LoginExchange
<1>7. ASSUME NEW c \in Logins, Saves(c) PROVE Kept'
  BY <1>7 DEF Saves
<1>8. ASSUME NEW c \in Logins, Ends(c) PROVE Kept'
  BY <1>8 DEF Ends, Fault
<1> QED
  BY <1>1, <1>2, <1>3, <1>4, <1>5, <1>6, <1>7, <1>8, LoginHistories

\* No step presents a token that was not issued, or begins a mint in mid-retry.
LEMMA AccessStep ==
  ASSUME CliTypeOK, Access, AtOnce
  PROVE  Access'
<1> USE ProcOfAssumption
    DEF TypeOK, CliTypeOK, CommandsOK, Access, Points, Minting, Critical, Goto, Leave, Grant, Me,
        procVars, threadVars, diskVars, verysVars
<1>1. ASSUME UNCHANGED <<access, subject, pc, retried>>, issued' \in Nat, issued <= issued' PROVE Access'
  BY <1>1
<1>2. ASSUME NEW t \in Threads, CallToken(t) PROVE Access'
  BY <1>2 DEF CallToken
<1>3. ASSUME NEW t \in Threads, CallInvalidate(t) PROVE Access'
  BY <1>3 DEF CallInvalidate
<1>4. ASSUME NEW t \in Threads, TokenCached(t) PROVE Access'
  BY <1>4 DEF TokenCached
<1>5. ASSUME NEW t \in Threads, TokenStale(t) PROVE Access'
  BY <1>5 DEF TokenStale
<1>6. ASSUME NEW t \in Threads, Invalidate(t) PROVE Access'
  BY <1>6 DEF Invalidate
<1>7. ASSUME NEW t \in Threads, OpenLockFile(t) PROVE Access'
  BY <1>7 DEF OpenLockFile
<1>8. ASSUME NEW t \in Threads, TakeFlock(t) PROVE Access'
  BY <1>8 DEF TakeFlock
<1>9. ASSUME NEW t \in Threads, Finish(t) PROVE Access'
  BY <1>9 DEF Finish
<1>10. ASSUME NEW t \in Threads, LoadMissing(t) PROVE Access'
  BY <1>10 DEF LoadMissing
<1>11. ASSUME NEW t \in Threads, LoadSession(t) PROVE Access'
  BY <1>11 DEF LoadSession
<1>12. ASSUME NEW t \in Threads, RefreshRotates(t) PROVE Access'
  BY <1>12 DEF RefreshRotates
<1>13. ASSUME NEW t \in Threads, RefreshKeeps(t) PROVE Access'
  BY <1>13 DEF RefreshKeeps
<1>14. ASSUME NEW t \in Threads, RefreshRefused(t) PROVE Access'
  BY <1>14 DEF RefreshRefused
<1>15. ASSUME NEW t \in Threads, RefreshLost(t) PROVE Access'
  BY <1>15 DEF RefreshLost
<1>16. ASSUME NEW t \in Threads, ReauthorizeExpired(t) PROVE Access'
  BY <1>16 DEF ReauthorizeExpired
<1>17. ASSUME NEW t \in Threads, Reauthorize(t) PROVE Access'
  BY <1>17 DEF Reauthorize
<1>18. ASSUME NEW t \in Threads, GrantCode(t) PROVE Access'
  BY <1>18 DEF GrantCode
<1>19. ASSUME NEW t \in Threads, GrantLost(t) PROVE Access'
  BY <1>19 DEF GrantLost
<1>20. ASSUME NEW t \in Threads, GrantWithoutRefresh(t) PROVE Access'
  BY <1>20 DEF GrantWithoutRefresh
<1>21. ASSUME NEW t \in Threads, StoreRefresh(t) PROVE Access'
  BY <1>21 DEF StoreRefresh
<1>22. ASSUME NEW t \in Threads, StoreFails(t) PROVE Access'
  BY <1>22 DEF StoreFails
<1>23. ASSUME NEW t \in Threads, Exchange(t) PROVE Access'
  BY <1>23 DEF Exchange
<1>24. ASSUME NEW t \in Threads, ExchangeRetry(t) PROVE Access'
  BY <1>24 DEF ExchangeRetry
<1>25. ASSUME NEW t \in Threads, ExchangeRefused(t) PROVE Access'
  BY <1>25 DEF ExchangeRefused
<1>26. ASSUME NEW t \in Threads, RequestFails(t) PROVE Access'
  BY <1>26 DEF RequestFails
<1>27. ASSUME NEW p \in Procs, Crash(p) PROVE Access'
  BY <1>27 DEF Crash
<1>28. ASSUME Ambient PROVE Access'
  <2>1. UNCHANGED <<access, subject, pc, retried, issued>>
    BY <1>28 DEF Ambient, BearerAges, AccessAges, AccessRevoked, SpaSignout, CookiesDie, Rest, vars
  <2> QED
    BY <1>1, <2>1
<1>29. ASSUME Beside PROVE Access'
  <2>1. [Next]_vars
    BY <1>29 DEF Beside
  <2> HIDE DEF TypeOK, CliTypeOK, CommandsOK, Access
  <2> QED
    BY <2>1, <1>2, <1>3, <1>4, <1>5, <1>6, <1>7, <1>8, <1>9, <1>10, <1>11, <1>12, <1>13, <1>14, <1>15, <1>16, <1>17, <1>18, <1>19, <1>20, <1>21, <1>22, <1>23, <1>24, <1>25, <1>26, <1>27, <1>28, StepKinds DEF MintStep
<1>30. ASSUME NEW c \in Commands,
             \/ LogoutLoad(c) \/ LogoutRevoke(c) \/ LogoutUnlinkSession(c) \/ LogoutUnlinkLock(c)
             \/ LoginStart(c) \/ LoginAsk(c) \/ LoginAuthorize(c)
             \/ LoginGrant(c) \/ LoginExchange(c) \/ Saves(c) \/ Ends(c)
      PROVE  /\ UNCHANGED <<access, subject, pc, retried>>
             /\ issued' = issued \/ issued' = issued + 1
  BY <1>30 DEF LogoutLoad, LogoutRevoke, LogoutUnlinkSession, LogoutUnlinkLock, LoginStart, LoginAsk,
       LoginAuthorize, LoginGrant, LoginExchange, Saves, Ends, vars
<1>31. ASSUME NEW c \in Commands,
             \/ LogoutLoad(c) \/ LogoutRevoke(c) \/ LogoutUnlinkSession(c) \/ LogoutUnlinkLock(c)
             \/ LoginStart(c) \/ LoginAsk(c) \/ LoginAuthorize(c)
             \/ LoginGrant(c) \/ LoginExchange(c) \/ Saves(c) \/ Ends(c)
      PROVE  Access'
  BY <1>1, <1>30, <1>31
<1> QED
  BY <1>29, <1>31 DEF AtOnce, Commands

\* Without faults, every step of a mint that nothing but logins disturbs goes well.
LEMMA SmoothBeside ==
  ASSUME TypeOK, Access, Locked, Kept, Smooth, [Next]_vars
  PROVE  Smooth'
<1> USE ProcOfAssumption, NobodyAssumption
    DEF TypeOK, Access, Locked, LockOwned, FlockExclusive, Kept, Smooth, Points, Minting, Critical, Goto, Leave,
        Fault, Grant, Me, NoSession, procVars, threadVars, diskVars, verysVars, faultVars
<1>1. ASSUME NEW t \in Threads, CallToken(t) PROVE Smooth'
  BY <1>1 DEF CallToken
<1>2. ASSUME NEW t \in Threads, CallInvalidate(t) PROVE Smooth'
  BY <1>2 DEF CallInvalidate
<1>3. ASSUME NEW t \in Threads, TokenCached(t) PROVE Smooth'
  BY <1>3 DEF TokenCached
<1>4. ASSUME NEW t \in Threads, TokenStale(t) PROVE Smooth'
  BY <1>4 DEF TokenStale
<1>5. ASSUME NEW t \in Threads, Invalidate(t) PROVE Smooth'
  BY <1>5 DEF Invalidate
<1>6. ASSUME NEW t \in Threads, OpenLockFile(t) PROVE Smooth'
  BY <1>6 DEF OpenLockFile
<1>7. ASSUME NEW t \in Threads, TakeFlock(t) PROVE Smooth'
  BY <1>7 DEF TakeFlock
<1>8. ASSUME NEW t \in Threads, Finish(t) PROVE Smooth'
  BY <1>8 DEF Finish
<1>9. ASSUME NEW t \in Threads, LoadMissing(t) PROVE Smooth'
  BY <1>9 DEF LoadMissing
<1>10. ASSUME NEW t \in Threads, LoadSession(t) PROVE Smooth'
  BY <1>10 DEF LoadSession
<1>11. ASSUME NEW t \in Threads, RefreshRotates(t) PROVE Smooth'
  BY <1>11 DEF RefreshRotates
<1>12. ASSUME NEW t \in Threads, RefreshKeeps(t) PROVE Smooth'
  BY <1>12 DEF RefreshKeeps
<1>13. ASSUME NEW t \in Threads, RefreshRefused(t) PROVE Smooth'
  BY <1>13 DEF RefreshRefused
<1>14. ASSUME NEW t \in Threads, RefreshLost(t) PROVE Smooth'
  BY <1>14 DEF RefreshLost
<1>15. ASSUME NEW t \in Threads, ReauthorizeExpired(t) PROVE Smooth'
  BY <1>15 DEF ReauthorizeExpired
<1>16. ASSUME NEW t \in Threads, Reauthorize(t) PROVE Smooth'
  BY <1>16 DEF Reauthorize
<1>17. ASSUME NEW t \in Threads, GrantCode(t) PROVE Smooth'
  BY <1>17 DEF GrantCode
<1>18. ASSUME NEW t \in Threads, GrantLost(t) PROVE Smooth'
  BY <1>18 DEF GrantLost
<1>19. ASSUME NEW t \in Threads, GrantWithoutRefresh(t) PROVE Smooth'
  BY <1>19 DEF GrantWithoutRefresh
<1>20. ASSUME NEW t \in Threads, StoreRefresh(t) PROVE Smooth'
  BY <1>20 DEF StoreRefresh
<1>21. ASSUME NEW t \in Threads, StoreFails(t) PROVE Smooth'
  BY <1>21 DEF StoreFails
<1>22. ASSUME NEW t \in Threads, Exchange(t) PROVE Smooth'
  BY <1>22 DEF Exchange
<1>23. ASSUME NEW t \in Threads, ExchangeRetry(t) PROVE Smooth'
  BY <1>23 DEF ExchangeRetry
<1>24. ASSUME NEW t \in Threads, ExchangeRefused(t) PROVE Smooth'
  BY <1>24 DEF ExchangeRefused
<1>25. ASSUME NEW t \in Threads, RequestFails(t) PROVE Smooth'
  BY <1>25 DEF RequestFails
<1>26. ASSUME NEW p \in Procs, Crash(p) PROVE Smooth'
  BY <1>26 DEF Crash
<1>27. ASSUME Ambient PROVE Smooth'
  <2>1. ASSUME NEW p \in Procs, BearerAges(p) PROVE Smooth'
    BY <2>1 DEF BearerAges
  <2>2. ASSUME NEW a \in 1..issued, AccessAges(a) PROVE Smooth'
    BY <2>2 DEF AccessAges, JustIssued
  <2>3. ASSUME NEW a \in 1..issued, AccessRevoked(a) PROVE Smooth'
    BY <2>3 DEF AccessRevoked
  <2>4. ASSUME SpaSignout PROVE Smooth'
    BY <2>4 DEF SpaSignout
  <2>5. ASSUME CookiesDie PROVE Smooth'
    BY <2>5 DEF CookiesDie
  <2>6. ASSUME Rest \/ UNCHANGED vars PROVE Smooth'
    BY <2>6 DEF Rest, vars
  <2> QED
    BY <1>27, <2>1, <2>2, <2>3, <2>4, <2>5, <2>6 DEF Ambient
<1> HIDE DEF TypeOK, Access, Locked, Kept, Smooth
<1> QED
  BY <1>1, <1>2, <1>3, <1>4, <1>5, <1>6, <1>7, <1>8, <1>9, <1>10, <1>11, <1>12, <1>13, <1>14, <1>15, <1>16, <1>17, <1>18, <1>19, <1>20, <1>21, <1>22, <1>23, <1>24, <1>25, <1>26, <1>27, StepKinds DEF MintStep

\* Logins leave a mint's session, its refresh token and its access token usable.
LEMMA SmoothStep ==
  ASSUME CliTypeOK, Apart, Access, Locked, Kept, Smooth, AtOnce, NoLogout'
  PROVE  Smooth'
<1> USE ProcOfAssumption, CommandsAssumption
    DEF TypeOK, CliTypeOK, CommandsOK, Apart, Smooth, Pends, Commands, Me, NoSession,
        vars, procVars, threadVars, diskVars, verysVars, faultVars
<1>1. ASSUME Beside PROVE Smooth'
  BY <1>1, SmoothBeside DEF Beside
<1>2. ASSUME NEW c \in Logins, LoginStart(c) PROVE Smooth'
  BY <1>2 DEF LoginStart
<1>3. ASSUME NEW c \in Logins, LoginAsk(c) PROVE Smooth'
  BY <1>3 DEF LoginAsk
<1>4. ASSUME NEW c \in Logins, LoginAuthorize(c) PROVE Smooth'
  BY <1>4 DEF LoginAuthorize
<1>5. ASSUME NEW c \in Logins, LoginGrant(c) PROVE Smooth'
  BY <1>5 DEF LoginGrant, Grant
<1>6. ASSUME NEW c \in Logins, LoginExchange(c) PROVE Smooth'
  BY <1>6 DEF LoginExchange
<1>7. ASSUME NEW c \in Logins, Saves(c) PROVE Smooth'
  BY <1>7 DEF Saves
<1>8. ASSUME NEW c \in Logins, Ends(c) PROVE Smooth'
  BY <1>8 DEF Ends, Fault
<1> QED
  BY <1>1, <1>2, <1>3, <1>4, <1>5, <1>6, <1>7, <1>8, LoginHistories

----------------------------------------------------------------------------
(* Logouts that nobody overlaps.                                           *)

\* Faults stay on record.
LEMMA HappenedGrows ==
  ASSUME TypeOK, [Next]_vars
  PROVE  happened \subseteq happened'
<1>1. ASSUME NEW t \in Threads, MintStep(t) PROVE happened \subseteq happened'
  BY <1>1 DEF Fault, faultVars, MintStep, LoadMissing, LoadSession, RefreshRotates, RefreshKeeps, RefreshRefused,
       RefreshLost, ReauthorizeExpired, Reauthorize, GrantCode, GrantLost, GrantWithoutRefresh,
       StoreRefresh, StoreFails, Exchange, ExchangeRetry, ExchangeRefused, RequestFails
<1>2. ASSUME NEW p \in Procs, Crash(p) PROVE happened \subseteq happened'
  BY <1>2 DEF Crash, Fault
<1>3. ASSUME Ambient PROVE happened \subseteq happened'
  BY <1>3 DEF Fault, faultVars, Ambient, BearerAges, AccessAges, AccessRevoked, SpaSignout, CookiesDie, Rest, vars
<1>4. ASSUME NEW t \in Threads, Outside(t) PROVE happened \subseteq happened'
  BY <1>4 DEF Outside, faultVars
<1> QED
  BY <1>1, <1>2, <1>3, <1>4, OutsideSteps, StepKinds

\* A history without a login, a fault or an overlap had none before.
LEMMA LogoutHistories ==
  ASSUME CliTypeOK, AtOnce, NoLogin', happened' = {}, ~ raced'
  PROVE  /\ NoLogin /\ happened = {} /\ ~ raced
         /\ \/ Beside
            \/ \E c \in Logouts :
                 LogoutLoad(c) \/ LogoutRevoke(c) \/ LogoutUnlinkSession(c) \/ LogoutUnlinkLock(c)
<1> USE CommandsAssumption DEF CliTypeOK, CommandsOK, NoLogin, Commands, Reach, LoginGivesUp
<1>1. ASSUME NEW c \in Logins,
             \/ LoginStart(c) \/ LoginAsk(c) \/ LoginAuthorize(c)
             \/ LoginGrant(c) \/ LoginExchange(c) \/ Saves(c)
      PROVE  FALSE
  BY <1>1 DEF LoginStart, LoginAsk, LoginAuthorize, LoginGrant, LoginExchange, Saves
<1>2. ASSUME NEW c \in Commands, Ends(c) PROVE FALSE
  BY <1>2 DEF Ends, Fault
<1>3. \/ Beside
      \/ \E c \in Logouts :
           LogoutLoad(c) \/ LogoutRevoke(c) \/ LogoutUnlinkSession(c) \/ LogoutUnlinkLock(c)
  BY <1>1, <1>2 DEF AtOnce
<1>4. ASSUME Beside PROVE NoLogin /\ happened = {} /\ ~ raced
  <2>1. UNCHANGED cmd
    BY <1>4 DEF Beside
  <2>3. raced => raced'
    <3>1. CASE Watch
      BY <3>1, Zenon DEF Watch
    <3>2. CASE UNCHANGED raced
      BY <3>2
    <3> QED
      BY <1>4, <3>1, <3>2 DEF Beside
  <2>2. happened \subseteq happened'
    BY <1>4, HappenedGrows DEF Beside
  <2> QED
    BY <2>1, <2>2, <2>3
<1>5. ASSUME NEW c \in Logouts,
             LogoutLoad(c) \/ LogoutRevoke(c) \/ LogoutUnlinkSession(c) \/ LogoutUnlinkLock(c)
      PROVE  NoLogin /\ happened = {} /\ ~ raced
  BY <1>5 DEF LogoutLoad, LogoutRevoke, LogoutUnlinkSession, LogoutUnlinkLock, Fault, NoFault, faultVars, vars
<1> QED
  BY <1>3, <1>4, <1>5

\* The first logout to read a session finds all that is live in it.
LEMMA BeforeStep ==
  ASSUME CliTypeOK, BeforeLogout, AtOnce, NoLogin', happened' = {}, ~ raced'
  PROVE  BeforeLogout' \/ DuringLogout'
<1> USE CommandsAssumption DEF CliTypeOK, CommandsOK, Commands, Reach
<1>1. ASSUME Beside PROVE BeforeLogout'
  BY <1>1, IInvStep DEF Beside, BeforeLogout
<1>2. ASSUME NEW c \in Logouts, LogoutLoad(c), file = NoSession PROVE BeforeLogout'
  <2>1. IInv'
    BY <1>2, IInvStep DEF LogoutLoad, BeforeLogout
  <2> QED
    BY <1>2, <2>1 DEF LogoutLoad, BeforeLogout
<1>3. ASSUME NEW c \in Logouts, LogoutLoad(c), file # NoSession PROVE DuringLogout'
  <2>1. /\ cmd' = [cmd EXCEPT ![c] = "revoke"] /\ saved' = [saved EXCEPT ![c] = file]
        /\ UNCHANGED <<file, live, pc>>
        /\ \A t \in Threads : pc[t] \notin Critical
    BY <1>3 DEF LogoutLoad, vars, diskVars, verysVars, threadVars
  <2>2. live \subseteq {file.rt}
    <3>1. NoOrphanedCredential /\ happened = {}
      BY LogoutHistories DEF BeforeLogout, IInv
    <3> QED
      BY <2>1, <3>1 DEF NoOrphanedCredential, Critical
  <2> QED
    BY <2>1, <2>2 DEF DuringLogout, BeforeLogout
<1>4. ASSUME NEW c \in Logouts, LogoutRevoke(c) \/ LogoutUnlinkSession(c) \/ LogoutUnlinkLock(c) PROVE FALSE
  BY <1>4 DEF LogoutRevoke, LogoutUnlinkSession, LogoutUnlinkLock, BeforeLogout
<1> QED
  BY <1>1, <1>2, <1>3, <1>4, LogoutHistories

\* While a logout revokes and unlinks, no mint that would notice moves.
LEMMA DuringStep ==
  ASSUME CliTypeOK, DuringLogout, AtOnce, NoLogin', happened' = {}, ~ raced'
  PROVE  DuringLogout' \/ AfterLogout'
<1> USE CommandsAssumption DEF CliTypeOK, CommandsOK, Commands, Reach
<1>1. ASSUME Beside PROVE DuringLogout'
  <2>1. [Next]_vars /\ UNCHANGED <<cmd, saved>>
    BY <1>1 DEF Beside
  <2>2. \A t \in Threads : pc'[t] \notin Critical
    BY <1>1 DEF Beside, Watch, DuringLogout, vars, threadVars
  <2>3. UNCHANGED <<file, live>>
    <3>1. ASSUME NEW t \in Threads, MintStep(t) PROVE FALSE
      BY <3>1, MintStepStaysCritical DEF StaysCritical, DuringLogout
    <3>2. ASSUME NEW t \in Threads, Outside(t) PROVE UNCHANGED <<file, live>>
      BY <3>2 DEF Outside, verysVars
    <3>3. ASSUME NEW p \in Procs, Crash(p) PROVE UNCHANGED <<file, live>>
      BY <3>3 DEF Crash, diskVars, verysVars
    <3>4. ASSUME Ambient PROVE UNCHANGED <<file, live>>
      BY <3>4 DEF Ambient, BearerAges, AccessAges, AccessRevoked, SpaSignout, CookiesDie, Rest, vars, Fault,
           diskVars, verysVars
    <3> QED
      BY <2>1, <3>1, <3>2, <3>3, <3>4, OutsideSteps, StepKinds
  <2> QED
    BY <2>1, <2>2, <2>3 DEF DuringLogout
<1>2. ASSUME NEW c \in Logouts, LogoutLoad(c) PROVE DuringLogout'
  <2>1. /\ cmd[c] = "start" /\ saved' = [saved EXCEPT ![c] = file]
        /\ cmd' = [cmd EXCEPT ![c] = "failed"] \/ cmd' = [cmd EXCEPT ![c] = "revoke"]
    BY <1>2 DEF LogoutLoad, MayStart
  <2>2. UNCHANGED <<file, live, pc>>
    BY <1>2 DEF LogoutLoad, vars, diskVars, verysVars, threadVars
  <2>3. \E d \in Logouts : cmd'[d] \in {"revoke", "unlink"}
    BY <2>1 DEF DuringLogout
  <2>4. \A d \in Logouts :
          /\ cmd'[d] \in {"start", "failed", "revoke", "unlink"}
          /\ cmd'[d] = "revoke" => saved'[d] = file
          /\ cmd'[d] = "unlink" => live = {}
    BY <2>1 DEF DuringLogout
  <2> QED
    BY <2>2, <2>3, <2>4 DEF DuringLogout
<1>3. ASSUME NEW c \in Logouts, LogoutRevoke(c) PROVE DuringLogout'
  <2>1. /\ cmd[c] = "revoke" /\ live' = live \ {saved[c].rt}
        /\ cmd' = [cmd EXCEPT ![c] = "unlink"] /\ UNCHANGED <<file, pc, saved>>
    BY <1>3 DEF LogoutRevoke, Fault, diskVars, threadVars
  <2>2. live' = {}
    BY <2>1 DEF DuringLogout
  <2> QED
    BY <2>1, <2>2 DEF DuringLogout
<1>4. ASSUME NEW c \in Logouts, LogoutUnlinkSession(c) PROVE AfterLogout'
  BY <1>4 DEF LogoutUnlinkSession, DuringLogout, AfterLogout, verysVars, threadVars
<1>5. ASSUME NEW c \in Logouts, LogoutUnlinkLock(c) PROVE FALSE
  BY <1>5 DEF LogoutUnlinkLock, DuringLogout
<1> QED
  BY <1>1, <1>2, <1>3, <1>4, <1>5, LogoutHistories

\* Once the session is gone a mint finds nothing to work with.
LEMMA AfterStep ==
  ASSUME CliTypeOK, AfterLogout, AtOnce, NoLogin', happened' = {}, ~ raced'
  PROVE  AfterLogout'
<1> USE CommandsAssumption DEF CliTypeOK, CommandsOK, Commands, Reach, AfterLogout
<1>1. ASSUME Beside PROVE AfterLogout'
  <2>1. [Next]_vars
    BY <1>1 DEF Beside
  <2>2. ASSUME NEW t \in Threads, MintStep(t) PROVE AfterLogout'
    <3>1. pc[t] \in {"load", "finish"}
      BY <2>2, MintStepStaysCritical DEF StaysCritical
    <3>2. LoadMissing(t)
      BY <2>2, <3>1 DEF MintStep, LoadSession, RefreshRotates, RefreshKeeps, RefreshRefused, RefreshLost,
           ReauthorizeExpired, Reauthorize, GrantCode, GrantLost, GrantWithoutRefresh,
           StoreRefresh, StoreFails, Exchange, ExchangeRetry, ExchangeRefused, RequestFails
    <3> QED
      BY <3>2 DEF LoadMissing, Leave, Goto, TypeOK, diskVars, verysVars
  <2>3. ASSUME NEW t \in Threads, Outside(t) PROVE AfterLogout'
    BY <2>3 DEF Outside, TypeOK, Points, Minting, Critical, verysVars
  <2>4. ASSUME NEW p \in Procs, Crash(p) PROVE AfterLogout'
    BY <2>4 DEF Crash, Fault
  <2>5. ASSUME Ambient PROVE AfterLogout'
    BY <2>5 DEF Ambient, BearerAges, AccessAges, AccessRevoked, SpaSignout, CookiesDie, Rest, vars, Fault,
         diskVars, verysVars, threadVars
  <2> QED
    BY <2>1, <2>2, <2>3, <2>4, <2>5, OutsideSteps, StepKinds
<1>2. ASSUME NEW c \in Logouts,
             LogoutLoad(c) \/ LogoutRevoke(c) \/ LogoutUnlinkSession(c) \/ LogoutUnlinkLock(c)
      PROVE  AfterLogout'
  BY <1>2 DEF LogoutLoad, LogoutRevoke, LogoutUnlinkSession, LogoutUnlinkLock, vars, diskVars, verysVars, threadVars
<1> QED
  BY <1>1, <1>2, LogoutHistories

----------------------------------------------------------------------------
(* The inductive invariant and the theorems.                               *)

\* The inductive invariant holds initially.
LEMMA CInvInit == CliInit => CInv
<1> SUFFICES ASSUME CliInit PROVE CInv
  OBVIOUS
<1>1. IInv
  BY IInvInit DEF CliInit
<1>2. CliTypeOK
  <2>1. TypeOK /\ issued = 1
    BY <1>1 DEF CliInit, Init, IInv
  <2>2. grant \in [Commands -> 0..issued]
    BY <2>1 DEF CliInit
  <2>3. CommandsOK
    BY <2>2 DEF CliInit, CommandsOK, NoSession, Commands
  <2>4. SavesOK
    BY <2>1 DEF CliInit, SavesOK, Holding, Nothing, Content, Sessions
  <2> QED
    BY <2>1, <2>3, <2>4 DEF CliTypeOK
<1>3. Apart /\ Access
  BY DEF CliInit, Init, Apart, Access, Pends, Commands, NoSession
<1>4. Locked
  BY <1>1 DEF IInv
<1>5. Kept /\ Smooth
  BY DEF CliInit, Init, Kept, Smooth, Pends, Commands, NoSession
<1>6. BeforeLogout
  BY <1>1 DEF CliInit, BeforeLogout, Commands
<1>7. ~ tangled /\ Filed
  BY DEF CliInit, Filed
<1> QED
  BY <1>2, <1>3, <1>4, <1>5, <1>6, <1>7 DEF CInv, Forgetting

\* A command that was started is never back at its start.
LEMMA StartedStay ==
  ASSUME CliTypeOK, [CliNext]_allVars, NEW c \in Commands, cmd'[c] = "start"
  PROVE  cmd[c] = "start"
<1> USE CommandsAssumption DEF CliTypeOK, CommandsOK, Reach, LoginGivesUp, Commands
<1>1. CASE UNCHANGED allVars
  BY <1>1 DEF allVars, commandVars
<1>2. CASE ProviderStep /\ Watch /\ Killed /\ UNCHANGED <<commandVars, path, tmp, tangled>>
  BY <1>2 DEF commandVars
<1>3. ASSUME NEW w \in Savers, SaveStep(w) PROVE cmd[c] = "start"
  BY <1>3 DEF SaveStep, SaveOpens, SaveWrites, SaveReplaces, Returns, SaveMisses, SaveFails, Raises, SaveCleansUp,
       commandVars
<1>4. ASSUME NEW d \in Logouts, LogoutStep(d) PROVE cmd[c] = "start"
  BY <1>4 DEF LogoutStep, LogoutLoad, LogoutRevoke, LogoutUnlinkSession, LogoutUnlinkLock
<1>5. ASSUME NEW d \in Logins, LoginStep(d) PROVE cmd[c] = "start"
  BY <1>5 DEF LoginStep, LoginStart, LoginAsk, LoginAuthorize, LoginGrant, LoginExchange
<1>6. ASSUME NEW d \in Commands, CommandFails(d) PROVE cmd[c] = "start"
  BY <1>6 DEF CommandFails
<1> QED
  BY <1>1, <1>2, <1>3, <1>4, <1>5, <1>6 DEF CliNext, Savers

\* Saves that have overlapped stay on record.
LEMMA TangledStays ==
  ASSUME CliTypeOK, [CliNext]_allVars, tangled
  PROVE  tangled'
<1>1. CASE UNCHANGED allVars \/ (ProviderStep /\ Watch /\ Killed /\ UNCHANGED <<commandVars, path, tmp, tangled>>)
  BY <1>1 DEF allVars, saveVars
<1>2. ASSUME NEW w \in Savers, SaveStep(w) PROVE tangled'
  BY <1>2 DEF SaveStep, SaveOpens, SaveWrites, SaveReplaces, SaveMisses, SaveFails, Raises, SaveCleansUp, Meets
<1>3. ASSUME NEW d \in Commands, LogoutStep(d) \/ LoginStep(d) \/ CommandFails(d) PROVE tangled'
  BY <1>3 DEF LogoutStep, LogoutLoad, LogoutRevoke, LogoutUnlinkSession, LogoutUnlinkLock,
       LoginStep, LoginStart, LoginAsk, LoginAuthorize, LoginGrant, LoginExchange, CommandFails, saveVars
<1> QED
  BY <1>1, <1>2, <1>3 DEF CliNext, Savers, Commands

\* So do faults and overlaps with a logout.
LEMMA RecordsStay ==
  ASSUME CliTypeOK, [CliNext]_allVars
  PROVE  happened \subseteq happened' /\ (raced => raced')
<1> USE DEF faultVars, Fault, NoFault
<1>1. CASE UNCHANGED allVars
  BY <1>1 DEF allVars, vars
<1>2. CASE ProviderStep /\ Watch /\ Killed /\ UNCHANGED <<commandVars, path, tmp, tangled>>
  <2>1. [Next]_vars /\ TypeOK
    BY <1>2 DEF ProviderStep, Next, ThreadStep, CliTypeOK
  <2> QED
    BY <1>2, <2>1, HappenedGrows, Zenon DEF Watch
<1>3. ASSUME NEW w \in Savers, SaveStep(w), Watch \/ UNCHANGED raced PROVE happened \subseteq happened' /\ (raced => raced')
  <2>1. happened \subseteq happened'
    BY <1>3 DEF SaveStep, SaveOpens, SaveWrites, SaveReplaces, SaveMisses, SaveFails, SaveCleansUp, vars
  <2>2. raced => raced'
    BY <1>3, Zenon DEF Watch
  <2> QED
    BY <2>1, <2>2
<1>4. ASSUME NEW d \in Logouts, LogoutStep(d) PROVE happened \subseteq happened' /\ (raced => raced')
  <2>1. ASSUME LogoutLoad(d) PROVE happened \subseteq happened' /\ (raced => raced')
    <3>1. happened' = happened /\ raced' = (raced \/ \E t \in Threads : pc[t] \in Critical)
      BY <2>1 DEF LogoutLoad, vars
    <3> QED
      BY <3>1, Zenon
  <2>2. ASSUME LogoutRevoke(d) \/ LogoutUnlinkSession(d) \/ LogoutUnlinkLock(d)
        PROVE  happened \subseteq happened' /\ (raced => raced')
    BY <2>2 DEF LogoutRevoke, LogoutUnlinkSession, LogoutUnlinkLock
  <2> QED
    BY <1>4, <2>1, <2>2 DEF LogoutStep
<1>5. ASSUME NEW d \in Logins, LoginStep(d) PROVE happened \subseteq happened' /\ (raced => raced')
  BY <1>5 DEF LoginStep, LoginStart, LoginAsk, LoginAuthorize, LoginGrant, LoginExchange, vars
<1>6. ASSUME NEW d \in Commands, CommandFails(d) PROVE happened \subseteq happened' /\ (raced => raced')
  BY <1>6 DEF CommandFails
<1> QED
  BY <1>1, <1>2, <1>3, <1>4, <1>5, <1>6 DEF CliNext, Savers

\* Mints under one flock do not overlap in their saves.
LEMMA MintsDoNotTangle ==
  ASSUME CliTypeOK, [CliNext]_allVars, NoLogin, ~ tangled,
         \A t, u \in Threads : pc[t] = "store" /\ pc[u] \in Critical => t = u
  PROVE  ~ tangled'
<1> USE CommandsAssumption DEF CliTypeOK, SavesOK, Due, NoLogin
<1>1. CASE UNCHANGED allVars \/ (ProviderStep /\ Watch /\ Killed /\ UNCHANGED <<commandVars, path, tmp, tangled>>)
  BY <1>1 DEF allVars, saveVars
<1>2. ASSUME NEW w \in Savers, SaveStep(w) PROVE ~ tangled'
  <2>1. \A v \in Savers : at[v] # "out" => v \in Threads /\ pc[v] \in {"store", "finish"}
    BY DEF Savers
  <2>2. Due(w) => w \in Threads /\ \A v \in Savers \ {w} : at[v] = "out"
    BY <2>1 DEF Savers, Critical
  <2> QED
    BY <1>2, <2>2 DEF SaveStep, SaveOpens, SaveWrites, SaveReplaces, SaveMisses, SaveFails, Raises, SaveCleansUp, Meets
<1>3. ASSUME NEW d \in Commands, LogoutStep(d) \/ LoginStep(d) \/ CommandFails(d) PROVE ~ tangled'
  BY <1>3 DEF LogoutStep, LogoutLoad, LogoutRevoke, LogoutUnlinkSession, LogoutUnlinkLock,
       LoginStep, LoginStart, LoginAsk, LoginAuthorize, LoginGrant, LoginExchange, CommandFails, saveVars
<1> QED
  BY <1>1, <1>2, <1>3 DEF CliNext, Savers, Commands

\* Every step keeps the inductive invariant.
LEMMA CInvStep == CInv /\ [CliNext]_allVars => CInv'
<1> SUFFICES ASSUME CInv, [CliNext]_allVars PROVE CInv'
  OBVIOUS
<1>1. CliTypeOK /\ CliTypeOK'
  BY CliTypingStep DEF CInv
<1>2. tangled => tangled'
  BY <1>1, TangledStays
<1>3. ASSUME NoLogout', ~ tangled' PROVE Filed' /\ Apart' /\ Access' /\ Locked' /\ Kept' /\ Smooth'
  <2>1. NoLogout
    BY <1>1, <1>3, StartedStay DEF NoLogout, Commands
  <2>2. Filed /\ Apart /\ Access /\ Locked /\ Kept /\ Smooth
    BY <1>2, <1>3, <2>1 DEF CInv
  <2>3. AtOnce
    BY <1>1, <2>2, CliStepKinds
  <2>4. StoresAlone
    BY <2>2 DEF StoresAlone, Locked, FlockExclusive, Critical
  <2> QED
    BY <1>1, <1>3, <2>2, <2>3, <2>4, FiledStep, ApartStep, AccessStep, LoginLeavesLocks, KeptStep, SmoothStep
<1>4. ASSUME NoLogin', happened' = {}, ~ raced'
      PROVE  ~ tangled' /\ Filed' /\ (BeforeLogout' \/ DuringLogout' \/ AfterLogout')
  <2>1. NoLogin /\ happened = {} /\ ~ raced
    BY <1>1, <1>4, StartedStay, RecordsStay DEF NoLogin, Commands
  <2>2. ~ tangled /\ Filed /\ (BeforeLogout \/ DuringLogout \/ AfterLogout)
    BY <2>1 DEF CInv, Forgetting
  <2>3. AtOnce
    BY <1>1, <2>2, CliStepKinds
  <2>4. \A t, u \in Threads : pc[t] = "store" /\ pc[u] \in Critical => t = u
    BY <2>2 DEF BeforeLogout, IInv, Locked, FlockExclusive, DuringLogout, AfterLogout, Critical
  <2>5. StoresAlone
    BY <2>4 DEF StoresAlone
  <2>6. ~ tangled'
    BY <1>1, <2>1, <2>2, <2>4, MintsDoNotTangle
  <2> QED
    BY <1>1, <1>4, <2>2, <2>3, <2>5, <2>6, FiledStep, BeforeStep, DuringStep, AfterStep
<1> QED
  BY <1>1, <1>3, <1>4 DEF CInv, Forgetting

\* The inductive invariant holds in every reachable state.
THEOREM CliInvariance == CliSpec => []CInv
<1>1. CInv /\ [CliNext]_allVars => CInv'
  BY CInvStep
<1> QED
  BY <1>1, CInvInit, PTL DEF CliSpec

\* Every behaviour of the commands beside the mints keeps the variables in their types:
\* what a login saves is a session with a refresh token.
THEOREM CliTyping == CliSpec => []CliTypeOK
<1>1. CInv => CliTypeOK
  BY DEF CInv
<1> QED
  BY <1>1, CliInvariance, PTL

\* While no two saves overlap, session.json is whole, and whoever saves last, a login
\* without the flock or a mint with it, saves a live token.
THEOREM LoginIsSafe == CliSpec => []LoginKeepsCredential
<1>1. CInv => LoginKeepsCredential
  BY DEF CInv, Filed, Kept, LoginKeepsCredential, CredentialHeld, Started, NoLogout
<1> QED
  BY <1>1, CliInvariance, PTL

\* Logins whose saves overlap no other make no mint of a process that has seen a session
\* fail.
THEOREM LoginIsInvisible == CliSpec => []LoginDisturbsNoMint
<1>1. CInv => LoginDisturbsNoMint
  BY DEF CInv, Smooth, LoginDisturbsNoMint, Started, NoLogout
<1> QED
  BY <1>1, CliInvariance, PTL

\* A logout that no mint overlaps leaves no session and no live refresh token behind.
THEOREM LogoutIsFinal == CliSpec => []LogoutForgets
<1>1. ASSUME CInv PROVE LogoutForgets
  <2> SUFFICES ASSUME NEW c \in Logouts, cmd[c] = "done", ~ raced, Started(Logins) = {}, happened = {}
               PROVE  file = NoSession /\ live = {}
    BY DEF LogoutForgets
  <2>1. NoLogin
    BY DEF NoLogin, Started
  <2>2. BeforeLogout \/ DuringLogout \/ AfterLogout
    BY <1>1, <2>1 DEF CInv, Forgetting
  <2>3. ~ BeforeLogout /\ ~ DuringLogout
    BY DEF BeforeLogout, DuringLogout
  <2> QED
    BY <2>2, <2>3 DEF AfterLogout
<1> QED
  BY <1>1, CliInvariance, PTL
=============================================================================
