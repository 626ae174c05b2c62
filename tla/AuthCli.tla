------------------------------ MODULE AuthCli ------------------------------
(***************************************************************************)
(* `chudp auth login` and `chudp auth logout` (cli.py) beside the token    *)
(* providers of other chudp processes.  Both commands change the session   *)
(* file, the lock file and the refresh tokens at Verys, and neither takes  *)
(* the flock a mint works under.  So a login may save while a mint does,   *)
(* and Session.save is taken apart here: both write session.json.tmp and   *)
(* rename it.  `file` is what Session.load finds at session.json.          *)
(***************************************************************************)
EXTENDS TokenProvider

CONSTANTS
  Logins,      \* runs of `chudp auth login`
  Logouts,     \* runs of `chudp auth logout`
  MaxCommands  \* bound: commands started in a behaviour

ASSUME CommandsAssumption ==
  /\ IsFiniteSet(Logins) /\ IsFiniteSet(Logouts) /\ Logins \cap Logouts = {}
  /\ Threads \cap (Logins \cup Logouts) = {}
  /\ MaxCommands \in Nat

Commands == Logins \cup Logouts
Savers == Threads \cup Logins

VARIABLES
  cmd,      \* where each command is
  saved,    \* the session it read, or the one it has minted
  asked,    \* login: the emailed code is in use (not the saved cookies)
  grant,    \* login: the pair issued to it, 0 before
  raced,    \* history: a mint overlapped a logout before the session was unlinked
  at,       \* where each saver is in Session.save
  fdName,   \* the name that the file it has open goes by now, if any
  path,     \* what there is at session.json: nothing, a whole session (`file`), or less
  tmp,      \* the same of session.json.tmp, with the session
  tangled   \* history: a save began or failed while another one was under way

commandVars == <<cmd, saved, asked, grant>>
saveVars == <<at, fdName, path, tmp, tangled>>
allVars == <<vars, commandVars, raced, saveVars>>

\* What is in a file: no bytes yet, one session, or one written over a longer other one.
Holding == {"absent", "empty", "whole", "mixed"}
Content(what, session) == [is |-> what, session |-> session]
Nothing(what) == Content(what, NoSession)

CliInit ==
  /\ Init
  /\ cmd = [c \in Commands |-> "start"]
  /\ saved = [c \in Commands |-> NoSession]
  /\ asked = [c \in Commands |-> FALSE]
  /\ grant = [c \in Commands |-> 0]
  /\ raced = FALSE
  /\ at = [w \in Savers |-> "out"]
  /\ fdName = [w \in Savers |-> "gone"]
  /\ path = (IF file = NoSession THEN "absent" ELSE "whole")
  /\ tmp = Nothing("absent")
  /\ tangled = FALSE

Reach(c, point) == cmd' = [cmd EXCEPT ![c] = point]

Started(commands) == {c \in commands : cmd[c] # "start"}

At(w, point) == at' = [at EXCEPT ![w] = point]

Out(w) == At(w, "out") /\ fdName' = [fdName EXCEPT ![w] = "gone"]

\* A file that loses its name stays with those that have it open.
Unlinked(name) == [w \in Savers |-> IF fdName[w] = name THEN "gone" ELSE fdName[w]]

MayStart(c) == cmd[c] = "start" /\ Cardinality(Started(Commands)) < MaxCommands

----------------------------------------------------------------------------
(* auth_logout                                                             *)

LogoutLoad(c) ==
  /\ MayStart(c)
  /\ saved' = [saved EXCEPT ![c] = file]
  /\ IF file = NoSession THEN Reach(c, "failed") ELSE Reach(c, "revoke")
  /\ raced' = (raced \/ \E t \in Threads : pc[t] \in Critical)
  /\ UNCHANGED <<vars, asked, grant, saveVars>>

\* Mutant: logout only deletes.
LogoutWithoutRevoke(c) ==
  /\ cmd[c] = "revoke"
  /\ Reach(c, "unlink")
  /\ UNCHANGED <<vars, saved, asked, grant, raced, saveVars>>

\* VerysClient.revoke is best effort: an error is logged and logout goes on.
LogoutRevoke(c) ==
  /\ cmd[c] = "revoke"
  /\ \/ live' = live \ {saved[c].rt} /\ NoFault
     \/ live' = live /\ Fault("error")
  /\ Reach(c, "unlink")
  /\ UNCHANGED <<procVars, threadVars, diskVars, accepted, young, issued, validCookies, calls,
                 saved, asked, grant, raced, saveVars>>

LogoutUnlinkSession(c) ==
  /\ cmd[c] = "unlink"
  /\ file' = NoSession /\ path' = "absent"
  /\ fdName' = Unlinked("path")
  /\ Reach(c, "unlinkLock")
  /\ UNCHANGED <<procVars, threadVars, lockIno, nextIno, verysVars, calls, faultVars, saved, asked, grant, raced,
                 at, tmp, tangled>>

LogoutUnlinkLock(c) ==
  /\ cmd[c] = "unlinkLock"
  /\ lockIno' = 0
  /\ Reach(c, "done")
  /\ UNCHANGED <<procVars, threadVars, file, nextIno, verysVars, calls, faultVars, saved, asked, grant, raced, saveVars>>

----------------------------------------------------------------------------
(* auth_login                                                              *)

\* Without --force a saved session is tried first; its cookies may still work.  A file
\* that does not load ends the command.
LoginStart(c) ==
  /\ MayStart(c)
  /\ \/ /\ file # NoSession
        /\ saved' = [saved EXCEPT ![c] = file]
        /\ Reach(c, "authorize")
     \/ path # "absent" /\ file = NoSession /\ Reach(c, "failed") /\ UNCHANGED saved
     \/ Reach(c, "ask") /\ UNCHANGED saved
  /\ UNCHANGED <<vars, asked, grant, raced, saveVars>>

\* send_code and verify_code: Verys sets new cookies.
LoginAsk(c) ==
  LET cookie == Cardinality({d \in Commands : asked[d]}) + 2    \* a number not yet used
  IN  /\ cmd[c] = "ask"
      /\ validCookies' = validCookies \cup {cookie}
      /\ saved' = [saved EXCEPT ![c] = [rt |-> 0, cookies |-> cookie]]
      /\ asked' = [asked EXCEPT ![c] = TRUE]
      /\ Reach(c, "authorize")
      /\ UNCHANGED <<procVars, threadVars, diskVars, live, accepted, young, issued, calls, faultVars, grant, raced,
                     saveVars>>

\* An AuthError sends the saved-cookie attempt to the emailed code, and ends the other.
LoginGivesUp(c) == IF asked[c] THEN Reach(c, "failed") ELSE Reach(c, "ask")

LoginAuthorize(c) ==
  /\ cmd[c] = "authorize"
  /\ IF saved[c].cookies \in validCookies THEN Reach(c, "grant") ELSE LoginGivesUp(c)
  /\ UNCHANGED <<vars, saved, asked, grant, raced, saveVars>>

\* Mutant: a login revokes the refresh token it is about to replace.
LoginGrantRevokesOld(c) ==
  /\ cmd[c] = "grant"
  /\ Grant(issued + 1, (live \ {file.rt}) \cup {issued + 1}, {})
  /\ grant' = [grant EXCEPT ![c] = issued + 1]
  /\ Reach(c, "exchange")
  /\ UNCHANGED <<procVars, threadVars, diskVars, calls, faultVars, saved, asked, raced, saveVars>>

LoginGrant(c) ==
  /\ cmd[c] = "grant"
  /\ Grant(issued + 1, live \cup {issued + 1}, {})
  /\ grant' = [grant EXCEPT ![c] = issued + 1]
  /\ Reach(c, "exchange")
  /\ UNCHANGED <<procVars, threadVars, diskVars, calls, faultVars, saved, asked, raced, saveVars>>

\* Mutant: the session keeps the refresh token it was read with.
LoginKeepsOldToken(c) ==
  /\ cmd[c] = "exchange"
  /\ IF grant[c] \in accepted THEN Reach(c, "save") ELSE LoginGivesUp(c)
  /\ UNCHANGED <<vars, saved, asked, grant, raced, saveVars>>

\* mint_session proves the role by one exchange; only then is there a session.
LoginExchange(c) ==
  /\ cmd[c] = "exchange"
  /\ IF grant[c] \in accepted
       THEN /\ saved' = [saved EXCEPT ![c].rt = grant[c]]
            /\ Reach(c, "save")
       ELSE LoginGivesUp(c) /\ UNCHANGED saved
  /\ UNCHANGED <<vars, asked, grant, raced, saveVars>>

\* Verys answers with an error (an AuthError), or an httpx error or a kill ends the
\* command; what it had in session.json.tmp stays.
CommandFails(c) ==
  /\ \/ cmd[c] \notin {"start", "done", "failed"}
     \/ c \in Logins /\ at[c] = "cleanup"
  /\ Fault("error")
  /\ \/ cmd[c] \in {"authorize", "grant", "exchange"} /\ LoginGivesUp(c)
     \/ Reach(c, "failed")
  /\ IF c \in Logins THEN Out(c) /\ UNCHANGED <<path, tmp, tangled>> ELSE UNCHANGED saveVars
  /\ UNCHANGED <<procVars, threadVars, diskVars, verysVars, calls, saved, asked, grant, raced>>

----------------------------------------------------------------------------
(* Session.save, by a mint (in the place of StoreRefresh and StoreFails)   *)
(* and by a login                                                          *)

Due(w) == IF w \in Threads THEN pc[w] = "store" ELSE cmd[w] = "save"

Payload(w) == IF w \in Threads THEN [mem[Me(w)] EXCEPT !.rt = subject[w]] ELSE saved[w]

\* Note a saver that finds another one at work.
Meets(w) == tangled' = (tangled \/ \E v \in Savers \ {w} : at[v] # "out")

\* os.open(tmp, O_CREAT | O_TRUNC): a file that is there is emptied, whoever writes to it.
SaveOpens(w) ==
  /\ Due(w) /\ at[w] = "out"
  /\ At(w, "write")
  /\ fdName' = [fdName EXCEPT ![w] = "tmp"]
  /\ tmp' = Nothing("empty")
  /\ Meets(w)
  /\ UNCHANGED <<vars, commandVars, path>>

\* What a write from the start of a file makes of it: who writes the shorter session
\* leaves the end of the longer one.
Written(old, session) ==
  {Content("whole", session)} \cup (IF old.is = "empty" THEN {} ELSE {Nothing("mixed")})

\* json.dump, flush and fsync, to the open file, whatever its name is by now.
SaveWrites(w) ==
  /\ at[w] = "write"
  /\ At(w, "replace")
  /\ CASE fdName[w] = "tmp" -> tmp' \in Written(tmp, Payload(w)) /\ UNCHANGED <<file, path>>
       [] fdName[w] = "path" -> /\ \E new \in Written(Content(path, file), Payload(w)) :
                                     path' = new.is /\ file' = new.session
                                /\ UNCHANGED tmp
       [] fdName[w] = "gone" -> UNCHANGED <<file, path, tmp>>
  /\ UNCHANGED <<procVars, threadVars, lockIno, nextIno, verysVars, calls, faultVars, commandVars, fdName, tangled>>

\* A mint goes on to the exchange, a login is done.  What a mint's session in memory has
\* is set here and not before the save: nobody reads it in between.
Renewed(w) == mem' = [mem EXCEPT ![Me(w)].rt = subject[w]]

Returns(w) ==
  IF w \in Threads THEN Renewed(w) /\ Goto(w, "exchange") /\ UNCHANGED cmd
                   ELSE Reach(w, "done") /\ UNCHANGED <<mem, pc>>

\* An error is on its way to the caller; the handler of save comes first.
Raises(w) ==
  /\ At(w, "cleanup")
  /\ IF w \in Threads THEN Renewed(w) /\ Leave(w, "error") /\ UNCHANGED cmd
                      ELSE Reach(w, "failed") /\ UNCHANGED <<mem, pc, outcome>>
  /\ Meets(w)
  /\ UNCHANGED <<lock, token, access, fd, holding, subject, retried, diskVars, verysVars, calls,
                 saved, asked, grant, fdName, path, tmp>>

\* os.replace moves whatever has the name now.
SaveReplaces(w) ==
  /\ at[w] = "replace" /\ tmp.is # "absent"
  /\ path' = tmp.is /\ file' = tmp.session
  /\ tmp' = Nothing("absent")
  /\ At(w, "out")
  /\ fdName' = [v \in Savers |-> IF v # w /\ fdName[v] = "tmp" THEN "path" ELSE "gone"]
  /\ Returns(w)
  /\ UNCHANGED <<lock, token, access, fd, holding, subject, retried, outcome, lockIno, nextIno, verysVars, calls,
                 faultVars, saved, asked, grant, tangled>>

\* Without the file os.replace raises.
SaveMisses(w) == at[w] = "replace" /\ tmp.is = "absent" /\ Raises(w) /\ NoFault

\* The disk ends the save.
SaveFails(w) == Due(w) /\ Raises(w) /\ Fault(IF w \in Threads THEN "disk" ELSE "error")

\* The handler unlinks session.json.tmp, whoever's it is, and raises again.
SaveCleansUp(w) ==
  /\ at[w] = "cleanup"
  /\ tmp' = Nothing("absent")
  /\ At(w, "out")
  /\ fdName' = [v \in Savers |-> IF v = w THEN "gone" ELSE Unlinked("tmp")[v]]
  /\ UNCHANGED <<vars, commandVars, path, tangled>>

SaveStep(w) ==
  \/ SaveOpens(w) \/ SaveWrites(w) \/ SaveReplaces(w) \/ SaveMisses(w)
  \/ SaveFails(w) \/ SaveCleansUp(w)

----------------------------------------------------------------------------

LogoutStep(c) ==
  LogoutLoad(c) \/ LogoutRevoke(c) \/ LogoutUnlinkSession(c) \/ LogoutUnlinkLock(c)

LoginStep(c) ==
  \/ LoginStart(c) \/ LoginAsk(c) \/ LoginAuthorize(c)
  \/ LoginGrant(c) \/ LoginExchange(c)

\* Note a mint that takes the flock while a logout is under way.
Watch ==
  raced' = (\/ raced
            \/ /\ \E c \in Logouts : cmd[c] \in {"revoke", "unlink"}
               /\ \E t \in Threads : pc'[t] \in Critical)

\* A thread in a save does nothing else.
ProviderStep ==
  \/ \E t \in Threads : CallToken(t) \/ CallInvalidate(t) \/ (at[t] = "out" /\ StepWithoutSave(t))
  \/ Environment
  \/ Rest

\* A thread that dies in a save is out of it; its file stays.
Killed ==
  /\ at' = [w \in Savers |-> IF w \in Threads /\ pc'[w] = "idle" THEN "out" ELSE at[w]]
  /\ fdName' = [w \in Savers |-> IF w \in Threads /\ pc'[w] = "idle" THEN "gone" ELSE fdName[w]]

CliNext ==
  \/ ProviderStep /\ Watch /\ Killed /\ UNCHANGED <<commandVars, path, tmp, tangled>>
  \/ \E t \in Threads : SaveStep(t) /\ Watch
  \/ \E c \in Logouts : LogoutStep(c)
  \/ \E c \in Logins : LoginStep(c) \/ (SaveStep(c) /\ UNCHANGED raced)
  \/ \E c \in Commands : CommandFails(c)

CliSpec == CliInit /\ [][CliNext]_allVars

----------------------------------------------------------------------------
(* Properties                                                              *)

CommandsOK ==
  /\ cmd \in [Commands -> {"start", "revoke", "unlink", "unlinkLock", "ask", "authorize",
                           "grant", "exchange", "save", "done", "failed"}]
  /\ saved \in [Commands -> [rt : Nat, cookies : Nat]]
  /\ asked \in [Commands -> BOOLEAN]
  /\ grant \in [Commands -> 0..issued]
  /\ \A c \in Logins : cmd[c] \in {"exchange", "save"} => grant[c] # 0
  /\ \A c \in Logins : cmd[c] = "save" => saved[c].rt # 0
  /\ raced \in BOOLEAN /\ tangled \in BOOLEAN

SavesOK ==
  /\ at \in [Savers -> {"out", "write", "replace", "cleanup"}]
  /\ \A w \in Savers : at[w] \in {"write", "replace"} => Due(w)
  /\ \A w \in Savers : at[w] = "cleanup" => IF w \in Threads THEN pc[w] = "finish" ELSE cmd[w] = "failed"
  /\ fdName \in [Savers -> {"tmp", "path", "gone"}]
  /\ path \in Holding /\ (path = "whole" <=> file # NoSession)
  /\ tmp \in [is : Holding, session : Sessions \cup {NoSession}]
  /\ tmp.is = "whole" <=> tmp.session # NoSession

CliTypeOK == TypeOK /\ CommandsOK /\ SavesOK

\* A login works without the flock: it replaces the session under mints that have read
\* it and are about to replace it too.  Unless two saves overlap, session.json loads
\* whenever it is there, and a live refresh token is in it or about to be.
LoginKeepsCredential ==
  Started(Logouts) = {} /\ ~ tangled => path \in {"absent", "whole"} /\ CredentialHeld

\* A login is invisible to the mints it races, although it replaces the session under
\* them: without a fault, and unless two saves have overlapped, a mint of a process that
\* has seen a session succeeds.
LoginDisturbsNoMint ==
  \A t \in Threads :
    pc[t] = "finish" /\ happened = {} /\ Started(Logouts) = {} /\ ~ tangled /\ mem[Me(t)] # NoSession =>
      outcome[t] = "ok"

\* Once a logout that no mint overlapped is done, nothing of the session is left:
\* no file, and no refresh token that Verys would still take.  Nobody logged in.
LogoutForgets ==
  (\E c \in Logouts : cmd[c] = "done") /\ ~ raced /\ Started(Logins) = {} /\ happened = {} =>
    file = NoSession /\ live = {}

=============================================================================
