----------------------------- MODULE SessionFile -----------------------------
(***************************************************************************)
(* Session.save and Session.load (auth.py): session.json is replaced       *)
(* through session.json.tmp, a name that all savers share.  A mint saves   *)
(* under the flock; `chudp auth login` does not.  A file is an inode, its  *)
(* content the sequence of what was written at each place, and a payload   *)
(* is longer or shorter than another.                                      *)
(***************************************************************************)
EXTENDS Naturals, Sequences, FiniteSets

CONSTANTS
  Savers,    \* processes that save a session, once each
  Flocked,   \* those that do it under the flock
  Size,      \* how long each one's session is
  Earlier    \* the saver of the session that is there at first

VARIABLES
  names,   \* the inodes of session.json ("path") and session.json.tmp ("tmp"); 0: no such file
  data,    \* per inode: who wrote each place
  at,      \* where each saver is
  fd       \* the inode it writes to

vars == <<names, data, at, fd>>

Payload(w) == [n \in 1 .. Size[w] |-> w]

Init ==
  /\ names = [path |-> 1, tmp |-> 0]
  /\ data = <<Payload(Earlier)>>
  /\ at = [w \in Savers |-> "start"]
  /\ fd = [w \in Savers |-> 0]

Reach(w, point) == at' = [at EXCEPT ![w] = point]

Saving(w) == at[w] \in {"write", "replace", "cleanup"}

\* os.open(tmp, O_CREAT | O_TRUNC): a file that is there is emptied, whoever writes to it.
Open(w) ==
  /\ at[w] = "start"
  /\ w \in Flocked => \A v \in Flocked : ~ Saving(v)
  /\ IF names.tmp = 0
       THEN /\ data' = Append(data, <<>>)
            /\ names' = [names EXCEPT !.tmp = Len(data')]
            /\ fd' = [fd EXCEPT ![w] = Len(data')]
       ELSE /\ data' = [data EXCEPT ![names.tmp] = <<>>]
            /\ fd' = [fd EXCEPT ![w] = names.tmp]
            /\ UNCHANGED names
  /\ Reach(w, "write")

\* json.dump into the buffer, flush, fsync: one write from the start of the file, which
\* leaves what somebody else has written beyond it.
Write(w) ==
  /\ at[w] = "write"
  /\ data' = [data EXCEPT ![fd[w]] = Payload(w) \o SubSeq(@, Size[w] + 1, Len(@))]
  /\ Reach(w, "replace")
  /\ UNCHANGED <<names, fd>>

\* os.replace moves whatever the name stands for now; without one it raises.
Replace(w) ==
  /\ at[w] = "replace"
  /\ IF names.tmp # 0
       THEN names' = [path |-> names.tmp, tmp |-> 0] /\ Reach(w, "saved")
       ELSE Reach(w, "cleanup") /\ UNCHANGED names
  /\ UNCHANGED <<data, fd>>

\* The disk refuses the write.
Fail(w) ==
  /\ at[w] = "write"
  /\ Reach(w, "cleanup")
  /\ UNCHANGED <<names, data, fd>>

\* The handler unlinks session.json.tmp, whoever's it is by then.
Cleanup(w) ==
  /\ at[w] = "cleanup"
  /\ names' = [names EXCEPT !.tmp = 0]
  /\ Reach(w, "failed")
  /\ UNCHANGED <<data, fd>>

\* A kill leaves what is there.
Kill(w) ==
  /\ Saving(w)
  /\ Reach(w, "failed")
  /\ UNCHANGED <<names, data, fd>>

Next == \E w \in Savers : Open(w) \/ Write(w) \/ Replace(w) \/ Fail(w) \/ Cleanup(w) \/ Kill(w)

Spec == Init /\ [][Next]_vars

----------------------------------------------------------------------------

\* Session.load refuses a file that is not the JSON of one session.
Loads == \E w \in Savers \cup {Earlier} : data[names.path] = Payload(w)

\* Session.save: "Atomically replace `path`": at every moment a reader finds the session
\* of one save, whole.
AtomicReplace == Loads

=============================================================================
