-------------------------- MODULE CacheBuildProofs --------------------------
(***************************************************************************)
(* Theorems about CacheBuild, for any days of both tables, any lookbacks   *)
(* and any number of files written, commands, crashes and upgrades.        *)
(***************************************************************************)
EXTENDS CacheBuild, Extrema

----------------------------------------------------------------------------
(* Newest                                                                  *)

\* The greatest of some numbers and 0.
LEMMA GreatestValue ==
  ASSUME NEW c \in Nat, NEW V \in SUBSET (0 .. c), NEW m, m = Max({0} \cup V)
  PROVE  m \in 0 .. c /\ (\A v \in V : v <= m) /\ (m = 0 \/ m \in V)
<1>1. {0} \cup V \subseteq Nat /\ \A x \in {0} \cup V : x <= c
  OBVIOUS
<1>2. m \in {0} \cup V /\ \A y \in {0} \cup V : m >= y
  BY <1>1, MaxIsGreatest
<1>3. QED
  BY <1>1, <1>2

\* The greater of two numbers.
LEMMA GreaterOfTwo ==
  ASSUME NEW c \in Nat, NEW a \in 0 .. c, NEW b \in 0 .. c
  PROVE  /\ Max({a, b}) \in 0 .. c /\ a <= Max({a, b}) /\ b <= Max({a, b})
         /\ Max({a, b}) \in {a, b}
<1>1. {a, b} \subseteq Nat /\ {a, b} # {} /\ \A x \in {a, b} : x <= c
  OBVIOUS
<1>2. Max({a, b}) \in {a, b} /\ \A y \in {a, b} : Max({a, b}) >= y
  BY <1>1, MaxIsGreatest
<1>3. QED
  BY <1>1, <1>2

\* The newest mtime is that of a file, if there is one, and no file's is greater.
LEMMA NewestIsGreatest ==
  ASSUME TypeOK, NEW S \in SUBSET Files
  PROVE  /\ Newest(S) \in Stamps
         /\ \A f \in S : raw[f] <= Newest(S)
         /\ Newest(S) = 0 \/ \E f \in S : Newest(S) = raw[f]
<1> DEFINE V == {raw[f] : f \in S}
<1>1. clock \in Nat /\ V \in SUBSET (0 .. clock) /\ \A f \in S : raw[f] \in V
  BY CachesAssumption DEF TypeOK, Stamps
<1>2. Newest(S) = Max({0} \cup V) /\ \A v \in V : \E f \in S : v = raw[f]
  BY DEF Newest
<1> HIDE DEF V
<1>3. QED
  BY <1>1, <1>2, GreatestValue DEF Stamps

----------------------------------------------------------------------------
(* Types                                                                   *)

\* The initial state is well typed.
LEMMA InitTyping == Init => TypeOK
BY CachesAssumption DEF Init, TypeOK, Stamps, Commands, Idle, NoBars, NoFrame, Meta

\* A download, a removal and an upgrade keep the types.
LEMMA RawTyping ==
  ASSUME TypeOK,
         \/ \E f \in Files : WriteTmp(f) \/ PutInPlace(f) \/ RemoveFile(f)
         \/ \E c \in {"bars", "frame"} : Upgrade(c)
  PROVE  TypeOK'
<1> USE CachesAssumption DEF TypeOK, Stamps, Commands, rawVars, barsVars, frameVars
<1>1. ASSUME NEW f \in Files, WriteTmp(f) PROVE TypeOK'
  <2>1. clock \in Nat /\ clock' = clock + 1 /\ clock' \in 0 .. MaxStamps /\ 0 .. clock \subseteq 0 .. clock'
    BY <1>1 DEF WriteTmp, Stamp
  <2>2. tmp' \in [Files -> Stamps']
    BY <1>1, <2>1 DEF WriteTmp
  <2>3. QED
    BY <1>1, <2>1, <2>2 DEF WriteTmp
<1>2. ASSUME NEW f \in Files, PutInPlace(f) PROVE TypeOK'
  BY <1>2 DEF PutInPlace, Late, Unlisted
<1>3. ASSUME NEW f \in Files, RemoveFile(f) PROVE TypeOK'
  BY <1>3 DEF RemoveFile, Event
<1>4. ASSUME NEW c \in {"bars", "frame"}, Upgrade(c) PROVE TypeOK'
  BY <1>4 DEF Upgrade, Event
<1>5. QED
  BY <1>1, <1>2, <1>3, <1>4

\* The next file to read is one of those still to read.
LEMMA NextIsUnread ==
  ASSUME NEW S \in SUBSET Files, S # {}
  PROVE  Min(S) \in S
BY CachesAssumption, MinIsLeast DEF Files

\* The record of a command that is not running is well typed.
LEMMA IdleTyping ==
  ASSUME clock \in Nat
  PROVE  /\ Idle(Ticks) \in Commands({"idle", "stat", "read", "written", "replaced", "meta"}, Ticks)
         /\ Idle(Candles) \in Commands({"idle", "loaded", "stated", "read", "replaced", "meta"}, Candles)
BY DEF Idle, Commands, Stamps

\* So does every step of a `resample`.
LEMMA ResampleTyping ==
  ASSUME TypeOK,
         \/ ListTicks \/ StatTick
         \/ \E force \in BOOLEAN : Resample(force)
         \/ ReadTicks \/ WriteBars \/ ReplaceBars \/ TruncateBarsMeta \/ WriteBarsMeta \/ CrashResample
  PROVE  TypeOK'
<1> DEFINE Points == {"idle", "stat", "read", "written", "replaced", "meta"}
<1>1. /\ clock \in Nat /\ build \in Commands(Points, Ticks) /\ Ticks \in SUBSET Files
      /\ Idle(Ticks) \in Commands(Points, Ticks) /\ \A f \in Files : raw[f] \in Stamps
  BY CachesAssumption, IdleTyping DEF TypeOK, Files
<1>2. ASSUME NEW force \in BOOLEAN, Resample(force) PROVE TypeOK'
  <2>1. build' \in Commands(Points, Ticks)
    BY <1>1, <1>2 DEF Resample, Commands
  <2>2. runs' \in 0 .. MaxRuns
    BY <1>2, CachesAssumption DEF TypeOK, Resample, Run
  <2>3. QED
    BY <1>2, <2>1, <2>2 DEF TypeOK, Resample, Stamps, Commands, rawVars, barsVars, frameVars
<1>10. CASE ListTicks
  <2>1. build' \in Commands(Points, Ticks)
    BY <1>1, <1>10 DEF ListTicks, Commands, OnDisk, TypeOK
  <2>2. QED
    BY <1>10, <2>1 DEF TypeOK, ListTicks, Stamps, Commands, rawVars, barsVars, frameVars
<1>11. CASE StatTick
  <2> DEFINE f == Min(build.unseen)
  <2>1. f \in build.unseen /\ build.unseen \in SUBSET Ticks
    BY <1>1, <1>11, NextIsUnread DEF StatTick, Commands
  <2>2. Max({build.newest, raw[f]}) \in Stamps
    <3>1. build.newest \in 0 .. clock /\ raw[f] \in 0 .. clock
      BY <1>1, <2>1 DEF Commands, Stamps
    <3> HIDE DEF f
    <3>2. QED
      BY <1>1, <3>1, GreaterOfTwo DEF Stamps
  <2>3. build' \in Commands(Points, Ticks)
    BY <1>1, <1>11, <2>1, <2>2 DEF StatTick, StatNext, Commands
  <2>4. QED
    BY <1>11, <2>3 DEF TypeOK, StatTick, Stamps, Commands, rawVars, barsVars, frameVars
<1>3. CASE ReadTicks
  <2>1. Min(build.unread) \in build.unread
    BY <1>1, <1>3, NextIsUnread DEF ReadTicks, Commands
  <2>2. build' \in Commands(Points, Ticks)
    BY <1>1, <1>3, <2>1 DEF ReadTicks, ReadNext, Commands
  <2>3. QED
    BY <1>3, <2>2 DEF TypeOK, ReadTicks, Stamps, Commands, rawVars, barsVars, frameVars
<1>4. CASE WriteBars
  <2>1. clock' = clock + 1 /\ clock' \in 0 .. MaxStamps /\ 0 .. clock \subseteq 0 .. clock'
    BY <1>1, <1>4, CachesAssumption DEF WriteBars, Stamp, TypeOK
  <2>2. build' \in Commands(Points, Ticks)'
    <3>1. build' = [build EXCEPT !.pc = "written", !.bars = clock']
      BY <1>4 DEF WriteBars
    <3>2. build \in Commands(Points, Ticks)'
      BY <1>1, <2>1 DEF Commands, Stamps
    <3>3. clock' \in Stamps'
      BY <1>1, <2>1 DEF Stamps
    <3>4. QED
      BY <3>1, <3>2, <3>3 DEF Commands
  <2>3. QED
    BY <1>4, <2>1, <2>2 DEF TypeOK, WriteBars, Stamps, Commands, rawVars, barsVars, frameVars
<1>5. CASE ReplaceBars
  <2>1. build' \in Commands(Points, Ticks) /\ bars' \in [mtime : Stamps, of : [Ticks -> Stamps], schema : Nat]
    BY <1>1, <1>5 DEF ReplaceBars, Commands
  <2>2. happened' \subseteq {"late", "removed", "unlisted", "overlap", "half"}
    BY <1>5 DEF ReplaceBars, Late, TypeOK
  <2>3. QED
    BY <1>5, <2>1, <2>2 DEF TypeOK, ReplaceBars, Stamps, Commands, rawVars, frameVars
<1>6. CASE TruncateBarsMeta
  <2>1. build' \in Commands(Points, Ticks)
    BY <1>1, <1>6 DEF TruncateBarsMeta, Commands
  <2>2. barsMeta' \in [state : {"missing", "torn", "written"}, mtime : Stamps, look : Lookbacks \cup {0}, schema : Nat]
    BY <1>1, <1>6 DEF TruncateBarsMeta, Torn, Meta, Stamps
  <2>3. QED
    BY <1>6, <2>1, <2>2 DEF TypeOK, TruncateBarsMeta, Stamps, Commands, rawVars, frameVars
<1>7. CASE WriteBarsMeta
  <2>1. build' \in Commands(Points, Ticks) /\ build.newest \in Stamps /\ build.schema \in Nat
    BY <1>1, <1>7 DEF WriteBarsMeta, Commands
  <2>2. QED
    BY <1>1, <1>7, <2>1 DEF TypeOK, WriteBarsMeta, Stamps, Commands, rawVars, frameVars
<1>8. CASE CrashResample
  <2>1. events' \in 0 .. MaxEvents
    BY <1>8, CachesAssumption DEF TypeOK, CrashResample, Event
  <2>2. QED
    BY <1>1, <1>8, <2>1 DEF TypeOK, CrashResample, Stamps, Commands, rawVars, barsVars, frameVars
<1>9. QED
  BY <1>2, <1>3, <1>4, <1>5, <1>6, <1>7, <1>8, <1>10, <1>11

\* And every step of a `frame`.
LEMMA FrameTyping ==
  ASSUME TypeOK,
         \/ \E look \in Lookbacks : LoadBars(look)
         \/ \E force \in BOOLEAN : StatSources(force)
         \/ ListCandles \/ ReadCandles \/ ReplaceFrame \/ TruncateFrameMeta \/ WriteFrameMeta \/ CrashFrame
  PROVE  TypeOK'
<1> DEFINE Points == {"idle", "loaded", "stated", "read", "replaced", "meta"}
<1>1. /\ clock \in Nat /\ join \in Commands(Points, Candles) /\ Candles \in SUBSET Files
      /\ Idle(Candles) \in Commands(Points, Candles) /\ \A f \in Files : raw[f] \in Stamps
      /\ bars.mtime \in Stamps
  BY CachesAssumption, IdleTyping DEF TypeOK, Files
<1>2. ASSUME NEW look \in Lookbacks, LoadBars(look) PROVE TypeOK'
  <2>1. join' \in Commands(Points, Candles)
    BY <1>1, <1>2 DEF LoadBars, Commands, TypeOK
  <2>2. runs' \in 0 .. MaxRuns
    <3>1. runs < MaxRuns /\ runs' = runs + 1
      BY <1>2 DEF LoadBars, Run
    <3>2. runs \in Nat /\ MaxRuns \in Nat
      BY CachesAssumption DEF TypeOK
    <3>3. QED
      BY <3>1, <3>2
  <2>3. QED
    BY <1>2, <2>1, <2>2 DEF TypeOK, LoadBars, Stamps, Commands, rawVars, barsVars, frameVars
<1>3. ASSUME NEW force \in BOOLEAN, StatSources(force) PROVE TypeOK'
  <2>1. Newest(Candles) \in Stamps
    BY <1>1, NewestIsGreatest
  <2>2. SourceMtime \in Stamps
    <3>1. PICK x \in Stamps : x = SourceMtime
      <4>1. {bars.mtime, Newest(Candles)} \subseteq Nat /\ \A y \in {bars.mtime, Newest(Candles)} : y <= clock
        BY <1>1, <2>1 DEF Stamps
      <4>2. SourceMtime \in {bars.mtime, Newest(Candles)}
        BY <1>1, <4>1, MaxIsGreatest DEF SourceMtime
      <4>3. QED
        BY <1>1, <2>1, <4>2
    <3>2. QED
      BY <3>1
  <2>3. join' \in Commands(Points, Candles)
    BY <1>1, <1>3, <2>2 DEF StatSources, Commands
  <2>4. QED
    BY <1>3, <2>3 DEF TypeOK, StatSources, Stamps, Commands, rawVars, barsVars, frameVars
<1>4. CASE ListCandles
  <2>1. join' \in Commands(Points, Candles)
    BY <1>1, <1>4 DEF ListCandles, Commands, OnDisk
  <2>2. QED
    BY <1>4, <2>1 DEF TypeOK, ListCandles, Stamps, Commands, rawVars, barsVars, frameVars
<1>5. CASE ReadCandles
  <2>1. Min(join.unread) \in join.unread
    BY <1>1, <1>5, NextIsUnread DEF ReadCandles, Commands
  <2>2. join' \in Commands(Points, Candles)
    BY <1>1, <1>5, <2>1 DEF ReadCandles, ReadNext, Commands
  <2>3. QED
    BY <1>5, <2>2 DEF TypeOK, ReadCandles, Stamps, Commands, rawVars, barsVars, frameVars
<1>6. CASE ReplaceFrame
  <2>1. /\ join' \in Commands(Points, Candles)
        /\ frame' \in [bars : Stamps, of : [Candles -> Stamps], look : Lookbacks \cup {0}, schema : Nat]
    BY <1>1, <1>6 DEF ReplaceFrame, Commands
  <2>2. QED
    BY <1>6, <2>1 DEF TypeOK, ReplaceFrame, Stamps, Commands, rawVars, barsVars
<1>7. CASE TruncateFrameMeta
  <2>1. join' \in Commands(Points, Candles)
    BY <1>1, <1>7 DEF TruncateFrameMeta, Commands
  <2>2. frameMeta' \in [state : {"missing", "torn", "written"}, mtime : Stamps, look : Lookbacks \cup {0}, schema : Nat]
    BY <1>1, <1>7 DEF TruncateFrameMeta, Torn, Meta, Stamps
  <2>3. QED
    BY <1>7, <2>1, <2>2 DEF TypeOK, TruncateFrameMeta, Stamps, Commands, rawVars, barsVars
<1>8. CASE WriteFrameMeta
  <2>1. /\ join' \in Commands(Points, Candles) /\ join.newest \in Stamps /\ join.schema \in Nat
        /\ join.look \in Lookbacks \cup {0}
    BY <1>1, <1>8 DEF WriteFrameMeta, Commands
  <2>2. QED
    BY <1>1, <1>8, <2>1 DEF TypeOK, WriteFrameMeta, Stamps, Commands, rawVars, barsVars
<1>9. CASE CrashFrame
  <2>1. events' \in 0 .. MaxEvents
    BY <1>9, CachesAssumption DEF TypeOK, CrashFrame, Event
  <2>2. QED
    BY <1>1, <1>9, <2>1 DEF TypeOK, CrashFrame, Stamps, Commands, rawVars, barsVars, frameVars
<1>10. QED
  BY <1>2, <1>3, <1>4, <1>5, <1>6, <1>7, <1>8, <1>9

\* A step that changes nothing keeps the types.
LEMMA StutterTyping == TypeOK /\ UNCHANGED vars => TypeOK'
BY DEF TypeOK, vars, Stamps, Commands

\* Every variable stays in its type: a cache is only ever made from files that were there,
\* with mtimes that were given.
THEOREM Typing == Spec => []TypeOK
<1>1. TypeOK /\ [Next]_vars => TypeOK'
  BY RawTyping, ResampleTyping, FrameTyping, StutterTyping DEF Next
<1>2. QED
  BY InitTyping, <1>1, PTL DEF Spec

----------------------------------------------------------------------------
(* The inductive invariant.  What a command has read, and what the data    *)
(* file was made from, is the file on disk unless that is newer than the   *)
(* mtime which is, or will be, in the meta (Reading, Vouches).  While      *)
(* there are mtimes still to be looked at, what is not listed is not there *)
(* (Listing), so the newest seen is above nothing that was missed.  A      *)
(* stamp names one writing, so a file put in place in order is strictly    *)
(* newer.                                                                  *)

Stamped ==
  \A f, g \in Files : tmp[f] # 0 => tmp[f] # raw[g] /\ (tmp[f] = tmp[g] => f = g)

Listing ==
  build.unseen # {} => \A f \in Ticks \ build.unread : raw[f] = 0

Reading ==
  build.pc # "idle" =>
    /\ \A f \in Ticks \ build.unread : build.got[f] = raw[f] \/ raw[f] > build.newest
    /\ build.newest <= Newest(Ticks)
    /\ barsMeta.mtime <= build.newest \/ \E f \in build.unseen : barsMeta.mtime <= raw[f]

Vouches ==
  /\ barsMeta.mtime <= Newest(Ticks)
  /\ barsMeta.state = "written" /\ bars.mtime # 0 =>
       \A f \in Ticks : bars.of[f] = raw[f] \/ raw[f] > barsMeta.mtime

Progress ==
  /\ build.pc = "idle" => build = Idle(Ticks)
  /\ build.pc = "stat" => \A f \in Ticks : build.got[f] = 0
  /\ build.pc # "stat" => build.unseen = {}
  /\ build.pc \in {"written", "replaced", "meta"} => build.unread = {}
  /\ build.pc \in {"replaced", "meta"} => bars.of = build.got /\ bars.schema = build.schema

Schemas ==
  /\ barsMeta.schema <= bars.schema
  /\ bars.schema <= schema.bars
  /\ build.pc # "idle" => bars.schema <= build.schema /\ build.schema <= schema.bars

IInv == TypeOK /\ Stamped /\ Progress /\ Schemas /\ (Undisturbed => Listing /\ Reading /\ Vouches)

\* The types that the steps below need, in one place.
LEMMA Numbers ==
  ASSUME TypeOK
  PROVE  /\ clock \in Nat /\ Ticks \in SUBSET Files
         /\ \A f \in Files : raw[f] \in 0 .. clock /\ tmp[f] \in 0 .. clock
         /\ raw \in [Files -> 0 .. clock] /\ tmp \in [Files -> 0 .. clock]
         /\ barsMeta.mtime \in Nat /\ barsMeta.schema \in Nat /\ bars.schema \in Nat /\ schema.bars \in Nat
         /\ build.newest \in Nat /\ build.schema \in Nat /\ build.unread \in SUBSET Ticks /\ build.unseen \in SUBSET Ticks
         /\ \A f \in Ticks : bars.of[f] \in Nat /\ build.got[f] \in Nat
         /\ Newest(Ticks) \in 0 .. clock /\ \A f \in Ticks : raw[f] <= Newest(Ticks)
         /\ Newest(Ticks) = 0 \/ \E f \in Ticks : Newest(Ticks) = raw[f]
<1>1. clock \in Nat /\ Ticks \in SUBSET Files
  BY CachesAssumption DEF TypeOK, Files
<1>2. /\ Newest(Ticks) \in 0 .. clock /\ \A f \in Ticks : raw[f] <= Newest(Ticks)
      /\ Newest(Ticks) = 0 \/ \E f \in Ticks : Newest(Ticks) = raw[f]
  BY <1>1, NewestIsGreatest DEF Stamps
<1>3. build.newest \in Nat /\ build.schema \in Nat /\ build.unread \in SUBSET Ticks
      /\ build.unseen \in SUBSET Ticks /\ \A f \in Ticks : build.got[f] \in Nat
  BY <1>1 DEF TypeOK, Commands, Stamps
<1>4. barsMeta.mtime \in Nat /\ barsMeta.schema \in Nat /\ bars.schema \in Nat /\ schema.bars \in Nat
  BY <1>1 DEF TypeOK, Stamps
<1>5. \A f \in Ticks : bars.of[f] \in Nat
  BY <1>1 DEF TypeOK, Stamps
<1>6. QED
  BY <1>1, <1>2, <1>3, <1>4, <1>5 DEF TypeOK, Stamps

\* The invariant for the bars holds initially.
LEMMA InitIInv == Init => IInv
<1> SUFFICES ASSUME Init PROVE IInv
  OBVIOUS
<1>1. TypeOK
  BY InitTyping
<1>2. Stamped
  BY DEF Init, Stamped
<1>3. build = Idle(Ticks) /\ build.pc = "idle" /\ build.unseen = {} /\ barsMeta.mtime = 0 /\ barsMeta.state = "missing"
      /\ barsMeta.schema = 0 /\ bars.schema = 0 /\ schema.bars = 1
  BY DEF Init, Idle, Meta, NoBars
<1>4. Progress /\ Schemas
  BY <1>3 DEF Progress, Schemas
<1>5. Listing /\ Reading /\ Vouches
  BY <1>1, <1>3, Numbers DEF Listing, Reading, Vouches
<1>6. QED
  BY <1>1, <1>2, <1>4, <1>5 DEF IInv

\* A writing of a day's temporary file: its stamp is new.
LEMMA WriteTmpIInv == ASSUME IInv, TypeOK', NEW f \in Files, WriteTmp(f) PROVE IInv'
<1>1. /\ raw' = raw /\ bars' = bars /\ barsMeta' = barsMeta /\ build' = build /\ schema' = schema /\ happened' = happened
      /\ clock' = clock + 1 /\ tmp' = [tmp EXCEPT ![f] = clock']
  BY DEF WriteTmp, Stamp, rawVars, barsVars
<1>2. TypeOK /\ Stamped
  BY DEF IInv
<1>3. Stamped'
  <2>1. \A g \in Files : tmp'[g] = IF g = f THEN clock + 1 ELSE tmp[g]
    BY <1>1, <1>2, Numbers
  <2>2. \A g \in Files : raw[g] <= clock /\ tmp[g] <= clock
    BY <1>2, Numbers
  <2>3. QED
    BY <1>1, <1>2, <2>1, <2>2, Numbers DEF Stamped
<1>4. Newest(Ticks)' = Newest(Ticks)
  BY <1>1 DEF Newest
<1>5. QED
  BY <1>1, <1>3, <1>4 DEF IInv, Progress, Schemas, Undisturbed, Listing, Reading, Vouches

\* A file that is put in place in order is newer than every mtime recorded.
LEMMA PutInPlaceIInv == ASSUME IInv, TypeOK', NEW f \in Files, PutInPlace(f) PROVE IInv'
<1>1. /\ bars' = bars /\ barsMeta' = barsMeta /\ build' = build /\ schema' = schema /\ clock' = clock
      /\ tmp[f] # 0 /\ raw' = [raw EXCEPT ![f] = tmp[f]] /\ tmp' = [tmp EXCEPT ![f] = 0]
      /\ happened' = happened \cup Late(tmp[f], Seen(f)) \cup Unlisted(f)
  BY DEF PutInPlace, barsVars
<1>2. TypeOK /\ Stamped
  BY DEF IInv
<1>3. \A g \in Files : /\ raw'[g] = IF g = f THEN tmp[f] ELSE raw[g]
                       /\ tmp'[g] = IF g = f THEN 0 ELSE tmp[g]
  BY <1>1, <1>2, Numbers
<1>4. Stamped'
  BY <1>1, <1>2, <1>3 DEF Stamped
<1>5. Undisturbed' => (Listing /\ Reading /\ Vouches)'
  <2> SUFFICES ASSUME Undisturbed' PROVE (Listing /\ Reading /\ Vouches)'
    OBVIOUS
  <2>1. Listing /\ Reading /\ Vouches /\ "late" \notin happened' /\ "unlisted" \notin happened'
    BY <1>1 DEF IInv, Undisturbed
  <2>2. f \in Ticks => tmp[f] > Newest(Ticks)
    <3> SUFFICES ASSUME f \in Ticks PROVE tmp[f] > Newest(Ticks)
      OBVIOUS
    <3>1. ~ (tmp[f] < Newest(Ticks))
      BY <1>1, <2>1 DEF Late, Seen
    <3>2. tmp[f] # Newest(Ticks)
      BY <1>1, <1>2, Numbers DEF Stamped
    <3>3. QED
      BY <1>2, <3>1, <3>2, Numbers
  <2>3. Newest(Ticks)' \in Nat /\ Newest(Ticks) <= Newest(Ticks)'
    <3> DEFINE V == {raw'[g] : g \in Ticks}
    <3>1. \A g \in Ticks : raw'[g] \in 0 .. clock /\ raw[g] <= raw'[g]
      BY <1>2, <1>3, <2>2, Numbers
    <3>2. V \in SUBSET (0 .. clock) /\ Newest(Ticks)' = Max({0} \cup V) /\ \A g \in Ticks : raw'[g] \in V
      BY <3>1 DEF Newest
    <3> HIDE DEF V
    <3>3. Newest(Ticks)' \in 0 .. clock /\ \A g \in Ticks : raw'[g] <= Newest(Ticks)'
      BY <1>2, <3>2, GreatestValue, Numbers
    <3>4. QED
      BY <1>2, <3>1, <3>3, Numbers
  <2>4. ASSUME NEW g \in Ticks, NEW n \in Nat, n <= Newest(Ticks), NEW c \in Nat, c = raw[g] \/ raw[g] > n
        PROVE  c = raw'[g] \/ raw'[g] > n
    BY <1>2, <1>3, <2>2, <2>4, Numbers
  <2>5. Reading'
    <3> SUFFICES ASSUME build.pc # "idle" PROVE Reading'
      BY <1>1 DEF Reading
    <3>1. \A g \in Ticks \ build.unread : build.got[g] = raw'[g] \/ raw'[g] > build.newest
      BY <1>2, <2>1, <2>4, Numbers DEF Reading
    <3>2. build.newest <= Newest(Ticks)'
      BY <1>2, <2>1, <2>3, Numbers DEF Reading
    <3>3. barsMeta.mtime <= build.newest \/ \E g \in build.unseen : barsMeta.mtime <= raw'[g]
      <4>1. ASSUME NEW g \in build.unseen, barsMeta.mtime <= raw[g] PROVE barsMeta.mtime <= raw'[g]
        BY <1>2, <1>3, <2>2, <4>1, Numbers
      <4>2. QED
        BY <2>1, <4>1 DEF Reading
    <3>4. QED
      BY <1>1, <3>1, <3>2, <3>3 DEF Reading
  <2>6. Vouches'
    <3>1. barsMeta.mtime <= Newest(Ticks)'
      BY <1>2, <2>1, <2>3, Numbers DEF Vouches
    <3>2. barsMeta.state = "written" /\ bars.mtime # 0 =>
            \A g \in Ticks : bars.of[g] = raw'[g] \/ raw'[g] > barsMeta.mtime
      BY <1>2, <2>1, <2>4, Numbers DEF Vouches
    <3>3. QED
      BY <1>1, <3>1, <3>2 DEF Vouches
  <2>7. Listing'
    <3>1. ASSUME build.unseen # {}, NEW g \in Ticks \ build.unread PROVE raw'[g] = 0
      <4>1. raw[g] = 0
        BY <2>1, <3>1 DEF Listing
      <4>2. g # f
        BY <1>1, <2>1, <3>1, <4>1 DEF Unlisted
      <4>3. QED
        BY <1>3, <4>1, <4>2, Numbers, <1>2
    <3>2. QED
      BY <1>1, <3>1 DEF Listing
  <2>8. QED
    BY <2>5, <2>6, <2>7
<1>6. QED
  BY <1>1, <1>4, <1>5 DEF IInv, Progress, Schemas

\* A removal ends what is claimed of the mtimes; an upgrade leaves it.
LEMMA EventsIInv ==
  ASSUME IInv, TypeOK', \/ \E f \in Files : RemoveFile(f)
                       \/ \E c \in {"bars", "frame"} : Upgrade(c)
  PROVE  IInv'
<1>1. ASSUME NEW f \in Files, RemoveFile(f) PROVE IInv'
  <2>1. /\ bars' = bars /\ barsMeta' = barsMeta /\ build' = build /\ schema' = schema /\ tmp' = tmp
        /\ raw' = [raw EXCEPT ![f] = 0] /\ ~ Undisturbed'
    BY <1>1 DEF RemoveFile, barsVars, Undisturbed
  <2>2. \A g \in Files : raw'[g] = IF g = f THEN 0 ELSE raw[g]
    BY <2>1, Numbers DEF IInv
  <2>3. Stamped'
    BY <2>1, <2>2 DEF IInv, Stamped
  <2>4. QED
    BY <2>1, <2>3 DEF IInv, Progress, Schemas
<1>2. ASSUME NEW c \in {"bars", "frame"}, Upgrade(c) PROVE IInv'
  <2>1. /\ bars' = bars /\ barsMeta' = barsMeta /\ build' = build /\ tmp' = tmp /\ raw' = raw /\ happened' = happened
        /\ schema.bars <= schema'.bars /\ schema'.bars \in Nat
    BY <1>2, Numbers DEF Upgrade, rawVars, barsVars, IInv, TypeOK
  <2>2. Schemas'
    BY <2>1, Numbers DEF IInv, Schemas
  <2>3. Newest(Ticks)' = Newest(Ticks)
    BY <2>1 DEF Newest
  <2>4. QED
    BY <2>1, <2>2, <2>3 DEF IInv, Stamped, Progress, Undisturbed, Listing, Reading, Vouches
<1>3. QED
  BY <1>1, <1>2

\* A `resample` that ends, by dying or by a file that is gone, claims nothing more.
LEMMA EndIInv ==
  ASSUME IInv, TypeOK', build' = Idle(Ticks), raw' = raw, tmp' = tmp, bars' = bars, barsMeta' = barsMeta,
         schema' = schema, happened' = happened
  PROVE  IInv'
<1>1. build'.pc = "idle" /\ build'.unseen = {}
  BY DEF Idle
<1>2. Newest(Ticks)' = Newest(Ticks)
  BY DEF Newest
<1>3. QED
  BY <1>1, <1>2 DEF IInv, Stamped, Progress, Schemas, Undisturbed, Listing, Reading, Vouches

\* A start lists what is on disk: what it does not list is not there, and was not read.
\* The file of the newest mtime is among those it will look at.
LEMMA ListIInv == ASSUME IInv, TypeOK', ListTicks PROVE IInv'
<1>1. /\ raw' = raw /\ tmp' = tmp /\ bars' = bars /\ barsMeta' = barsMeta /\ schema' = schema /\ happened' = happened
      /\ build.pc = "idle" /\ OnDisk(Ticks) # {}
      /\ build' = [build EXCEPT !.pc = "stat", !.schema = schema.bars, !.unseen = OnDisk(Ticks), !.unread = OnDisk(Ticks)]
  BY DEF ListTicks, rawVars, barsVars
<1>2. TypeOK /\ build = Idle(Ticks)
  BY <1>1 DEF IInv, Progress
<1>3. /\ build'.pc = "stat" /\ build'.schema = schema.bars /\ build'.newest = 0
      /\ build'.unseen = OnDisk(Ticks) /\ build'.unread = OnDisk(Ticks) /\ \A f \in Ticks : build'.got[f] = 0
  BY <1>1, <1>2 DEF Idle
<1>4. Newest(Ticks)' = Newest(Ticks)
  BY <1>1 DEF Newest
<1>5. Schemas' /\ Progress' /\ Stamped'
  BY <1>1, <1>2, <1>3, Numbers DEF IInv, Schemas, Progress, Stamped
<1>6. Undisturbed' => (Listing /\ Reading /\ Vouches)'
  <2> SUFFICES ASSUME Undisturbed' PROVE (Listing /\ Reading /\ Vouches)'
    OBVIOUS
  <2>1. Vouches
    BY <1>1 DEF IInv, Undisturbed
  <2>2. \A f \in Ticks \ OnDisk(Ticks) : raw[f] = 0
    BY DEF OnDisk
  <2>3. barsMeta.mtime <= 0 \/ \E f \in OnDisk(Ticks) : barsMeta.mtime <= raw[f]
    <3>1. barsMeta.mtime <= Newest(Ticks)
      BY <2>1 DEF Vouches
    <3>2. CASE Newest(Ticks) = 0
      BY <3>1, <3>2
    <3>3. ASSUME NEW f \in Ticks, Newest(Ticks) = raw[f] PROVE barsMeta.mtime <= 0 \/ f \in OnDisk(Ticks)
      BY <3>1, <3>3 DEF OnDisk
    <3>4. QED
      BY <1>2, <3>1, <3>2, <3>3, Numbers
  <2>4. Reading' /\ Listing'
    BY <1>1, <1>2, <1>3, <1>4, <2>2, <2>3, Numbers DEF Reading, Listing
  <2>5. QED
    BY <1>1, <1>4, <2>1, <2>4 DEF Vouches
<1>7. QED
  BY <1>5, <1>6 DEF IInv

\* The newest mtime grows with the files looked at; what is not listed is not there yet.
LEMMA StatIInv == ASSUME IInv, TypeOK', StatTick PROVE IInv'
<1> DEFINE f == Min(build.unseen)
           m == Max({build.newest, raw[f]})
<1>1. /\ raw' = raw /\ tmp' = tmp /\ bars' = bars /\ barsMeta' = barsMeta /\ schema' = schema /\ happened' = happened
      /\ build.unseen # {}
  BY DEF StatTick, rawVars, barsVars
<1>2. TypeOK /\ build.pc = "stat"
  BY <1>1 DEF IInv, Progress
<1>3. CASE raw[f] = 0
  BY <1>1, <1>3, EndIInv DEF StatTick
<1>4. CASE raw[f] # 0
  <2>1. /\ build'.pc = "stat" /\ build'.schema = build.schema /\ build'.newest = m
        /\ build'.unseen = build.unseen \ {f} /\ build'.unread = build.unread /\ build'.got = build.got
    BY <1>2, <1>4 DEF StatTick, StatNext, TypeOK, Commands
  <2>2. f \in Ticks /\ raw[f] \in Nat
    <3>1. f \in build.unseen
      BY <1>1, <1>2, Numbers, NextIsUnread
    <3>2. QED
      BY <1>2, <3>1, Numbers
  <2>3. m \in Nat /\ build.newest <= m /\ raw[f] <= m /\ m \in {build.newest, raw[f]}
    <3>1. build.newest \in 0 .. clock /\ raw[f] \in 0 .. clock /\ clock \in Nat
      BY <1>2, <2>2, Numbers DEF TypeOK, Commands, Stamps
    <3> HIDE DEF f
    <3>2. QED
      BY <3>1, GreaterOfTwo
  <2>4. Newest(Ticks)' = Newest(Ticks)
    BY <1>1 DEF Newest
  <2>5. Schemas' /\ Progress' /\ Stamped'
    BY <1>1, <1>2, <2>1 DEF IInv, Schemas, Progress, Stamped
  <2>6. Undisturbed' => (Listing /\ Reading /\ Vouches)'
    <3> SUFFICES ASSUME Undisturbed' PROVE (Listing /\ Reading /\ Vouches)'
      OBVIOUS
    <3>1. Listing /\ Reading /\ Vouches
      BY <1>1 DEF IInv, Undisturbed
    <3>2. \A g \in Ticks \ build.unread : raw[g] = 0 /\ build.got[g] = 0
      BY <1>1, <1>2, <3>1 DEF Listing, IInv, Progress
    <3>3. build.newest <= Newest(Ticks) /\ (barsMeta.mtime <= build.newest \/ \E g \in build.unseen : barsMeta.mtime <= raw[g])
      BY <1>2, <3>1 DEF Reading
    <3>4. m <= Newest(Ticks)
      BY <1>2, <2>2, <2>3, <3>3, Numbers
    <3> HIDE DEF f, m
    <3>5. barsMeta.mtime <= m \/ \E g \in build.unseen \ {f} : barsMeta.mtime <= raw[g]
      <4>1. CASE barsMeta.mtime <= build.newest
        BY <1>2, <2>3, <4>1, Numbers
      <4>2. ASSUME NEW g \in build.unseen, barsMeta.mtime <= raw[g], g = f PROVE barsMeta.mtime <= m
        BY <1>2, <2>2, <2>3, <4>2, Numbers
      <4>3. QED
        BY <3>3, <4>1, <4>2
    <3>6. Listing'
      BY <1>1, <2>1, <3>2 DEF Listing
    <3>7. Reading'
      BY <1>1, <2>1, <2>4, <3>2, <3>4, <3>5 DEF Reading
    <3>8. Vouches'
      BY <1>1, <2>4, <3>1 DEF Vouches
    <3> QED
      BY <3>6, <3>7, <3>8
  <2>7. QED
    BY <2>5, <2>6 DEF IInv
<1>5. QED
  BY <1>3, <1>4

\* The decision: all that is on disk was looked at, or is newer than what was.
LEMMA DecideIInv == ASSUME IInv, TypeOK', NEW force \in BOOLEAN, Resample(force) PROVE IInv'
<1>1. /\ raw' = raw /\ tmp' = tmp /\ bars' = bars /\ barsMeta' = barsMeta /\ schema' = schema /\ happened' = happened
      /\ build.pc = "stat" /\ build.unseen = {}
      /\ build' = [build EXCEPT !.pc = "read"] \/ build' = Idle(Ticks)
  BY DEF Resample, rawVars, barsVars
<1>2. CASE build' = Idle(Ticks)
  BY <1>1, <1>2, EndIInv
<1>3. CASE build' = [build EXCEPT !.pc = "read"]
  <2>1. /\ build'.pc = "read" /\ build'.schema = build.schema /\ build'.newest = build.newest
        /\ build'.unseen = build.unseen /\ build'.unread = build.unread /\ build'.got = build.got
    BY <1>3 DEF IInv, TypeOK, Commands
  <2>2. Newest(Ticks)' = Newest(Ticks)
    BY <1>1 DEF Newest
  <2>3. Schemas' /\ Progress' /\ Stamped'
    BY <1>1, <2>1 DEF IInv, Schemas, Progress, Stamped
  <2>4. Undisturbed' => (Listing /\ Reading /\ Vouches)'
    BY <1>1, <2>1, <2>2 DEF IInv, Undisturbed, Listing, Reading, Vouches
  <2>5. QED
    BY <2>3, <2>4 DEF IInv
<1>4. QED
  BY <1>1, <1>2, <1>3

\* A file is read as it is on disk.
LEMMA ReadIInv == ASSUME IInv, TypeOK', ReadTicks PROVE IInv'
<1> DEFINE f == Min(build.unread)
<1>1. /\ raw' = raw /\ tmp' = tmp /\ bars' = bars /\ barsMeta' = barsMeta /\ schema' = schema /\ happened' = happened
      /\ build.pc = "read" /\ build.unread # {}
  BY DEF ReadTicks, rawVars, barsVars
<1>2. CASE raw[f] = 0
  BY <1>1, <1>2, EndIInv DEF ReadTicks
<1>3. CASE raw[f] # 0
  <2>1. build \in Commands({"idle", "stat", "read", "written", "replaced", "meta"}, Ticks) /\ TypeOK
    BY DEF IInv, TypeOK
  <2>2. /\ build'.pc = build.pc /\ build'.schema = build.schema /\ build'.newest = build.newest
        /\ build'.unseen = build.unseen /\ build'.unread = build.unread \ {f} /\ build.unseen = {}
        /\ \A g \in Ticks : build'.got[g] = IF g = f THEN raw[f] ELSE build.got[g]
    BY <1>1, <1>3, <2>1 DEF ReadTicks, ReadNext, Commands, IInv, Progress
  <2>3. Newest(Ticks)' = Newest(Ticks)
    BY <1>1 DEF Newest
  <2>4. Schemas' /\ Progress' /\ Stamped'
    BY <1>1, <2>2 DEF IInv, Schemas, Progress, Stamped
  <2>5. Undisturbed' => (Listing /\ Reading /\ Vouches)'
    BY <1>1, <2>2, <2>3 DEF IInv, Undisturbed, Listing, Reading, Vouches
  <2>6. QED
    BY <2>4, <2>5 DEF IInv
<1>4. QED
  BY <1>2, <1>3

\* The temporary file changes nothing that is looked at.
LEMMA WriteBarsIInv == ASSUME IInv, TypeOK', WriteBars PROVE IInv'
<1>1. /\ raw' = raw /\ tmp' = tmp /\ bars' = bars /\ barsMeta' = barsMeta /\ schema' = schema /\ happened' = happened
      /\ build.pc = "read" /\ build.unread = {}
      /\ build' = [build EXCEPT !.pc = "written", !.bars = clock']
  BY DEF WriteBars, rawVars, barsVars
<1>2. /\ build'.pc = "written" /\ build'.schema = build.schema /\ build'.newest = build.newest
      /\ build'.unseen = {} /\ build.unseen = {} /\ build'.unread = build.unread /\ build'.got = build.got
  BY <1>1 DEF IInv, TypeOK, Commands, Progress
<1>3. Newest(Ticks)' = Newest(Ticks)
  BY <1>1 DEF Newest
<1>4. QED
  BY <1>1, <1>2, <1>3 DEF IInv, Stamped, Progress, Schemas, Undisturbed, Listing, Reading, Vouches

\* New bars beside the old meta: its mtime is not above the one the new bars were listed at.
LEMMA ReplaceBarsIInv == ASSUME IInv, TypeOK', ReplaceBars PROVE IInv'
<1>1. /\ raw' = raw /\ tmp' = tmp /\ barsMeta' = barsMeta /\ schema' = schema
      /\ build.pc = "written" /\ happened \subseteq happened'
      /\ bars' = [mtime |-> build.bars, of |-> build.got, schema |-> build.schema]
      /\ build' = [build EXCEPT !.pc = "replaced"]
  BY DEF ReplaceBars, rawVars
<1>2. /\ build'.pc = "replaced" /\ build'.schema = build.schema /\ build'.newest = build.newest
      /\ build'.unseen = {} /\ build.unseen = {} /\ build'.unread = build.unread /\ build'.got = build.got /\ build.unread = {}
  BY <1>1 DEF IInv, TypeOK, Commands, Progress
<1>3. Newest(Ticks)' = Newest(Ticks)
  BY <1>1 DEF Newest
<1>4. Stamped' /\ Progress'
  BY <1>1, <1>2 DEF IInv, Stamped, Progress
<1>5. TypeOK
  BY DEF IInv
<1>6. Schemas'
  BY <1>1, <1>2, <1>5, Numbers DEF IInv, Schemas
<1>7. Undisturbed' => (Listing /\ Reading /\ Vouches)'
  <2> SUFFICES ASSUME Undisturbed' PROVE (Listing /\ Reading /\ Vouches)'
    OBVIOUS
  <2>1. Reading /\ Vouches
    BY <1>1 DEF IInv, Undisturbed
  <2>2. Reading' /\ Listing'
    BY <1>1, <1>2, <1>3, <2>1 DEF Reading, Listing
  <2>3. \A f \in Ticks : build.got[f] = raw[f] \/ raw[f] > barsMeta.mtime
    BY <1>1, <1>2, <1>5, <2>1, Numbers DEF Reading
  <2>4. QED
    BY <1>1, <1>3, <2>1, <2>2, <2>3 DEF Vouches
<1>8. QED
  BY <1>4, <1>6, <1>7 DEF IInv

\* A torn meta vouches for nothing.
LEMMA TruncateIInv == ASSUME IInv, TypeOK', TruncateBarsMeta PROVE IInv'
<1>1. /\ raw' = raw /\ tmp' = tmp /\ bars' = bars /\ schema' = schema /\ happened' = happened
      /\ build.pc = "replaced"
      /\ barsMeta'.state = "torn" /\ barsMeta'.mtime = 0 /\ barsMeta'.schema = 0
      /\ build' = [build EXCEPT !.pc = "meta"]
  BY DEF TruncateBarsMeta, Torn, Meta, rawVars
<1>2. /\ build'.pc = "meta" /\ build'.schema = build.schema /\ build'.newest = build.newest
      /\ build'.unseen = {} /\ build.unseen = {} /\ build'.unread = build.unread /\ build'.got = build.got
  BY <1>1 DEF IInv, TypeOK, Commands, Progress
<1>3. Newest(Ticks)' = Newest(Ticks)
  BY <1>1 DEF Newest
<1>4. TypeOK
  BY DEF IInv
<1>5. Stamped' /\ Progress' /\ Schemas'
  BY <1>1, <1>2, <1>4, Numbers DEF IInv, Stamped, Progress, Schemas
<1>6. Undisturbed' => (Listing /\ Reading /\ Vouches)'
  BY <1>1, <1>2, <1>3, <1>4, Numbers DEF IInv, Undisturbed, Listing, Reading, Vouches
<1>7. QED
  BY <1>5, <1>6 DEF IInv

\* The meta takes over what the command knew of the files it listed.
LEMMA WriteMetaIInv == ASSUME IInv, TypeOK', WriteBarsMeta PROVE IInv'
<1>1. /\ raw' = raw /\ tmp' = tmp /\ bars' = bars /\ schema' = schema /\ happened' = happened
      /\ build.pc = "meta" /\ build' = Idle(Ticks)
      /\ barsMeta'.mtime = build.newest /\ barsMeta'.schema = build.schema
  BY DEF WriteBarsMeta, rawVars
<1>2. TypeOK /\ build'.pc = "idle" /\ build'.unseen = {} /\ build.unseen = {} /\ build.unread = {} /\ bars.of = build.got /\ bars.schema = build.schema
  BY <1>1 DEF IInv, Progress, Idle
<1>3. Newest(Ticks)' = Newest(Ticks)
  BY <1>1 DEF Newest
<1>4. Stamped' /\ Progress' /\ Schemas'
  BY <1>1, <1>2, Numbers DEF IInv, Stamped, Progress, Schemas
<1>5. Undisturbed' => (Listing /\ Reading /\ Vouches)'
  BY <1>1, <1>2, <1>3 DEF IInv, Undisturbed, Listing, Reading, Vouches
<1>6. QED
  BY <1>4, <1>5 DEF IInv

\* A `frame` writes nothing that a `resample` reads.
LEMMA FrameIInv ==
  ASSUME IInv, TypeOK',
         \/ \E look \in Lookbacks : LoadBars(look)
         \/ \E force \in BOOLEAN : StatSources(force)
         \/ ListCandles \/ ReadCandles \/ ReplaceFrame \/ TruncateFrameMeta \/ WriteFrameMeta \/ CrashFrame
         \/ UNCHANGED vars
  PROVE  IInv'
<1>1. /\ raw' = raw /\ tmp' = tmp /\ bars' = bars /\ barsMeta' = barsMeta /\ schema' = schema
      /\ build' = build /\ happened \subseteq happened'
  BY DEF LoadBars, StatSources, ListCandles, ReadCandles, ReplaceFrame, TruncateFrameMeta, WriteFrameMeta,
         CrashFrame, vars, rawVars, barsVars
<1>2. Newest(Ticks)' = Newest(Ticks)
  BY <1>1 DEF Newest
<1>3. QED
  BY <1>1, <1>2 DEF IInv, Stamped, Progress, Schemas, Undisturbed, Listing, Reading, Vouches

\* Every step keeps the invariant for the bars.
LEMMA StepIInv == IInv /\ [Next]_vars => IInv'
<1> SUFFICES ASSUME IInv, [Next]_vars PROVE IInv'
  OBVIOUS
<1>1. TypeOK'
  BY RawTyping, ResampleTyping, FrameTyping, StutterTyping DEF Next, IInv
<1>2. ASSUME CrashResample PROVE IInv'
  BY <1>1, <1>2, EndIInv DEF CrashResample, rawVars, barsVars
<1>3. QED
  BY <1>1, <1>2, WriteTmpIInv, PutInPlaceIInv, EventsIInv, ListIInv, StatIInv, DecideIInv, ReadIInv, WriteBarsIInv,
     ReplaceBarsIInv, TruncateIInv, WriteMetaIInv, FrameIInv DEF Next

\* Fresh bars: no tick file is newer than the mtime in the meta, so each is the one read.
LEMMA IInvBarsCurrent == IInv => BarsCurrent
<1> SUFFICES ASSUME IInv, Undisturbed, BarsFresh
             PROVE  bars.of = Contents(Ticks) /\ bars.schema = schema.bars
  BY DEF BarsCurrent, Undisturbed
<1>1. TypeOK /\ Vouches /\ Schemas
  BY DEF IInv
<1>2. \A f \in Ticks : raw[f] <= barsMeta.mtime
  BY <1>1, Numbers DEF BarsFresh, BarsUpToDate
<1>3. \A f \in Ticks : bars.of[f] = raw[f]
  BY <1>1, <1>2, Numbers DEF BarsFresh, BarsUpToDate, Vouches
<1>4. bars.of = Contents(Ticks)
  BY <1>1, <1>3 DEF TypeOK, Contents
<1>5. bars.schema = schema.bars
  BY <1>1, Numbers DEF BarsFresh, BarsUpToDate, Schemas
<1>6. QED
  BY <1>4, <1>5

\* Bars that `resample` takes for up to date are those of the tick files on disk, whatever
\* ran beside it and wherever it died, as long as no file was removed or put in place late and
\* no new one was put in place between a listing and the look at the last mtime.
THEOREM BarsStayCurrent == Spec => []BarsCurrent
BY InitIInv, StepIInv, IInvBarsCurrent, PTL DEF Spec

----------------------------------------------------------------------------
(* The frame.  Its sources are the candle files and the bars, whose mtime  *)
(* is that of one writing too; the argument is that of the bars, one stage *)
(* further on.                                                             *)

\* The stamp of bars that are written is new, and above that of the bars in place.
BarsStamped ==
  /\ \A f \in Files : tmp[f] # 0 => tmp[f] # bars.mtime
  /\ build.pc = "written" =>
       build.bars > bars.mtime /\ \A f \in Files : build.bars # tmp[f] /\ build.bars # raw[f]

\* The sources of a join are those of today, unless they are newer than what it saw.
JoinReading ==
  /\ join.pc = "loaded" => join.bars = bars.mtime
  /\ join.pc \in {"stated", "read", "replaced", "meta"} =>
       /\ join.bars = bars.mtime \/ bars.mtime > join.newest
       /\ join.newest <= SourceMtime
  /\ join.pc \in {"read", "replaced", "meta"} =>
       \A f \in Candles \ join.unread : join.got[f] = raw[f] \/ raw[f] > join.newest

\* The same for the frame and its meta, but for the moment when only one of them is new.
FrameVouches ==
  /\ frameMeta.mtime <= SourceMtime
  /\ frameMeta.state = "written" /\ frame.bars # 0 /\ join.pc # "replaced" =>
       /\ frame.bars = bars.mtime \/ bars.mtime > frameMeta.mtime
       /\ \A f \in Candles : frame.of[f] = raw[f] \/ raw[f] > frameMeta.mtime
       /\ frame.look = frameMeta.look /\ frame.schema = frameMeta.schema

JoinProgress ==
  /\ join.pc = "idle" => join = Idle(Candles)
  /\ join.pc \in {"loaded", "stated"} => \A f \in Candles : join.got[f] = 0
  /\ join.pc \in {"replaced", "meta"} =>
       /\ join.unread = {}
       /\ frame = [bars |-> join.bars, of |-> join.got, look |-> join.look, schema |-> join.schema]

FInv == IInv /\ BarsStamped /\ JoinProgress /\ (JoinUndisturbed => JoinReading /\ FrameVouches)

\* _source_mtime is that of a source, and no source is newer.
LEMMA SourceIsGreatest ==
  ASSUME NEW c \in Nat, NEW r \in [Files -> 0 .. c], NEW b \in 0 .. c,
         NEW s, s = Max({b, Max({0} \cup {r[f] : f \in Candles})})
  PROVE  /\ s \in Nat /\ b <= s /\ \A f \in Candles : r[f] <= s
         /\ s \in {b} \cup {r[f] : f \in Candles}
<1> DEFINE V == {r[f] : f \in Candles}
           n == Max({0} \cup V)
<1>1. V \in SUBSET (0 .. c) /\ (\A f \in Candles : r[f] \in V) /\ \A v \in V : \E f \in Candles : v = r[f]
  BY DEF Files
<1>2. n \in 0 .. c /\ (\A v \in V : v <= n) /\ (n = 0 \/ n \in V)
  <2> HIDE DEF V
  <2> QED
    BY <1>1, GreatestValue
<1>3. s = Max({b, n})
  OBVIOUS
<1> HIDE DEF V, n
<1>4. s \in {b, n} /\ \A y \in {b, n} : s >= y
  <2>1. {b, n} \subseteq Nat /\ {b, n} # {} /\ \A y \in {b, n} : y <= c
    BY <1>2
  <2> QED
    BY <1>3, <2>1, MaxIsGreatest
<1>5. s \in Nat /\ b <= s /\ n <= s
  BY <1>2, <1>4
<1>6. \A f \in Candles : r[f] <= s
  <2> TAKE f \in Candles
  <2>1. r[f] \in 0 .. c /\ r[f] <= n
    BY <1>1, <1>2
  <2> QED
    BY <1>2, <1>5, <2>1
<1>7. s \in {b} \cup {r[f] : f \in Candles}
  <2>1. CASE n = 0
    BY <1>4, <1>5, <2>1
  <2>2. CASE n \in V
    BY <1>1, <1>4, <2>2
  <2> QED
    BY <1>2, <2>1, <2>2
<1> QED
  BY <1>5, <1>6, <1>7

\* The types that the steps of a frame need, in one place.
LEMMA FrameNumbers ==
  ASSUME TypeOK
  PROVE  /\ clock \in Nat /\ raw \in [Files -> 0 .. clock] /\ tmp \in [Files -> 0 .. clock]
         /\ bars.mtime \in 0 .. clock /\ build.bars \in 0 .. clock
         /\ frameMeta.mtime \in Nat /\ frame.bars \in Nat /\ \A f \in Candles : frame.of[f] \in Nat
         /\ join.newest \in Nat /\ join.bars \in Nat /\ join.unread \in SUBSET Candles
         /\ \A f \in Candles : join.got[f] \in Nat
         /\ SourceMtime \in Nat /\ bars.mtime <= SourceMtime /\ \A f \in Candles : raw[f] <= SourceMtime
         /\ SourceMtime = bars.mtime \/ \E f \in Candles : SourceMtime = raw[f]
<1>1. /\ clock \in Nat /\ raw \in [Files -> 0 .. clock] /\ tmp \in [Files -> 0 .. clock]
      /\ bars.mtime \in 0 .. clock
  BY CachesAssumption DEF TypeOK, Stamps
<1>2. SourceMtime = Max({bars.mtime, Max({0} \cup {raw[f] : f \in Candles})})
  BY DEF SourceMtime, Newest
<1>3. build.bars \in 0 .. clock
  BY DEF TypeOK, Commands, Stamps
<1>4. /\ join.newest \in Nat /\ join.bars \in Nat /\ join.unread \in SUBSET Candles
      /\ \A f \in Candles : join.got[f] \in Nat
  BY <1>1 DEF TypeOK, Commands, Stamps
<1>5. frame.bars \in Nat /\ \A f \in Candles : frame.of[f] \in Nat
  BY <1>1 DEF TypeOK, Stamps
<1>6. frameMeta.mtime \in Nat
  BY <1>1 DEF TypeOK, Stamps
<1>7. /\ SourceMtime \in Nat /\ bars.mtime <= SourceMtime /\ \A f \in Candles : raw[f] <= SourceMtime
      /\ SourceMtime = bars.mtime \/ \E f \in Candles : SourceMtime = raw[f]
  <2>1. clock \in Nat /\ raw \in [Files -> 0 .. clock] /\ bars.mtime \in 0 .. clock
    BY <1>1
  <2>2. /\ SourceMtime \in Nat /\ bars.mtime <= SourceMtime
        /\ \A f \in Candles : raw[f] <= SourceMtime
    BY <2>1, <1>2, SourceIsGreatest
  <2>3. SourceMtime \in {bars.mtime} \cup {raw[f] : f \in Candles}
    BY <2>1, <1>2, SourceIsGreatest
  <2> QED
    BY <2>2, <2>3
<1> QED
  BY <1>1, <1>3, <1>4, <1>5, <1>6, <1>7

FrameRest == JoinProgress /\ (JoinUndisturbed => JoinReading /\ FrameVouches)

\* Sources that stay, or are replaced by newer ones, leave what a frame knows of them true.
LEMMA SourcesMove ==
  ASSUME TypeOK, TypeOK', FrameRest, UNCHANGED <<frame, frameMeta, join>>, happened \subseteq happened',
         JoinUndisturbed' =>
           /\ bars'.mtime = bars.mtime \/ (bars'.mtime > SourceMtime /\ join.pc # "loaded")
           /\ \A f \in Candles : raw'[f] = raw[f] \/ raw'[f] > SourceMtime
  PROVE  FrameRest'
<1>1. JoinProgress'
  BY DEF FrameRest, JoinProgress
<1>2. ASSUME JoinUndisturbed' PROVE JoinReading' /\ FrameVouches'
  <2>1. JoinReading /\ FrameVouches
    BY <1>2 DEF FrameRest, JoinUndisturbed
  <2>2. /\ clock' \in Nat /\ raw' \in [Files -> 0 .. clock'] /\ bars'.mtime \in 0 .. clock'
    BY CachesAssumption DEF TypeOK, Stamps
  <2>3. SourceMtime' = Max({bars'.mtime, Max({0} \cup {raw'[f] : f \in Candles})})
    BY DEF SourceMtime, Newest
  <2>4. /\ SourceMtime' \in Nat /\ bars'.mtime <= SourceMtime' /\ \A f \in Candles : raw'[f] <= SourceMtime'
    BY <2>2, <2>3, SourceIsGreatest
  <2>5. bars'.mtime \in Nat /\ bars.mtime \in Nat /\ \A f \in Candles : raw[f] \in Nat /\ raw'[f] \in Nat
    BY <2>2, FrameNumbers DEF Files
  <2>6. SourceMtime \in Nat
    BY FrameNumbers
  <2>7. SourceMtime <= SourceMtime'
    <3>1. CASE SourceMtime = bars.mtime
      BY <1>2, <2>4, <2>5, <3>1
    <3>2. ASSUME NEW f \in Candles, SourceMtime = raw[f] PROVE SourceMtime <= SourceMtime'
      BY <1>2, <2>4, <2>5, <3>2
    <3> QED
      BY <3>1, <3>2, FrameNumbers
  <2>8. JoinReading'
    <3>1. join.pc = "loaded" => join.bars = bars'.mtime
      BY <1>2, <2>1 DEF JoinReading
    <3>2. ASSUME join.pc \in {"stated", "read", "replaced", "meta"}
          PROVE  (join.bars = bars'.mtime \/ bars'.mtime > join.newest) /\ join.newest <= SourceMtime'
      BY <1>2, <2>1, <2>5, <2>6, <2>4, <2>7, <3>2, FrameNumbers DEF JoinReading
    <3>3. ASSUME join.pc \in {"read", "replaced", "meta"}, NEW f \in Candles \ join.unread
          PROVE  join.got[f] = raw'[f] \/ raw'[f] > join.newest
      <4>1. join.newest <= SourceMtime /\ (join.got[f] = raw[f] \/ raw[f] > join.newest)
        BY <2>1, <3>3 DEF JoinReading
      <4>2. raw'[f] = raw[f] \/ raw'[f] > SourceMtime
        BY <1>2
      <4>3. join.newest \in Nat /\ raw[f] \in Nat /\ raw'[f] \in Nat
        BY <2>5, FrameNumbers
      <4> QED
        BY <2>6, <4>1, <4>2, <4>3
    <3> QED
      BY <3>1, <3>2, <3>3 DEF JoinReading
  <2>9. FrameVouches'
    <3>1. frameMeta.mtime <= SourceMtime /\ frameMeta.mtime <= SourceMtime' /\ frameMeta.mtime \in Nat
      BY <2>1, <2>4, <2>6, <2>7, FrameNumbers DEF FrameVouches
    <3>2. ASSUME frameMeta.state = "written", frame.bars # 0, join.pc # "replaced"
          PROVE  /\ frame.bars = bars'.mtime \/ bars'.mtime > frameMeta.mtime
                 /\ \A f \in Candles : frame.of[f] = raw'[f] \/ raw'[f] > frameMeta.mtime
                 /\ frame.look = frameMeta.look /\ frame.schema = frameMeta.schema
      BY <1>2, <2>1, <2>5, <2>6, <3>1, <3>2 DEF FrameVouches
    <3> QED
      BY <3>1, <3>2 DEF FrameVouches
  <2> QED
    BY <2>8, <2>9
<1> QED
  BY <1>1, <1>2 DEF FrameRest

\* The invariant for the frame holds initially.
LEMMA InitFInv == Init => FInv
<1> SUFFICES ASSUME Init PROVE FInv
  OBVIOUS
<1>1. IInv /\ TypeOK
  BY InitIInv, InitTyping
<1>2. /\ tmp = [f \in Files |-> 0] /\ build.pc = "idle" /\ join = Idle(Candles) /\ join.pc = "idle"
      /\ frameMeta.mtime = 0 /\ frameMeta.state = "missing"
  BY DEF Init, Idle, Meta
<1>3. BarsStamped /\ JoinProgress /\ JoinReading
  BY <1>2 DEF BarsStamped, JoinProgress, JoinReading
<1>4. FrameVouches
  BY <1>1, <1>2, FrameNumbers DEF FrameVouches
<1> QED
  BY <1>1, <1>3, <1>4 DEF FInv

\* Stamps are given one at a time, so bars that are written have one of their own.
LEMMA StampsApart == ASSUME FInv, [Next]_vars PROVE BarsStamped'
<1>1. TypeOK /\ Stamped /\ BarsStamped
  BY DEF FInv, IInv
<1>2. ASSUME NEW f \in Files, WriteTmp(f) PROVE BarsStamped'
  <2>1. /\ bars' = bars /\ build' = build /\ raw' = raw /\ tmp' = [tmp EXCEPT ![f] = clock + 1]
    BY <1>2 DEF WriteTmp, Stamp, barsVars
  <2>2. \A g \in Files : tmp'[g] = IF g = f THEN clock + 1 ELSE tmp[g]
    BY <1>1, <2>1, FrameNumbers
  <2>3. clock \in Nat /\ bars.mtime <= clock /\ build.bars <= clock
    BY <1>1, FrameNumbers
  <2> QED
    BY <1>1, <2>1, <2>2, <2>3, FrameNumbers DEF BarsStamped
<1>3. ASSUME NEW f \in Files, PutInPlace(f) PROVE BarsStamped'
  <2>1. /\ bars' = bars /\ build' = build /\ tmp[f] # 0
        /\ raw' = [raw EXCEPT ![f] = tmp[f]] /\ tmp' = [tmp EXCEPT ![f] = 0]
    BY <1>3 DEF PutInPlace, barsVars
  <2>2. \A g \in Files : /\ raw'[g] = IF g = f THEN tmp[f] ELSE raw[g]
                         /\ tmp'[g] = IF g = f THEN 0 ELSE tmp[g]
    BY <1>1, <2>1, FrameNumbers
  <2>3. build.pc = "written" => build.bars # 0
    BY <1>1, FrameNumbers DEF BarsStamped
  <2> QED
    BY <1>1, <2>1, <2>2, <2>3 DEF BarsStamped
<1>4. ASSUME NEW f \in Files, RemoveFile(f) PROVE BarsStamped'
  <2>1. /\ bars' = bars /\ build' = build /\ tmp' = tmp /\ raw' = [raw EXCEPT ![f] = 0]
    BY <1>4 DEF RemoveFile, barsVars
  <2>2. \A g \in Files : raw'[g] = IF g = f THEN 0 ELSE raw[g]
    BY <1>1, <2>1, FrameNumbers
  <2>3. build.pc = "written" => build.bars # 0
    BY <1>1, FrameNumbers DEF BarsStamped
  <2> QED
    BY <1>1, <2>1, <2>2, <2>3 DEF BarsStamped
<1>5. ASSUME WriteBars PROVE BarsStamped'
  <2>1. /\ bars' = bars /\ raw' = raw /\ tmp' = tmp /\ build'.bars = clock + 1
    BY <1>1, <1>5 DEF WriteBars, Stamp, barsVars, rawVars, TypeOK, Commands
  <2> QED
    BY <1>1, <2>1, FrameNumbers DEF BarsStamped
<1>6. ASSUME ReplaceBars PROVE BarsStamped'
  <2>1. /\ bars'.mtime = build.bars /\ raw' = raw /\ tmp' = tmp /\ build.pc = "written" /\ build'.pc = "replaced"
    BY <1>1, <1>6 DEF ReplaceBars, rawVars, TypeOK, Commands
  <2> QED
    BY <1>1, <2>1 DEF BarsStamped
<1>7. ASSUME UNCHANGED <<raw, tmp, bars>>, build'.pc # "written" \/ build' = build PROVE BarsStamped'
  BY <1>1, <1>7 DEF BarsStamped
<1>8. ASSUME \/ ListTicks \/ StatTick \/ \E force \in BOOLEAN : Resample(force)
             \/ ReadTicks \/ TruncateBarsMeta \/ WriteBarsMeta \/ CrashResample
      PROVE  UNCHANGED <<raw, tmp, bars>> /\ build'.pc # "written"
  <2> USE <1>1 DEF rawVars, barsVars, TypeOK, Commands
  <2>1. CASE \E force \in BOOLEAN : Resample(force)
    BY <2>1 DEF Resample, Idle
  <2>6. CASE ListTicks
    BY <2>6 DEF ListTicks
  <2>7. CASE StatTick
    <3>1. Idle(Ticks).pc = "idle" /\ StatNext.pc = build.pc
      BY DEF Idle, StatNext
    <3>2. build.pc # "written"
      BY <2>7 DEF StatTick, FInv, IInv, Progress
    <3> QED
      BY <2>7, <3>1, <3>2 DEF StatTick
  <2>2. CASE ReadTicks
    <3>1. Idle(Ticks).pc = "idle"
      BY DEF Idle
    <3>2. ReadNext(build).pc = build.pc
      BY DEF ReadNext
    <3> QED
      BY <2>2, <3>1, <3>2 DEF ReadTicks
  <2>3. CASE TruncateBarsMeta
    BY <2>3 DEF TruncateBarsMeta
  <2>4. CASE WriteBarsMeta
    BY <2>4 DEF WriteBarsMeta, Idle
  <2>5. CASE CrashResample
    BY <2>5 DEF CrashResample, Idle
  <2> QED
    BY <1>8, <2>1, <2>2, <2>3, <2>4, <2>5, <2>6, <2>7
<1>9. ASSUME \/ \E c \in {"bars", "frame"} : Upgrade(c)
             \/ \E look \in Lookbacks : LoadBars(look)
             \/ \E force \in BOOLEAN : StatSources(force)
             \/ ListCandles \/ ReadCandles \/ ReplaceFrame \/ TruncateFrameMeta \/ WriteFrameMeta \/ CrashFrame
             \/ UNCHANGED vars
      PROVE  UNCHANGED <<raw, tmp, bars, build>>
  BY <1>9 DEF Upgrade, LoadBars, StatSources, ListCandles, ReadCandles, ReplaceFrame, TruncateFrameMeta,
              WriteFrameMeta, CrashFrame, vars, rawVars, barsVars
<1> QED
  BY <1>2, <1>3, <1>4, <1>5, <1>6, <1>7, <1>8, <1>9 DEF Next

\* What happens outside a frame: its sources stay, or new ones are put in place in order.
LEMMA OutsideFrame ==
  ASSUME FInv, TypeOK',
         \/ \E f \in Files : WriteTmp(f) \/ PutInPlace(f) \/ RemoveFile(f)
         \/ \E c \in {"bars", "frame"} : Upgrade(c)
         \/ ListTicks \/ StatTick
         \/ \E force \in BOOLEAN : Resample(force)
         \/ ReadTicks \/ WriteBars \/ ReplaceBars \/ TruncateBarsMeta \/ WriteBarsMeta \/ CrashResample
         \/ UNCHANGED vars
  PROVE  FrameRest'
<1>1. TypeOK /\ Stamped /\ BarsStamped /\ FrameRest
  BY DEF FInv, IInv, FrameRest
<1>2. UNCHANGED <<frame, frameMeta, join>> /\ happened \subseteq happened'
  BY DEF WriteTmp, PutInPlace, RemoveFile, Upgrade, ListTicks, StatTick, Resample, ReadTicks, WriteBars, ReplaceBars, TruncateBarsMeta,
         WriteBarsMeta, CrashResample, frameVars, vars
<1>3. ASSUME UNCHANGED <<raw, bars>> PROVE FrameRest'
  BY <1>1, <1>2, <1>3, SourcesMove
<1>4. ASSUME NEW f \in Files, PutInPlace(f) PROVE FrameRest'
  <2>1. bars' = bars /\ raw' = [raw EXCEPT ![f] = tmp[f]] /\ tmp[f] # 0
        /\ happened' = happened \cup Late(tmp[f], Seen(f)) \cup Unlisted(f)
    BY <1>4 DEF PutInPlace, barsVars
  <2>2. \A g \in Files : raw'[g] = IF g = f THEN tmp[f] ELSE raw[g]
    BY <1>1, <2>1, FrameNumbers
  <2>3. ASSUME JoinUndisturbed', f \in Candles PROVE tmp[f] > SourceMtime
    <3>1. Seen(f) = SourceMtime
      <4>1. f \notin Ticks
        BY <2>3, CachesAssumption
      <4>2. {Newest(Candles), bars.mtime} = {bars.mtime, Newest(Candles)}
        OBVIOUS
      <4> QED
        BY <4>1, <4>2 DEF Seen, SourceMtime
    <3>2. ~ (tmp[f] < SourceMtime)
      BY <2>1, <2>3, <3>1 DEF Late, JoinUndisturbed
    <3>3. tmp[f] # SourceMtime
      <4>1. \A g \in Candles : tmp[f] # raw[g]
        BY <1>1, <2>1 DEF Stamped, Files
      <4>2. tmp[f] # bars.mtime
        BY <1>1, <2>1 DEF BarsStamped
      <4>3. SourceMtime \in {bars.mtime} \cup {raw[g] : g \in Candles}
        BY <1>1, FrameNumbers
      <4> QED
        BY <4>1, <4>2, <4>3
    <3>4. tmp[f] \in Nat /\ SourceMtime \in Nat
      BY <1>1, FrameNumbers
    <3> QED
      BY <3>2, <3>3, <3>4
  <2>4. JoinUndisturbed' => \A g \in Candles : raw'[g] = raw[g] \/ raw'[g] > SourceMtime
    BY <2>2, <2>3 DEF Files
  <2> QED
    BY <1>1, <1>2, <2>1, <2>4, SourcesMove
<1>5. ASSUME NEW f \in Files, RemoveFile(f) PROVE FrameRest'
  <2>1. ~ JoinUndisturbed'
    BY <1>5 DEF RemoveFile, JoinUndisturbed
  <2> QED
    BY <1>1, <1>2, <2>1, SourcesMove
<1>6. ASSUME ReplaceBars PROVE FrameRest'
  <2>1. /\ raw' = raw /\ bars'.mtime = build.bars /\ build.pc = "written"
        /\ happened' = happened \cup Late(build.bars, Newest(Candles)) \cup (IF join.pc = "loaded" THEN {"overlap"} ELSE {})
    BY <1>6 DEF ReplaceBars, rawVars
  <2>2. ASSUME JoinUndisturbed' PROVE build.bars > SourceMtime /\ join.pc # "loaded"
    <3>1. ~ (build.bars < Newest(Candles)) /\ join.pc # "loaded"
      BY <2>1, <2>2 DEF Late, JoinUndisturbed
    <3>2. build.bars > bars.mtime
      BY <1>1, <2>1 DEF BarsStamped
    <3>3. \A g \in Candles : raw[g] <= Newest(Candles) /\ build.bars # raw[g]
      <4>1. Candles \in SUBSET Files
        BY DEF Files
      <4> QED
        BY <1>1, <2>1, <4>1, NewestIsGreatest DEF BarsStamped
    <3>4. Newest(Candles) \in Nat /\ build.bars \in Nat /\ bars.mtime \in Nat
      <4>1. Candles \in SUBSET Files
        BY DEF Files
      <4>2. Newest(Candles) \in Stamps
        BY <1>1, <4>1, NewestIsGreatest
      <4> QED
        BY <1>1, <4>2, FrameNumbers DEF Stamps
    <3>5. SourceMtime \in {bars.mtime} \cup {raw[g] : g \in Candles}
      BY <1>1, FrameNumbers
    <3>6. ASSUME NEW g \in Candles PROVE build.bars > raw[g]
      <4>1. raw[g] \in Nat
        BY <1>1, FrameNumbers DEF Files
      <4> QED
        BY <3>1, <3>3, <3>4, <4>1
    <3> QED
      BY <3>1, <3>2, <3>5, <3>6
  <2> QED
    BY <1>1, <1>2, <2>1, <2>2, SourcesMove
<1>7. ASSUME \/ \E f \in Files : WriteTmp(f)
             \/ \E c \in {"bars", "frame"} : Upgrade(c)
             \/ ListTicks \/ StatTick \/ \E force \in BOOLEAN : Resample(force)
             \/ ReadTicks \/ WriteBars \/ TruncateBarsMeta \/ WriteBarsMeta \/ CrashResample
             \/ UNCHANGED vars
      PROVE  UNCHANGED <<raw, bars>>
  BY <1>7 DEF WriteTmp, Upgrade, ListTicks, StatTick, Resample, ReadTicks, WriteBars, TruncateBarsMeta, WriteBarsMeta, CrashResample,
              vars, rawVars, barsVars
<1> QED
  BY <1>3, <1>4, <1>5, <1>6, <1>7

\* A `frame` loads the bars: what it has is what is in place.
LEMMA LoadFrame == ASSUME FInv, NEW look \in Lookbacks, LoadBars(look) PROVE FrameRest'
<1>1. /\ UNCHANGED <<raw, bars, frame, frameMeta, happened>> /\ join.pc = "idle"
      /\ join' = [join EXCEPT !.pc = "loaded", !.schema = schema.frame, !.look = look, !.bars = bars.mtime]
  BY DEF LoadBars, rawVars, barsVars, frameVars
<1>2. join = Idle(Candles)
  BY <1>1 DEF FInv, JoinProgress
<1>3. join'.pc = "loaded" /\ join'.bars = bars.mtime /\ \A f \in Candles : join'.got[f] = 0
  BY <1>1, <1>2 DEF Idle
<1>4. SourceMtime' = SourceMtime
  BY <1>1 DEF SourceMtime, Newest
<1> QED
  BY <1>1, <1>3, <1>4 DEF FInv, FrameRest, JoinUndisturbed, JoinProgress, JoinReading, FrameVouches

\* A `frame` that ends outside the moment between its two files leaves what was there.
LEMMA EndFrame ==
  ASSUME FInv, UNCHANGED <<raw, bars, frame, frameMeta>>, join' = Idle(Candles), happened \subseteq happened',
         JoinUndisturbed' => join.pc # "replaced"
  PROVE  FrameRest'
<1>1. join'.pc = "idle"
  BY DEF Idle
<1>2. SourceMtime' = SourceMtime
  BY DEF SourceMtime, Newest
<1> QED
  BY <1>1, <1>2 DEF FInv, FrameRest, JoinUndisturbed, JoinProgress, JoinReading, FrameVouches

\* The mtime it takes is that of its sources at this moment.
LEMMA StatFrame == ASSUME FInv, NEW force \in BOOLEAN, StatSources(force) PROVE FrameRest'
<1>1. /\ UNCHANGED <<raw, bars, frame, frameMeta, happened>> /\ join.pc = "loaded"
      /\ join' = [join EXCEPT !.pc = "stated", !.newest = SourceMtime] \/ join' = Idle(Candles)
  BY DEF StatSources, rawVars, barsVars, frameVars
<1>2. ASSUME join' = [join EXCEPT !.pc = "stated", !.newest = SourceMtime] PROVE FrameRest'
  <2>1. /\ join'.pc = "stated" /\ join'.newest = SourceMtime /\ join'.bars = join.bars /\ join'.got = join.got
    BY <1>2 DEF FInv, IInv, TypeOK, Commands
  <2>2. SourceMtime' = SourceMtime
    BY <1>1 DEF SourceMtime, Newest
  <2>3. SourceMtime \in Nat
    BY FrameNumbers DEF FInv, IInv
  <2> QED
    BY <1>1, <2>1, <2>2, <2>3 DEF FInv, FrameRest, JoinUndisturbed, JoinProgress, JoinReading, FrameVouches
<1> QED
  BY <1>1, <1>2, EndFrame

\* The candle files that are not listed are not there, and none of them was read.
LEMMA ListFrame == ASSUME FInv, ListCandles PROVE FrameRest'
<1>1. /\ UNCHANGED <<raw, bars, frame, frameMeta, happened>> /\ join.pc = "stated"
      /\ join' = [join EXCEPT !.pc = "read", !.unread = OnDisk(Candles)]
  BY DEF ListCandles, rawVars, barsVars, frameVars
<1>2. /\ join'.pc = "read" /\ join'.newest = join.newest /\ join'.bars = join.bars /\ join'.got = join.got
      /\ join'.unread = OnDisk(Candles)
  BY <1>1 DEF FInv, IInv, TypeOK, Commands
<1>3. SourceMtime' = SourceMtime
  BY <1>1 DEF SourceMtime, Newest
<1>4. \A f \in Candles \ OnDisk(Candles) : raw[f] = 0 /\ join.got[f] = 0
  BY <1>1 DEF OnDisk, FInv, JoinProgress
<1> QED
  BY <1>1, <1>2, <1>3, <1>4 DEF FInv, FrameRest, JoinUndisturbed, JoinProgress, JoinReading, FrameVouches

\* A candle file is read as it is on disk.
LEMMA ReadFrame == ASSUME FInv, ReadCandles PROVE FrameRest'
<1> DEFINE f == Min(join.unread)
<1>1. UNCHANGED <<raw, bars, frame, frameMeta, happened>> /\ join.pc = "read"
  BY DEF ReadCandles, rawVars, barsVars, frameVars
<1>2. CASE raw[f] = 0
  BY <1>1, <1>2, EndFrame DEF ReadCandles
<1>3. CASE raw[f] # 0
  <2>1. /\ join'.pc = "read" /\ join'.newest = join.newest /\ join'.bars = join.bars
        /\ join'.unread = join.unread \ {f}
        /\ \A g \in Candles : join'.got[g] = IF g = f THEN raw[f] ELSE join.got[g]
    BY <1>1, <1>3 DEF ReadCandles, ReadNext, FInv, IInv, TypeOK, Commands
  <2>2. SourceMtime' = SourceMtime
    BY <1>1 DEF SourceMtime, Newest
  <2> QED
    BY <1>1, <2>1, <2>2 DEF FInv, FrameRest, JoinUndisturbed, JoinProgress, JoinReading, FrameVouches
<1> QED
  BY <1>2, <1>3

\* The new frame, beside the old meta until that is truncated.
LEMMA ReplaceFrameRest == ASSUME FInv, ReplaceFrame PROVE FrameRest'
<1>1. /\ UNCHANGED <<raw, bars, frameMeta, happened>> /\ join.pc = "read" /\ join.unread = {}
      /\ frame' = [bars |-> join.bars, of |-> join.got, look |-> join.look, schema |-> join.schema]
      /\ join' = [join EXCEPT !.pc = "replaced"]
  BY DEF ReplaceFrame, rawVars, barsVars
<1>2. /\ join'.pc = "replaced" /\ join'.newest = join.newest /\ join'.bars = join.bars /\ join'.got = join.got
      /\ join'.unread = join.unread /\ join'.look = join.look /\ join'.schema = join.schema
  BY <1>1 DEF FInv, IInv, TypeOK, Commands
<1>3. SourceMtime' = SourceMtime
  BY <1>1 DEF SourceMtime, Newest
<1> QED
  BY <1>1, <1>2, <1>3 DEF FInv, FrameRest, JoinUndisturbed, JoinProgress, JoinReading, FrameVouches

\* Emptying the frame's meta keeps what FInv says of the frame.
LEMMA TruncateFrameRest == ASSUME FInv, TruncateFrameMeta PROVE FrameRest'
<1>1. /\ UNCHANGED <<raw, bars, frame, happened>> /\ join.pc = "replaced"
      /\ frameMeta'.state = "torn" /\ frameMeta'.mtime = 0
      /\ join' = [join EXCEPT !.pc = "meta"]
  BY DEF TruncateFrameMeta, Torn, Meta, rawVars, barsVars
<1>2. /\ join'.pc = "meta" /\ join'.newest = join.newest /\ join'.bars = join.bars /\ join'.got = join.got
      /\ join'.unread = join.unread /\ join'.look = join.look /\ join'.schema = join.schema
  BY <1>1 DEF FInv, IInv, TypeOK, Commands
<1>3. SourceMtime' = SourceMtime /\ SourceMtime \in Nat
  <2>1. SourceMtime' = SourceMtime
    BY <1>1 DEF SourceMtime, Newest
  <2> QED
    BY <2>1, FrameNumbers DEF FInv, IInv
<1> QED
  BY <1>1, <1>2, <1>3 DEF FInv, FrameRest, JoinUndisturbed, JoinProgress, JoinReading, FrameVouches

\* The meta takes over what the command knew of its sources.
LEMMA WriteFrameRest == ASSUME FInv, WriteFrameMeta PROVE FrameRest'
<1>1. /\ UNCHANGED <<raw, bars, frame, happened>> /\ join.pc = "meta" /\ join' = Idle(Candles)
      /\ frameMeta'.mtime = join.newest /\ frameMeta'.look = join.look /\ frameMeta'.schema = join.schema
  BY DEF WriteFrameMeta, rawVars, barsVars
<1>2. /\ join'.pc = "idle" /\ join.unread = {}
      /\ frame.bars = join.bars /\ frame.of = join.got /\ frame.look = join.look /\ frame.schema = join.schema
  BY <1>1 DEF FInv, JoinProgress, Idle
<1>3. SourceMtime' = SourceMtime
  BY <1>1 DEF SourceMtime, Newest
<1> QED
  BY <1>1, <1>2, <1>3 DEF FInv, FrameRest, JoinUndisturbed, JoinProgress, JoinReading, FrameVouches

\* Every step keeps the invariant for the frame.
LEMMA StepFInv == FInv /\ [Next]_vars => FInv'
<1> SUFFICES ASSUME FInv, [Next]_vars PROVE FInv'
  OBVIOUS
<1>1. IInv' /\ TypeOK' /\ BarsStamped'
  BY StepIInv, StampsApart DEF FInv, IInv
<1>2. ASSUME CrashFrame PROVE FrameRest'
  <2>1. /\ UNCHANGED <<raw, bars, frame, frameMeta>> /\ join' = Idle(Candles)
        /\ happened' = happened \cup (IF join.pc = "replaced" THEN {"half"} ELSE {})
    BY <1>2 DEF CrashFrame, rawVars, barsVars, frameVars
  <2> QED
    BY <2>1, EndFrame DEF JoinUndisturbed
<1>3. FrameRest'
  BY <1>1, <1>2, OutsideFrame, LoadFrame, StatFrame, ListFrame, ReadFrame, ReplaceFrameRest, TruncateFrameRest,
     WriteFrameRest DEF Next
<1> QED
  BY <1>1, <1>3 DEF FInv, FrameRest

\* A fresh frame: no source is newer than the mtime in its meta, so each is the one read.
LEMMA FInvFrameCurrent == FInv => FrameCurrent
<1> SUFFICES ASSUME FInv, JoinUndisturbed, join.pc = "idle", NEW look \in Lookbacks, FrameFresh(look, schema.frame)
             PROVE  frame = [bars |-> bars.mtime, of |-> Contents(Candles), look |-> look, schema |-> schema.frame]
  BY DEF FrameCurrent
<1>1. TypeOK /\ FrameVouches
  BY DEF FInv, IInv
<1>2. bars.mtime <= frameMeta.mtime /\ \A f \in Candles : raw[f] <= frameMeta.mtime
  <2>1. SourceMtime <= frameMeta.mtime
    BY <1>1, FrameNumbers DEF FrameFresh
  <2>2. ASSUME NEW f \in Candles PROVE raw[f] <= frameMeta.mtime
    <3>1. raw[f] \in Nat /\ raw[f] <= SourceMtime /\ SourceMtime \in Nat /\ frameMeta.mtime \in Nat
      BY <1>1, FrameNumbers DEF Files
    <3> QED
      BY <2>1, <3>1
  <2>3. bars.mtime <= frameMeta.mtime
    BY <1>1, <2>1, FrameNumbers
  <2> QED
    BY <2>2, <2>3
<1>3. frame.bars = bars.mtime /\ \A f \in Candles : frame.of[f] = raw[f]
  BY <1>1, <1>2, FrameNumbers DEF FrameFresh, FrameVouches, Files
<1>4. frame.look = look /\ frame.schema = schema.frame
  BY <1>1 DEF FrameFresh, FrameVouches
<1>5. frame.of = Contents(Candles)
  BY <1>1, <1>3 DEF TypeOK, Contents
<1> QED
  BY <1>1, <1>3, <1>4, <1>5 DEF TypeOK

\* A frame that `frame` takes for up to date was made from the bars and the candle files on
\* disk, with the lookback asked for, whatever ran beside it, unless one of the four kinds
\* of event happened that the mtimes cannot show.
THEOREM FrameStaysCurrent == Spec => []FrameCurrent
BY InitFInv, StepFInv, FInvFrameCurrent, PTL DEF Spec

=============================================================================
