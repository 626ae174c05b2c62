----------------------------- MODULE CacheBuild -----------------------------
(***************************************************************************)
(* The two caches of the pipeline: the bars (resample.py, build) made from *)
(* the tick files, and the frame (features.py, build_frame) made from the  *)
(* bars and the candle files.  Each is a data file and a meta file, which  *)
(* are replaced one after the other; freshness is by mtime.  A `resample`  *)
(* and a `frame` may run beside each other and beside a download that      *)
(* replaces raw files, and may die anywhere.  A `resample` lists the tick  *)
(* files, then looks at the mtime of one after the other, and only then    *)
(* decides.  A command that raises before it has read anything leaves no   *)
(* trace: it is a stuttering step.                                         *)
(***************************************************************************)
EXTENDS Integers, FiniteSets, FiniteSetsExt

CONSTANTS
  Ticks, Candles,  \* the raw files of the two tables, one a day
  Lookbacks,       \* values of --vol-lookback and --rv-lookback
  MaxStamps,       \* bound: files written
  MaxRuns,         \* bound: commands that build
  MaxEvents        \* bound: crashes, removed files and upgrades

ASSUME CachesAssumption ==
  /\ Ticks \subseteq Nat /\ Candles \subseteq Nat /\ Ticks \cap Candles = {}
  /\ IsFiniteSet(Ticks) /\ IsFiniteSet(Candles)
  /\ MaxStamps \in Nat /\ MaxRuns \in Nat /\ MaxEvents \in Nat

VARIABLES
  clock,      \* the last mtime given
  raw,        \* mtime of each raw file, 0 when there is none; it stands for the contents too
  tmp,        \* the same for what a download has written and not yet put in place
  bars,       \* the bars' data file: its mtime, the tick files it was made from, its schema
  barsMeta,   \* its meta file: raw_mtime and schema_version
  frame,      \* the frame's data file: the bars and candles it was made from, lookback, schema
  frameMeta,  \* its meta file: source_mtime, lookback and schema_version
  schema,     \* SCHEMA_VERSION of the two modules, in the code that is installed
  build,      \* the `resample` under way
  join,       \* the `frame` under way
  runs, events,
  happened    \* the kinds of event that can make a cache pass for fresh (see Properties)

vars == <<clock, raw, tmp, bars, barsMeta, frame, frameMeta, schema, build, join, runs, events, happened>>

Files == Ticks \cup Candles

OnDisk(files) == {f \in files : raw[f] # 0}
Contents(files) == [f \in files |-> raw[f]]
Newest(files) == Max({0} \cup {raw[f] : f \in files})

NoBars == [mtime |-> 0, of |-> [f \in Ticks |-> 0], schema |-> 0]
NoFrame == [bars |-> 0, of |-> [f \in Candles |-> 0], look |-> 0, schema |-> 0]
Meta == [state |-> "missing", mtime |-> 0, look |-> 0, schema |-> 0]
Torn == [Meta EXCEPT !.state = "torn"]

\* A command: where it is, the schemas of its code, the listed files whose mtime it has
\* still to look at, those it has still to read, and what it has read.
Idle(files) ==
  [pc |-> "idle", schema |-> 0, look |-> 0, newest |-> 0, bars |-> 0,
   unseen |-> {}, unread |-> {}, got |-> [f \in files |-> 0]]

Init ==
  /\ clock = 0
  /\ raw = [f \in Files |-> 0] /\ tmp = raw
  /\ bars = NoBars /\ barsMeta = Meta
  /\ frame = NoFrame /\ frameMeta = Meta
  /\ schema = [bars |-> 1, frame |-> 1]
  /\ build = Idle(Ticks) /\ join = Idle(Candles)
  /\ runs = 0 /\ events = 0 /\ happened = {}

Stamp == clock < MaxStamps /\ clock' = clock + 1
Event == events < MaxEvents /\ events' = events + 1
Run == runs < MaxRuns /\ runs' = runs + 1

rawVars == <<raw, tmp>>
barsVars == <<bars, barsMeta>>
frameVars == <<frame, frameMeta>>

----------------------------------------------------------------------------
(* download: a day is written to a temporary file, then put in place       *)

WriteTmp(f) ==
  /\ Stamp
  /\ tmp[f] = 0
  /\ tmp' = [tmp EXCEPT ![f] = clock']
  /\ UNCHANGED <<raw, barsVars, frameVars, schema, build, join, runs, events, happened>>

\* The mtime is that of the writing: beside other writers it may be older than a file's
\* that is there already.
Late(stamp, others) == IF stamp < others THEN {"late"} ELSE {}

Seen(f) == IF f \in Ticks THEN Newest(Ticks) ELSE Max({Newest(Candles), bars.mtime})

\* "unlisted": a new tick file beside a `resample` that has listed the files and has still
\* the mtimes of some to look at.
Unlisted(f) ==
  IF f \in Ticks /\ raw[f] = 0 /\ build.unseen # {} THEN {"unlisted"} ELSE {}

PutInPlace(f) ==
  /\ tmp[f] # 0
  /\ raw' = [raw EXCEPT ![f] = tmp[f]]
  /\ tmp' = [tmp EXCEPT ![f] = 0]
  /\ happened' = happened \cup Late(tmp[f], Seen(f)) \cup Unlisted(f)
  /\ UNCHANGED <<clock, barsVars, frameVars, schema, build, join, runs, events>>

RemoveFile(f) ==
  /\ Event
  /\ raw[f] # 0
  /\ raw' = [raw EXCEPT ![f] = 0]
  /\ happened' = happened \cup {"removed"}
  /\ UNCHANGED <<clock, tmp, barsVars, frameVars, schema, build, join, runs>>

\* New code, with another schema of the bars or of the frame.
Upgrade(cache) ==
  /\ Event
  /\ schema' = [schema EXCEPT ![cache] = @ + 1]
  /\ UNCHANGED <<clock, rawVars, barsVars, frameVars, build, join, runs, happened>>

----------------------------------------------------------------------------
(* resample                                                                *)

\* What a resample with this code, and these mtimes seen, takes for up to date.
BarsUpToDate(newest, version) ==
  /\ bars.mtime # 0 /\ barsMeta.state = "written"
  /\ barsMeta.schema = version
  /\ barsMeta.mtime >= newest

BarsFresh == BarsUpToDate(Newest(Ticks), schema.bars)

\* Mutant: the files of both tables are listed.
ListAll ==
  /\ build.pc = "idle"
  /\ OnDisk(Ticks) # {}
  /\ build' = [build EXCEPT !.pc = "stat", !.schema = schema.bars, !.unseen = OnDisk(Files), !.unread = OnDisk(Files)]
  /\ UNCHANGED <<clock, rawVars, barsVars, frameVars, schema, join, runs, events, happened>>

\* raw_files
ListTicks ==
  /\ build.pc = "idle"
  /\ OnDisk(Ticks) # {}
  /\ build' = [build EXCEPT !.pc = "stat", !.schema = schema.bars, !.unseen = OnDisk(Ticks), !.unread = OnDisk(Ticks)]
  /\ UNCHANGED <<clock, rawVars, barsVars, frameVars, schema, join, runs, events, happened>>

\* A command takes its files in the order of their days; one that is gone ends it.
StatNext ==
  LET f == Min(build.unseen)
  IN  [build EXCEPT !.unseen = @ \ {f}, !.newest = Max({@, raw[f]})]

StatTick ==
  /\ build.unseen # {}
  /\ build' = IF raw[Min(build.unseen)] # 0 THEN StatNext ELSE Idle(Ticks)
  /\ UNCHANGED <<clock, rawVars, barsVars, frameVars, schema, join, runs, events, happened>>

\* Bars that are up to date end the command.  A torn meta file does not parse: only --force,
\* or no data file, gets past it.
Resample(force) ==
  /\ build.pc = "stat" /\ build.unseen = {}
  /\ IF force \/ bars.mtime = 0 \/ (barsMeta.state # "torn" /\ ~ BarsUpToDate(build.newest, build.schema))
     THEN Run /\ build' = [build EXCEPT !.pc = "read"]
     ELSE UNCHANGED runs /\ build' = Idle(Ticks)
  /\ UNCHANGED <<clock, rawVars, barsVars, frameVars, schema, join, events, happened>>

ReadNext(cmd) ==
  LET f == Min(cmd.unread)
  IN  [cmd EXCEPT !.unread = @ \ {f}, !.got[f] = raw[f]]

ReadTicks ==
  /\ build.pc = "read" /\ build.unread # {}
  /\ build' = IF raw[Min(build.unread)] # 0 THEN ReadNext(build) ELSE Idle(Ticks)
  /\ UNCHANGED <<clock, rawVars, barsVars, frameVars, schema, join, runs, events, happened>>

WriteBars ==
  /\ build.pc = "read" /\ build.unread = {}
  /\ Stamp
  /\ build' = [build EXCEPT !.pc = "written", !.bars = clock']
  /\ UNCHANGED <<rawVars, barsVars, frameVars, schema, join, runs, events, happened>>

\* "overlap": between a frame's reading of the bars and its look at their mtime.
ReplaceBars ==
  /\ build.pc = "written"
  /\ bars' = [mtime |-> build.bars, of |-> build.got, schema |-> build.schema]
  /\ build' = [build EXCEPT !.pc = "replaced"]
  /\ happened' = happened \cup Late(build.bars, Newest(Candles)) \cup (IF join.pc = "loaded" THEN {"overlap"} ELSE {})
  /\ UNCHANGED <<clock, rawVars, barsMeta, frameVars, schema, join, runs, events>>

TruncateBarsMeta ==
  /\ build.pc = "replaced"
  /\ barsMeta' = Torn
  /\ build' = [build EXCEPT !.pc = "meta"]
  /\ UNCHANGED <<clock, rawVars, bars, frameVars, schema, join, runs, events, happened>>

\* Mutant: the newest mtime is taken when the meta is written.
WriteBarsMetaLate ==
  /\ build.pc = "meta"
  /\ barsMeta' = [state |-> "written", mtime |-> Newest(Ticks), look |-> 0, schema |-> build.schema]
  /\ build' = Idle(Ticks)
  /\ UNCHANGED <<clock, rawVars, bars, frameVars, schema, join, runs, events, happened>>

WriteBarsMeta ==
  /\ build.pc = "meta"
  /\ barsMeta' = [state |-> "written", mtime |-> build.newest, look |-> 0, schema |-> build.schema]
  /\ build' = Idle(Ticks)
  /\ UNCHANGED <<clock, rawVars, bars, frameVars, schema, join, runs, events, happened>>

----------------------------------------------------------------------------
(* frame                                                                   *)

\* load_bars refuses bars without a meta of its schema.
LoadBars(look) ==
  /\ join.pc = "idle"
  /\ Run
  /\ bars.mtime # 0
  /\ barsMeta.state = "written" /\ barsMeta.schema = schema.bars
  /\ join' = [join EXCEPT !.pc = "loaded", !.schema = schema.frame, !.look = look, !.bars = bars.mtime]
  /\ UNCHANGED <<clock, rawVars, barsVars, frameVars, schema, build, events, happened>>

\* Mutant: the candles do not count.
SourceMtimeOfBars == bars.mtime

\* _source_mtime
SourceMtime == Max({bars.mtime, Newest(Candles)})

\* What a frame command with this lookback and schema takes for up to date.
FrameFresh(look, version) ==
  /\ frame.bars # 0 /\ frameMeta.state = "written"
  /\ frameMeta.schema = version
  /\ frameMeta.mtime >= SourceMtime
  /\ frameMeta.look = look

\* Up to date, and torn without --force, end the command.
StatSources(force) ==
  /\ join.pc = "loaded"
  /\ join' = IF force \/ frame.bars = 0 \/ (frameMeta.state # "torn" /\ ~ FrameFresh(join.look, join.schema))
             THEN [join EXCEPT !.pc = "stated", !.newest = SourceMtime]
             ELSE Idle(Candles)
  /\ UNCHANGED <<clock, rawVars, barsVars, frameVars, schema, build, runs, events, happened>>

ListCandles ==
  /\ join.pc = "stated"
  /\ join' = [join EXCEPT !.pc = "read", !.unread = OnDisk(Candles)]
  /\ UNCHANGED <<clock, rawVars, barsVars, frameVars, schema, build, runs, events, happened>>

ReadCandles ==
  /\ join.pc = "read" /\ join.unread # {}
  /\ join' = IF raw[Min(join.unread)] # 0 THEN ReadNext(join) ELSE Idle(Candles)
  /\ UNCHANGED <<clock, rawVars, barsVars, frameVars, schema, build, runs, events, happened>>

\* The temporary file and its renaming: nothing looks at the frame's mtime.
ReplaceFrame ==
  /\ join.pc = "read" /\ join.unread = {}
  /\ frame' = [bars |-> join.bars, of |-> join.got, look |-> join.look, schema |-> join.schema]
  /\ join' = [join EXCEPT !.pc = "replaced"]
  /\ UNCHANGED <<clock, rawVars, barsVars, frameMeta, schema, build, runs, events, happened>>

TruncateFrameMeta ==
  /\ join.pc = "replaced"
  /\ frameMeta' = Torn
  /\ join' = [join EXCEPT !.pc = "meta"]
  /\ UNCHANGED <<clock, rawVars, barsVars, frame, schema, build, runs, events, happened>>

WriteFrameMeta ==
  /\ join.pc = "meta"
  /\ frameMeta' = [state |-> "written", mtime |-> join.newest, look |-> join.look, schema |-> join.schema]
  /\ join' = Idle(Candles)
  /\ UNCHANGED <<clock, rawVars, barsVars, frame, schema, build, runs, events, happened>>

----------------------------------------------------------------------------
(* A command dies.  "half": a new frame beside the meta of the old one.    *)

CrashResample ==
  /\ Event
  /\ build.pc # "idle"
  /\ build' = Idle(Ticks)
  /\ UNCHANGED <<clock, rawVars, barsVars, frameVars, schema, join, runs, happened>>

CrashFrame ==
  /\ Event
  /\ join.pc # "idle"
  /\ join' = Idle(Candles)
  /\ happened' = happened \cup (IF join.pc = "replaced" THEN {"half"} ELSE {})
  /\ UNCHANGED <<clock, rawVars, barsVars, frameVars, schema, build, runs>>

Next ==
  \/ \E f \in Files : WriteTmp(f) \/ PutInPlace(f) \/ RemoveFile(f)
  \/ \E c \in {"bars", "frame"} : Upgrade(c)
  \/ ListTicks \/ StatTick
  \/ \E force \in BOOLEAN : Resample(force) \/ StatSources(force)
  \/ ReadTicks \/ WriteBars \/ ReplaceBars \/ TruncateBarsMeta \/ WriteBarsMeta
  \/ \E look \in Lookbacks : LoadBars(look)
  \/ ListCandles \/ ReadCandles \/ ReplaceFrame \/ TruncateFrameMeta \/ WriteFrameMeta
  \/ CrashResample \/ CrashFrame

Spec == Init /\ [][Next]_vars

----------------------------------------------------------------------------
(* Properties                                                              *)

Stamps == 0 .. clock

Commands(points, files) ==
  [pc : points, schema : Nat, look : Lookbacks \cup {0}, newest : Stamps, bars : Stamps,
   unseen : SUBSET files, unread : SUBSET files, got : [files -> Stamps]]

TypeOK ==
  /\ clock \in 0 .. MaxStamps /\ runs \in 0 .. MaxRuns /\ events \in 0 .. MaxEvents
  /\ raw \in [Files -> Stamps] /\ tmp \in [Files -> Stamps]
  /\ bars \in [mtime : Stamps, of : [Ticks -> Stamps], schema : Nat]
  /\ frame \in [bars : Stamps, of : [Candles -> Stamps], look : Lookbacks \cup {0}, schema : Nat]
  /\ \A m \in {barsMeta, frameMeta} :
       m \in [state : {"missing", "torn", "written"}, mtime : Stamps, look : Lookbacks \cup {0}, schema : Nat]
  /\ schema \in [{"bars", "frame"} -> Nat]
  /\ build \in Commands({"idle", "stat", "read", "written", "replaced", "meta"}, Ticks)
  /\ join \in Commands({"idle", "loaded", "stated", "read", "replaced", "meta"}, Candles)
  /\ happened \subseteq {"late", "removed", "unlisted", "overlap", "half"}

\* The events that the mtimes of a cache's sources cannot show.
Undisturbed == happened \cap {"late", "removed", "unlisted"} = {}
JoinUndisturbed == happened \cap {"late", "removed", "overlap", "half"} = {}

\* Bars that resample calls up to date are those of the tick files on disk, made by this
\* schema, whatever was replaced while they were made and wherever a command died.  Not
\* so after a removal, after a file put in place with an mtime older than another's, or
\* after a new day's file put in place between the listing and the look at the last mtime:
\* the bars lack it, and the mtime recorded may be that of a file replaced after it.
BarsCurrent ==
  Undisturbed /\ BarsFresh =>
    bars.of = Contents(Ticks) /\ bars.schema = schema.bars

\* A frame that `frame` calls up to date was made from the bars and the candle files on
\* disk, with the lookback asked for.  This takes that no file was removed or put in place
\* late, that no bars were replaced between their reading and their stat, and no crash
\* between data and meta.
FrameCurrent ==
  JoinUndisturbed /\ join.pc = "idle" =>
    \A look \in Lookbacks :
      FrameFresh(look, schema.frame) =>
        frame = [bars |-> bars.mtime, of |-> Contents(Candles), look |-> look, schema |-> schema.frame]

\* What tests/test_frame.py says: another lookback than the frame's rebuilds it.
LookbackRebuilds ==
  join.pc = "idle" => \A look \in Lookbacks : FrameFresh(look, schema.frame) => frame.look = look

=============================================================================
