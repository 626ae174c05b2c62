# chud-money-predictor in TLA+

Specifications of `chudp` where state, ordering and index arithmetic decide
whether it is right: how it holds on to a login, how it pulls days of market data
over a flaky stream, how it keeps day files, a manifest and two caches that can
be trusted, which rows a forecast or a fine-tuning run may read, and which
checkpoint a training run promotes. TLC checks
each module on small instances; TLAPS proves every invariant that these runs check,
and both refinements, for every value of the constants.

Paths below are relative to `src/src/chud_predictor/` unless they start with `src/`.

## 1. The system

`chudp` is a batch pipeline of separate processes: `download` → `resample` →
`frame` → `backtest-contract` / `finetune`. Steps talk through files. Inside
`download` a thread pool fetches days; all its threads share one token provider
and one API client. Any number of `chudp` processes share the session file.

| component | state | operations | talks to |
|---|---|---|---|
| token provider (`auth.py`, `VerysTokenProvider`) | cached bearer, Verys access token, session read last; `session.json`, `session.lock` | `token`, `invalidate`, `_mint` | Verys (`/token`, `/authorize`), sibling processes through flock and the file |
| auth commands (`cli.py`) | none beside the session file | `auth login`, `logout`, `status`, `token`, `refresh` | Verys, the session file (without the flock) |
| session file (`auth.py`, `Session`) | one JSON file, one temporary name that all savers share | `load`, `save` | both of the above |
| day export (`api.py`, `fetch_day`) | per call: attempts, three failure counters, rows, `done.rows` | `fetch_day`, `_stream_day` | token provider, the API's two export permits |
| SSE parser, metadata (`api.py`) | the event being assembled | `iter_sse`, `bounds`, `_get` | the API |
| download (`download.py`) | day files, `_manifest.json`, its copy in memory | `plan_days`, `download_day`, `download` | `fetch_day` in pool threads |
| bar and frame caches (`resample.py`, `features.py`) | a Parquet file and a meta file each | `build`, `build_frame`, `load_bars`, `load_frame` | day files, by mtime |
| forecast origins (`origins.py`) | none | `make_origins`, `parse_minutes` | the frame |
| fine-tuning splits (`finetune.py`) | none | `split_bounds`, `assign_splits`, `prepare_data`, `subsample` | frame, origins, the persistence fan |
| fine-tuning loop (`finetune.py`) | `_Epochs`, gradients, skips, best, patience; the run directory: `best/`, `last/`, `summary.json` | `take`, `run_finetune` | splits, batches |
| covariates, backtest (`covariates.py`, `backtest.py`) | none | `build_arrays`, `forecast_origins`, `fit_fan`, `assemble` | frame, origins, model |
| metrics, baselines, model, plots | none that outlives a call | data-frame and tensor expressions | |
| settings, command line | none | argument passing | |

What is hard, and what makes each component correct:

* **Token provider.** Threads race for one lock, processes for one flock, and
  Verys rotates the refresh token on every use, so presenting an old one loses
  the login. Correct when mints exclude each other, always work on the session on
  disk, happen only when needed, never lose the stored credential without a
  fault that must lose it, and always release both locks.
* **Auth commands.** They change the same files without the locks. Correct when
  a login disturbs no mint, so far as the saves of the two do not overlap, and a
  logout leaves nothing behind.
* **Day export.** Three kinds of failure share one retry loop, permits are
  contended, and a stream can end anywhere. Correct when every attempt is paid
  for, the call ends, and a result that says it is whole is whole.
* **Download.** The table grows meanwhile, days finish in any order, some fail,
  the process may die between a file and its record. Correct when the manifest
  never vouches for a day that is not whole, and a clean run repairs the rest.
* **Caches.** Two files replaced one after the other, freshness by mtime. Correct
  when a cache that is taken for fresh was built from what is on disk.
* **Session file.** Savers share one temporary name and not all of them take the
  flock. Correct when a reader always finds one whole session.
* **Origins and splits.** Index arithmetic at window, frame and split boundaries.
  Correct when no origin reads the future and no target is in two splits.
* **Batches and backtest.** Rows are gathered, clipped, masked and joined again by
  minute. Correct when a context holds only the past, but for the strike of the contract
  that is forecast, every quoted step of a contract is scored once, against its own
  minute and outcome, and a fan that is fitted is in-sample only when it says so.
* **Fine-tuning loop.** Batches cross epochs, updates are skipped, the run stops
  early, directories are used again. Correct when no origin is favoured, an update is
  the gradient of its own batch, the run ends, and a summary names a checkpoint that
  exists and was the best.

`PROJECT.json` lists the hazards line by line, with the properties that cover
each; one without a property says why.

## 2. Modules

| module | models | extends |
|---|---|---|
| `TokenProvider` | `auth.py` `VerysTokenProvider`, `_flock`, `Session` | |
| `TokenProviderProofs` | theorems | `TokenProvider`, `TLAPS` |
| `AuthCli` | `cli.py` `auth_login`, `auth_logout` beside the provider | `TokenProvider` |
| `AuthCliProofs` | theorems | `AuthCli`, `TokenProviderProofs` |
| `SessionFile` | `auth.py` `Session.save`, `load`, at the level of names and inodes | |
| `FetchDay` | `api.py` `fetch_day`, `_stream_day`, two or more at once | |
| `OneFetch` | what a `fetch_day` promises its caller; implemented by `FetchDay` | |
| `FetchDayProofs` | theorems | `FetchDay`, `TLAPS` |
| `Download` | `download.py`: plan, pool, files, manifest, runs and crashes | |
| `DayStore` | what the directory promises; implemented by `Download` | |
| `CacheBuild` | `resample.py` `build`, `load_bars`; `features.py` `build_frame`; the raw files under them | |
| `Origins` | `origins.py` `make_origins`, with the strike column of `features.py` | |
| `Splits` | `finetune.py` `prepare_data`: bounds, splits, rows of the fan | `Origins` |
| `Batches` | `covariates.py` `build_arrays`, `backtest.py` by row, `finetune.py` `subsample` | `Splits` |
| `FineTune` | `finetune.py` `_Epochs`, `run_finetune` | |
| `Extrema` | lemmas: `Min` and `Max` of a set of integers | `TLAPS` |
| `DownloadProofs`, `CacheBuildProofs`, `FineTuneProofs` | theorems | `Download`, `CacheBuild`, `FineTune`; `Extrema` |
| `SplitsProofs` | theorems about `Origins`, `Splits` and `Batches` | `Batches`; `Extrema` |
| `MCTokenProvider`, `MCAuthCli`, `MCSessionFile`, `MCFetchDay`, `MCDownload`, `MCSplits`, `MCFineTune` | instances for TLC | the module each is named for; `MCSplits` extends `Batches` |

Operators named in a comment `Mutant:` are broken variants of the definition that
follows them. They belong to no specification; `PROJECT.json` names the run and
property that must fail when one takes the place of the original.

### TokenProvider

A thread's `pc` is where it stands in `token()` or `invalidate()`; a step of the
model is what the code does between two points where another process can be
noticed: waiting for `_lock`, opening the lock file, taking the flock, reading
the session, each request to Verys, each save, leaving. `Minting` are the points
under `_lock`, `Critical` those under the flock too.

| in the model | in the code |
|---|---|
| `lock[p]`, `token[p]`, `access[p]`, `mem[p]` | `_lock`, `_token`, `_access`, `_session` of a provider |
| `fd`, `holding`, `lockIno` | the inode a thread has open, `LOCK_EX` on it, the inode at the lock file's path |
| `file` | `session.json`: its refresh token and cookies |
| `live`, `accepted`, `young`, `issued`, `validCookies` | what Verys would take; which access tokens are not near expiry |
| `TokenCached` / `TokenStale` | the two branches of `token()` |
| `OpenLockFile`, `TakeFlock`, `Finish` | `_flock`; `Finish` is both `finally`s |
| `LoadSession`, `LoadMissing` | `Session.load` at the top of `_mint` |
| `RefreshRotates`, `RefreshKeeps`, `RefreshRefused`, `RefreshLost` | the outcomes of `client.refresh` |
| `Reauthorize…`, `Grant…` | `_reauthorize`: `/authorize` with the cookies, then the code grant |
| `StoreRefresh`, `StoreFails` | `_store_refresh` and a save that raises |
| `Exchange`, `ExchangeRetry`, `ExchangeRefused` | the exchange and its one retry |
| `RequestFails` | any other error of a request |
| `Crash` | the process dies: memory and flock go, files stay |
| `BearerAges`, `AccessAges`, `AccessRevoked`, `SpaSignout`, `CookiesDie` | time and Verys |

A refresh token and the access token issued with it share a number, counted by `issued`.
Roles, audiences and the consent screen are folded into `RequestFails` and
`Reauthorize`: they decide whether a request fails, never what it changes.
`Session.save` is one step here, since all the savers of this module hold the flock;
beside a saver that does not, `AuthCli` takes it apart. `happened` records the kinds of
fault so far, so that a property can name exactly the faults it depends on.

### AuthCli

Adds to `TokenProvider` the commands as actors with a `cmd` of their own. Both
read, write or unlink the session between the steps of running mints, because
neither takes the flock. `login` tries the saved cookies first, then the emailed
code; `logout` revokes (best effort), unlinks the session, unlinks the lock file.
`raced` is a history variable: a mint overlapped the logout.

A mint and a `login` may save at once, so `Session.save` is taken apart for both. In
place of `StoreRefresh` and `StoreFails` there are

| in the model | in the code |
|---|---|
| `SaveOpens` | `os.open` of `session.json.tmp`, which empties what is there |
| `SaveWrites` | `json.dump` and `fsync`, to a file that may have another name by now, or none |
| `SaveReplaces`, `SaveMisses` | `os.replace` of whatever has the name; without one it raises |
| `SaveFails`, `SaveCleansUp` | an error in between; the handler unlinks the name, whoever's it is |
| `at[w]`, `fdName[w]` | where a saver is, and what the file it has open is called now |
| `path`, `tmp`, `file` | what there is under the two names, and what `Session.load` makes of the first |

`tangled` is a history variable: a save began, or failed, while another was under
way. Then a login can empty or take away what a mint is about to rename, so neither
`LoginKeepsCredential` nor `LoginDisturbsNoMint` holds, and both name it as a premise.
What such an overlap does to the file is the subject of `SessionFile`. Short of that a
login may still replace the session anywhere between a mint's read and its save.

### SessionFile

Each saver opens the temporary file (`Open`, which empties whatever is there), writes
it (`Write`, over what somebody else may have written meanwhile) and renames the name
(`Replace`, whoever's file it stands for by then). A mint and a `refresh` take the
flock, `login` does not. An inode holds at each place the saver that wrote it, so
that a file is one session exactly if all of it is of one saver and of its length
(`Loads`). A write that fails, or a rename that finds nothing, goes to `Cleanup`, which
unlinks the name, whoever's it is by then; a kill leaves it.

### FetchDay

One actor per concurrent `fetch_day`, all sharing the provider's bearer and the
API's permits. `pc` walks `start`/`connect` (loop top), `open` (response status),
`stream` (events), `decide` (`fetch.ok`), `end`. Each status of `_raise_status`
and each exception is an action. The provider is reduced to what the fetchers see
of it: a cached bearer, a mint when there is none or it has expired, `invalidate()`.
The API gives out `DataStreams` permits: no more streams of ours than that are open at
once (`Open`), and a 429 is always possible (`OpenThrottled`), since the web app,
another download or a stream whose end the API has not noticed may hold the rest.

Rows are known by their number in the day, and `rows[f]` is the sequence of those that
the current attempt has parsed: a row the API has counted in `sent` may never arrive
(`RowLost`), and rows of an earlier attempt would show as repeated. `Done` brings the
count of the API, which may be more than was parsed, or no count (`NoCount`); `Whole` is
`DayFetch.ok`. Of the API it is assumed that the count in `done` is the rows of the day
and that it sends each once, in order. `iter_sse` is there through what it makes of a
stream: one whose last event lacks its blank line ends without `done`, like one that is
cut.

`OneFetch` is the promise to the caller: one outcome, after at most
`Retries + ThrottleRetries` connections, verified only with every row of the day once, a
prefix (some rows, in order, none twice) or an error only after the connections that
justify it. `Fetch` in `FetchDay` is the refinement: the attempts are the connections,
`result` the outcome, the rows that are handed over `kept`.

### Download

Time is cut in ticks, `TicksPerDay` to a day; a row is the tick it falls on and the last
tick of a day is its last microsecond. `StartRun` is the head of `download` up to
filling the pool: load the manifest, take the snapshot from the lagging summary, clip,
plan. A planned day goes `queued` → `fetched` (rows in hand, a pool slot taken) →
`written` (the future is done) → recorded by the main thread, or `failed` → skipped.
`FetchWhole` and `FetchPrefix` are the two results of `FetchDay` (`ok`, `prefix`),
`FetchFails` its exceptions and a failing write, `Forget` the end of a `download_day`'s
locals. The table only grows: rule 3 of the module's docstring says that a rewrite of a
complete day is not detected.

`DayStore` is the promise of the directory, with the table, the files, the days
vouched for and whether a run is under way: a file is only ever replaced by rows of
the table, a day is vouched for in a step that finds it sealed and all its rows on
disk, only a loss between two runs takes a file away. `Store` in `Download` is the
refinement. It says nothing of what a vouch is worth later, which is
`CompleteIsWholeUnlessRefetched`.

### CacheBuild

The bars are made from tick files, the frame from the bars and the candle files;
each cache is a data file and a meta file, replaced one after the other. Contents
are abstracted to provenance: a raw file is its mtime, unique to one writing, and a
cache records the mtimes of the files it was made from (`of`). So "this cache is
what a build would give now" is `bars.of = Contents(Ticks)`.

| in the model | in the code |
|---|---|
| `WriteTmp`, `PutInPlace` | the temporary file and `os.replace` of `download_day`; the mtime is that of the writing |
| `BarsUpToDate`, `FrameFresh` | what `build` and `build_frame` take for up to date; `BarsFresh` is the former for what is on disk now |
| `ListTicks`, `StatTick` | the list of tick files, then the mtime of one after the other |
| `Resample` | the decision to build, by the newest of the mtimes seen |
| `ReadTicks`, `ReadCandles` | one file of `to_bars_by_day`, `load_contract_candles`, in the order of the days |
| `WriteBars`, `ReplaceBars`, `TruncateBarsMeta`, `WriteBarsMeta` | temporary file, rename, and `write_text`, which empties the meta before it fills it |
| `LoadBars`, `StatSources`, `ListCandles` | the head of `build_frame`: bars first, then mtimes, then the list of candles |
| `Crash…`, `RemoveFile`, `Upgrade` | a command dies; a file goes; another `SCHEMA_VERSION` is installed |

`vol_lookback` and `rv_lookback` are one parameter. A command that finds its cache
fresh, or raises before it writes, changes nothing, so it is no action. One
`resample` and one `frame` run at a time beside any downloads; two `resample`s at
once would share a temporary file, as the savers of `SessionFile` do.

### Origins, Splits and Batches

A frame is its first minute and the rows that lack a value: a quoted candle, a
published strike, a mean to impute one from, what an origin needs. `Usable` is every
condition `make_origins` drops a row for, with `CtxLo`, `T0`, `NSteps` and the rows
it looks up; `Requested`, `Earliest` and `Kept` are the selection, stride and cap on
windows. `StrikeSource(i)` is the row that the strike of origin `i` is read from.

`Splits` runs the stages of `prepare_data`: `SelectOrigins`, `SplitBounds` (dates
or fractions, rounded to midnights), `AssignSplits`, `FitFan`; each may fail as the
code does. A backtest stops after the first. Fractions are in units of `1/FracDen`.
The specification has one behaviour for each frame and request, so its runs are a
check of an algorithm over all of them.

`Batches` adds what is computed from the selected origins, with every value
abstracted to the rows it is read from.

| in the model | in the code |
|---|---|
| `CtxRows`, `InterpolateRows`, `Mask`, `Reference` | the context of `build_arrays`, `interpolate_rows`, `persist_ref` |
| `StrikeColumnReads` | the columns computed from a strike (`moneyness`, `rw_z`, `rw_p`), with the row that published it |
| `FairPathReads` | the origin's strike and volatility on the fair value path |
| `Scored`, `StepK`, `FairK` | its steps: `inside`, `within`, the clipped rows, `step_k`, the fair value path |
| `ChunkFrom`, `CallsFor` | the loop of `forecast_origins` |
| `BarTs`, `OutcomeRows`, `Outcome` | the columns of the long table and the joins of `assemble` |
| `FanBetween`, `FanCells`, `BacktestFan`, `FanMode` | `persistence_fan`, `fan_cells`, `fit_fan` |
| `FileFan` | the fan of a `--fan-from` file, which `fit_fan` takes unchecked (mode `"file"`) |
| `Sample` | `subsample`; a half may round either way, since the quotient is a float |

### FineTune

One run at a time in one directory, which an earlier run may have used (`--run-id`).
`pc` is where `run_finetune` stands.

| in the model | in the code |
|---|---|
| `StartRun`, `ZeroShot` | the set-up files, then the evaluation before any step |
| `NextStep`, `Take` | the loop head; `_Epochs.take`, one action for each turn of its loop |
| `MicroBatch`, `NonFiniteLoss` | one forward and backward; a loss that raises |
| `Update`, `Skip`, `SkipTooOften` | `opt.step`; a non-finite gradient; ten of them in a row |
| `Evaluate` | an evaluation, `improved`, `stale`, the early stop |
| `BeginSave`, `EndSave` | `save_pretrained(best_dir)`, between which `best/` is torn |
| `SaveLast`, `Reload`, `WriteSummary` | the end of a run |
| `Crash` | a kill or an exception anywhere |

Weights are known by the steps whose updates made them, and the same weights score
the same (`ScoresOf`); a score may be NaN. `ahead` is a history variable: how much
oftener than the rarest one an origin was taken. Learning rate, losses and
precision are left out, and so is the log.

## 3. Runs

| run | instance | question |
|---|---|---|
| `TokenProvider` | 2 threads + 1 thread in 2 processes, 2 calls, 2 faults of any kind, weak fairness | exclusion, fresh session, one mint per storm, one retry suffices; which faults can lose the credential; every call returns |
| `AuthCli` | 2 processes of 1 thread, a login or a logout, 2 calls, or 1 call and 1 fault | unless two saves overlap a login leaves a usable session and disturbs no mint; a logout leaves nothing behind |
| `AuthCli_lock` | 2 processes, 1 logout, no fault | *violation*: what unlinking the lock file allows |
| `SessionFile` | a mint under the flock and a login without it, sessions of 2 lengths, failed saves and kills | *violation*: what sharing one temporary name allows |
| `FetchDay` | 2 fetchers, days of 2 rows, budgets 2 and 2, 1 permit, 1 expiry, weak fairness | the promise of `OneFetch`, renewal before rejection, every fetch ends |
| `Download` | 2 days of 2 ticks with 3 runs and 3 faults, or 3 days with 2 runs and 1 fault; pool of 2, weak fairness | the promise of `DayStore`; complete means whole; clean runs repair; runs end |
| `Download_force` | 2 days of 2 ticks, pool of 1, 2 runs, 2 faults | *violation*: a refetch, a prefix and a crash |
| `CacheBuild` | 2 tick files, 1 candle file, 2 lookbacks, 4 writings, 3 commands, 1 crash, removal or upgrade | what passes for up to date is |
| `CacheBuild_crash` | 1 + 1 files, 3 writings, 3 commands, 1 crash | *violation*: a frame of another lookback passes for up to date |
| `Splits` | 15 rows, windows of 3, days of 6, contexts of 3, gap budget 1, up to 2 defects, chunks of 2, every request of `MCSplits` | origins read and are scored on what they should, once each; splits are apart; the fans read only what they may |
| `Splits_strike` | 10 rows, the same otherwise | *violation*: a strike read from a later row |
| `FineTune` | 2 origins, 3 configurations, 3 scores and NaN, 2 skips in a row, 2 runs in a directory, weak fairness | batches and gradients, which checkpoint is promoted, early stop, the run ends |

Why the bounds are enough. A race for the flock needs two processes, a race for the
thread lock two threads of one of them; two calls each make a thread meet what its
sibling has cached or invalidated. Faults are bounded by 2 or 3 because each property
names the kinds it excludes; two faults already combine a lost answer with a dead
cookie, three a lost file with a prefix and a crash. Budgets of 2 have a first, a last
and no middle failure, which is where an off-by-one shows; the theorems of section 5
hold for all budgets. A day of two rows lets an attempt lose the first or the last of
them, or bring one again that an earlier attempt had. Two days give a sealed day and a
tail, three an empty one in between and more days than pool slots, which
`MCDownload!Small` allows in short histories only; three runs give a day that is
recorded, damaged and repaired. In `CacheBuild` two tick files are what it takes for one
to be replaced behind a reader that is at the other; four writings are those two, the
bars and a replaced file, or a tick file, a candle file, the bars and a replaced file;
three commands build, damage and look. In `Splits` fifteen rows are five contracts over
two and a half days, so that a cut has a whole day on either side; both starts, at a
midnight and inside a window, are covered; two defects are a missing candle and, at most
a contract away, what makes it matter. All four modes of the fan, the file among them,
chunks that are full and one that is not, and a strict sample of at least three origins
occur. In `FineTune` batches of 1 and 3 of two origins end inside an epoch, at its end
and beyond it, a micro-batch of 2 leaves a shorter last one and one of 5 none; three
scores let two evaluations in a row improve, NaN makes each kind of comparison fail; a
second run finds what a first one, finished or not, has left.

The two processes of `AuthCli` run the same code and are symmetric; symmetry is used
there only, in a run without liveness.

Deadlock is checked in `AuthCli` and `FetchDay`, where each module's `Rest` is
the only thing left to do when every call has returned; the two
violation runs of `AuthCli` and `SessionFile` end at their counterexample.
`TokenProvider` leaves it to `CallsReturn`. `Download`, `CacheBuild`, `Splits`,
`SessionFile` and `FineTune` really stop, once what they are given is used up.

Fairness. `WF` on each thread's own steps: the operating system runs every
thread, every HTTP request has a timeout (20 s at Verys, `api_timeout_s` at the
API) so it ends one way or the other, and calls are finite so a lock is not
contended for ever. Nothing is assumed of Verys, of other clients or of the
user. `Download` assumes in addition that each `fetch_day` ends, which is
`FetchEnds`. `FineTune` assumes that the single thread of a run goes on: nothing of
its losses, gradients or scores.

## 4. Where code and words differ

* `auth.py:592` calls the provider process-safe through flock on the lock file.
  `logout` unlinks that file (`cli.py:184`): a mint that waits on the old inode and
  one that creates the new file then run together (`AuthCli_lock`). The session file
  it unlinks without the flock too, so `LogoutForgets` is claimed only for a logout
  that no mint overlaps.
* `Session.save` is documented to replace the file atomically (`auth.py:449`). Its
  temporary name is the same for everyone and `login` saves without the flock
  (`cli.py:97`, `cli.py:110`). When one of a mint and a login has written it and the other
  then opens it, the file is emptied that the first one renames to `session.json`. In the
  trace of `SessionFile` the login writes, the mint opens, and the login renames the empty
  file; with the roles exchanged it is the same. Savers that all take the flock cannot do
  this.
* `src/README.md:29` says a day is recorded complete when its stream was whole.
  After a refetch of a complete day that kept a prefix, and a crash before its
  record, the old record vouches for the new file (`Download_force`). No other
  history does this (`CompleteIsWholeUnlessRefetched`).
* `src/tests/test_frame.py:108` says a changed parameter rebuilds the frame. A `frame`
  with another lookback that dies after it replaced the data and before it wrote the
  meta leaves the old meta to vouch for the new frame (`CacheBuild_crash`).
* `origins.py:118` and `src/tests/test_origins.py:53` say the strike is read from rows
  up to the origin only. `_first_over_window` gives every row of a window the first
  strike the window publishes, also if a later row published it (`Splits_strike`).
  The value is the contract's own strike all the same (`StrikeOfContract`).
  `covariates.py:225` says it of the strike of the fair value path too, and the columns
  computed from a strike have it as well: `src/tests/test_covariates.py:100`, which
  destroys all data after the context, does so to a frame whose strikes are already filled
  in. So `BatchHonest` allows the row that publishes the strike of the contract being
  forecast, and no other row after the origin.
* `baselines.py:12` says the persistence fan is fitted on data strictly before the
  evaluation, and `backtest.py:113` that it is never silently in-sample. `fit_fan` cuts by the
  minute of the row, but a row's steps go on after it: the row just before the first
  evaluated window is its opening origin and brings all prices of that window.
  With `--fan-from` the fan is read from a file and nothing is checked (mode `"file"`): it
  may have been fitted on the evaluated days. `FanBeforeEvaluation` claims the rest, names
  the row as the exception, and of a file claims only that the one which fine-tuning writes
  for a backtest has no price from the origins it holds out or after.

Four limits of the caches are premises of `BarsCurrent` and `FrameCurrent`, each of
them necessary: a removed raw file is not noticed; nor is one that is put in place
with an mtime older than another's, which two threads of the download pool can
produce beside a `resample`; nor a new one that is put in place after `resample` has
listed the files, if a listed file is replaced after it and before its mtime is taken,
for then the newest mtime recorded is above that of the file the bars lack; and bars
replaced between `load_bars` and the stat in `_source_mtime` are taken for the ones that
were read. A meta file that a crash left
empty stops the command until `--force`.

## 5. Proofs

Every invariant and every action property that a passing run checks is a theorem, and
so are both refinements. What they assume are the named `ASSUME`s of the modules: finite
sets where the code has a finite list, natural bounds, a day a whole number of contracts
and an even number of minutes, `ProcOf` a function, `Nobody` not a thread. The bounds on
calls, faults, runs and writings are any natural numbers.

| module | theorem | establishes |
|---|---|---|
| `TokenProviderProofs` | `Typing` | `TypeOK` |
| | `FlockExcludes` | `FlockExclusive` |
| | `AlwaysPresentsCurrent` | `PresentsCurrent` |
| | `StormMintsOnce` | `MintOnlyWhenNeeded` |
| | `CredentialSafe` | `CredentialHeld` |
| | `NothingOrphaned` | `NoOrphanedCredential` |
| | `ExpiryIsReal` | `ExpiredMeansDead` |
| | `OneRetryIsEnough` | `NoErrorWithoutFault` |
| | `FileMovesForward` | `FileNeverRegresses`: the session file never goes back to an older token |
| `AuthCliProofs` | `CliTyping` | `CliTypeOK` |
| | `LoginIsSafe` | `LoginKeepsCredential` |
| | `LoginIsInvisible` | `LoginDisturbsNoMint` |
| | `LogoutIsFinal` | `LogoutForgets` |
| `FetchDayProofs` | `Typing` | `TypeOK` |
| | `BoundedAttempts` | `AttemptsAccounted`, `AttemptsBounded` |
| | `HonestResults` | `OkIsWhole`, `PrefixIsLastResort` |
| | `RejectionIsReal` | `RejectedAfterRenewal` |
| | `FetchImplemented` | `ImplementsFetch`: the refinement of `OneFetch` |
| `DownloadProofs` | `Typing` | `TypeOK` |
| | `CompleteDaysAreWhole` | `CompleteIsWholeUnlessRefetched` |
| | `CleanRunsRepair` | `CleanRunRepairs` |
| | `DownloadIsADayStore` | `ImplementsStore`: the refinement of `DayStore` |
| `CacheBuildProofs` | `Typing` | `TypeOK` |
| | `BarsStayCurrent` | `BarsCurrent` |
| | `FrameStaysCurrent` | `FrameCurrent` |
| `SplitsProofs` | `Typing` | `TypeOK` |
| | `HonestOrigins` | `OriginsHonest` |
| | `CapIsEarliest` | `CapTakesEarliest` |
| | `SplitsSeparated` | `Embargoed` |
| | `CutsAreHonest` | `CutsHonest` |
| | `FanIsTrainOnly` | `FanSeesTrainOnly` |
| | `BatchesAreHonest` | `BatchHonest` |
| | `TableIsOnce` | `ScoredOnce` |
| | `FanIsOutOfSample` | `FanBeforeEvaluation` |
| `FineTuneProofs` | `Typing` | `TypeOK` |
| | `EpochsStayFair` | `EpochsAreFair` |
| | `GradientsAreBatches` | `GradientIsBatch` |
| | `PromotionIsHonest` | `PromotedIsBest` |
| | `PatienceIsHonest` | `PatienceHonest` |

Each inductive invariant was an invariant of a TLC run on the instance of its module
(or, for `AuthCliProofs`, on one with two logins or two logouts) before it was proved.

**Token provider.** `Locked` ties program points to locks: who is past `TokenStale` owns
its process's lock (`LockOwned`), who is in the critical section holds the flock on
the inode at the lock file's path (`FlockHeld`). The last point carries exclusion:
the file is created once and never replaced, so two holders have the same inode.
Exclusion makes the file stable under a mint, hence `PresentsCurrent`. `Chain`
orders tokens: what is on disk is at most what was issued, what is about to be
stored is newer than what is on disk, and once the refresh has been answered the
file's token is dead. `Pending` says that what is about to be stored is live.
`Subjects` is needed for the single retry only: without faults the access token of
a second try was issued in this very mint. `IInv` is the conjunction of all of
these with the properties; none of the properties is inductive alone.

**Auth commands.** A save is taken apart, so the first thing to show is that saves which
do not overlap are each whole or nothing: `Filed` says that `session.json.tmp` is the
saver's own from its opening to its rename, and holds its session once written. With it,
a step of `AuthCli` is one of the provider's, of a command, or of a save that counts
only at its rename (`AtOnce`). Still, little of the provider's invariant survives a
command without the flock: under a login the file is no longer the session a mint works
with, under a logout the inode is no longer the one at the path. `CInv` therefore has a
part for each kind of history. A history without a logout, in which no two saves
overlap, keeps `Filed` and `Locked`; `Apart` says that the refresh token of a login
between its grant and its save is in no file, no process's memory and no other pending
save, so that no mint can present and kill it; `Kept`, that everything about to be
stored is live; `Smooth`, that without faults a mint holds a live refresh token up to
its end, although it may not be the one on disk, and never has to re-authorize. A
history without a login, a fault or an overlap is in one of three phases: no logout has
read a session yet, and the provider's `IInv` still holds (`BeforeLogout`); some are at
work, no mint is under way, and all that is live is in the file they have read
(`DuringLogout`); the session is gone, nothing is live, and a mint can only find that
out (`AfterLogout`).

**Day export.** The strengthening says that a fetch which is not over has spent strictly
less than each budget, that the rows in hand are those of one attempt, in the order of
the day and among those the API has sent (`Parsed`), that a count, if there is one, is
that of the day, and that a bearer in the provider or in hand after a refusal is newer
than the refused one. A verified result then holds as many distinct rows of the day, in
order, as the day has, so all of them (`WholeIsDay`). In the refinement each action of
`FetchDay` is a connection, an outcome or a stutter of `OneFetch`, and the invariants
give the guards of the abstract action. `ImplementsFetch` implies what the four bounds
on attempts and results say to a caller, so the run checks it in their place.

**Download.** `Bounds` relates snapshot, summary and table and says that during a run
the manifest in memory is the one on disk. `Answers`: what a future has in hand are the
rows of its day below the snapshot, all of them unless the answer was cut, and once
written they are the file. `Vouched` is why a record stays true: it was made for a day
that ended before the snapshot, and no row of such a day can follow; after that only a
lost file or a refetch can change it, and a refetch that is written but not recorded is
what a crash turns into `RefetchLeftPrefix`. `Repairing` says of a full run without a
failure that each sealed day is whole or still has a future with all of its rows. For
the refinement, a run's record is the only step that adds a vouch, and `Answers` shows
that the file then holds every row.

**Caches.** What is on disk may be newer than what was read, so `BarsCurrent` is not
inductive. `Reading` and `Vouches` say what is: each tick file that a running `resample`
has read, or the bars were made from, is the one on disk unless that one is newer than
the mtime which is, or will be, in the meta. `Listing` says that a file which is not in
the list of a `resample` is not there until the last mtime is taken, or "unlisted" has
happened; so the newest mtime seen is not above that of a file that was missed.
`Stamped`, that a file put in place carries an mtime of no other file, turns "not older"
into "strictly newer"; `Progress` and `Schemas` link the running command to what it has
replaced so far, and order the schema versions. Then fresh bars leave no file that is
newer than the meta. `FInv` is the same one stage further on, with the bars as one more
source: `BarsStamped` gives their writing a stamp of its own, `JoinReading` and
`FrameVouches` compare the candle files and the bars with the source mtime,
`JoinProgress` says what a running `frame` has done. The premises of `FrameCurrent` are
where it fails otherwise.

**Origins, splits and batches.** Lemmas on integer division and on `Steps` give the
minute arithmetic (`UsableTargets`, `UsableContext`, `UsableStrike`); the invariant says
that selected origins are usable (`OriginsUsable`) and that the targets of a split lie
inside its bounds. `SplitsSeparated` needs the bounds only: each ends an embargo before
the next begins. `LastTargetMonotone`, that later origins end no earlier, is why every
row between the first and the last train origin stays inside the train range. `Made`
adds what each stage was computed as: origins, bounds and splits are what
`make_origins`, `split_bounds` and `assign_splits` return for this frame and request.
With it, `CutsAreHonest` follows because the cuts are midnights, which no contract
straddles (`MidnightOnGrid`, `ContractsUncut`), and a split starts at the window of its
cut; `CapIsEarliest` from what the earliest n windows are (`EarliestAreFirst`);
`BatchesAreHonest` from the usability of the origin (`ContextIsPast`, `ScoredIsQuoted`,
`OneSettlement`) and from windows that partition the rows, so that a context row's
strike is published by a past row or in the origin's own window (`StrikeIsPastOrOwn`);
`TableIsOnce` from there being one chunk for each origin (`OneCall`) and from the
positions of a sample being more than one apart before rounding, unless the sample is
the whole split (`SamplesSpread`); `FanIsOutOfSample` from the last fan row seeing at
most its own contract (`SeesItsOwnContract`) and, for the fan that fine-tuning writes,
from the train range ending before the held-out origins' contracts begin
(`TrainFanBeforeHeldOut`).

**Fine-tuning loop.** `Stream` says which origins are one ahead: those that the current
permutation has served, unless it has served them all, so that `ServeStep` can cross an
epoch. `Gradients`: the gradient is a prefix of the batch, and of the full one as soon as
it is not empty. `Selection` says that `best` belongs to the evaluation that `stale` counts
from (`Chosen`), and that this is the earliest one with the least score, or the zero-shot
one if that was not a number; equal weights score the same. `Loop` records at which
steps the run has evaluated and that patience is not used up. `Directory` follows the
checkpoints: `best/` holds the chosen weights from the end of a save on, `last/` the final
ones, and a summary of this run is there only once it is over, which is what an earlier
run's summary in the same directory must not be taken for.

`Extrema` has the facts about `Min` and `Max` of a set that several of these use.

Only model-checked: liveness (`CallsReturn`, `FetchEnds`, `RunEnds`, `TrainingEnds`),
since fairness is out of TLAPS' reach here. The five violation runs are
counterexamples, and `SessionFile` has no other run.

## 6. Plan

What is modelled is as much of the code as keeps state or computes indices, and every
safety property of the passing runs is proved. What is left:

1. `AtomicReplace` of `SessionFile` under the assumption that all savers take the flock,
   which is what a repair of `login` would rest on.
2. Action properties beside `FileNeverRegresses`, where an invariant above says less than
   the step does.

Not modelled, and why. Bar aggregation, the other frame columns, quantiles, scores, the
values of covariates and the jitter of `sanitize_variates`, learning rates and plots are
float and data-frame expressions, out of reach of both tools. The fields of an SSE
event and the retry counter of `_get`, which shares nothing with other calls, are left
out: what they do to a caller is that a stream ends, or that a run does not begin.
Two `chudp download` runs over one directory are not modelled: nothing in the code or its
documents supports them, and `SessionFile` shows what sharing a temporary name does.
`rescore` and the run directory of a backtest are written once, in order, by one
process. Settings, argument parsing and logs carry no state; `src/scripts/` is a
one-off report.
