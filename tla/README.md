# Verification of the product data collectors

TLA+ models of the collectors in this repository, the TLC configurations that
check them on small instances, and theorems about them that TLAPS checks for
every value of the constants. The modules are translated from the Python under
`src/`; `PROJECT.json` maps every definition to the lines it stands for.

## 1. The system

Three collectors read products from supplier APIs and save them to PostgreSQL.
Each is started daily by a scheduler (`scripts/run_daily_collector.py`) and
must be able to stop or die at any moment and go on the next day.

| Component | State it keeps | Operations | Hard parts | What makes it correct |
| --- | --- | --- | --- | --- |
| ownerclan, parallel categories (`collect_by_categories.py` 208-506) | `category-collection-progress.json`, the older `category-collection-state.json`; queue, progress and failure counts shared by threads; a one-page-deep saver per worker | fill the queue, take a category, fetch a page, hand it to the saver, save, mark progress, retry or give up a category, clear the files | threads, fetching overlaps saving, retries, failing saves, crashes, cursors that repeat | nothing unsaved is skipped; files go only when all is saved; one owner per category; bounded retries; the pass ends |
| ownerclan, sequential categories (same file, 29-207) | `category-collection-state.json`; one saver in flight | as above, with page and item limits | the same, with early stops | the same |
| ownerclan runs (`workflows/main.py`) | lock file; restart counters | collect (either way), incremental sync, wait and start over | passes put together from both kinds of run; two stages with restarts of their own | a finished pass is whole; a run returns |
| ownerclan incremental sync (`sync_incremental.py`) | `incremental-state.json` | fetch what changed, save, move the date | items change while they are listed, changes appear late, limits count as completion | the date never passes unsaved changes |
| domeggook discovery (`discover_products.py`) | `discovery-state.json` / `recent-discovery-state.json`; buffer of pages | list positions page by page, flush, write the state | buffering against the state file; deadlines, budgets, limits; empty pages | nothing unsaved is skipped; little is fetched twice; the pass ends |
| domeggook details (`collect_product_details.py`) | `detail-collection-state.json`, the fixed collection's own state, the budget of raw samples | batches of product ids, saved batch by batch | a list that grows or changes between runs, invalid answers, products with errors, a stale last product on early stops | no listed product is passed over; runs come through |
| domeggook runs (`workflows/main.py`), fixed categories (`fixed_categories.py`) | one budget of calls per run; `discovery-state.json`; the sample so far | discovery then details, or details then recent discovery; a sample of products per category | stages share the budget; a run decides from the files of the one before where to begin | the sample is whole and within its limit; runs come through |
| coupang (`workflows/collector.py`) | `product_search_checkpoint.json` | search keywords, save all at the end, clear | checkpoint ahead of the save | what is skipped has been saved |
| file lock (`persistence/storage.py`, twice) | the lock file | enter, recover a stale lock, exit | check-then-act between processes; POSIX and Windows differ | one holder; its file is its own; a dead process's lock goes |
| rate limiters (`common/rate_limiter.py`) | deques of grants, a lock | wait | threads sleep while they hold the lock | no window holds too many grants; all are served |
| product store (`persistence/postgres_storage.py`) | tables `products`, `product_history`, raw samples, ranks, discovery targets | save a batch: read, compare, upsert, insert history; retry | concurrent transactions, deadlocks, failed statements, lost answers | a product has its history; one row per change; batches end |
| API clients, JWT, category caches | tokens, caches | request with retries | retries, rate limits | bounded retries |
| normalization, parsing, shipping fees, settings, metrics, scripts, probes | none | conversion | - | - |

They interact through calls (a collector hands pages to `ProductSnapshotSaver`,
or to `save_..._if_enabled`), through the state files a run leaves to the next,
through the lock file and through the tables they all write. The progress of
every collector means "save() has returned": the store logs and gives up a batch
that failed twice without raising, so a product may be missing all the same
(section 7).

## 2. Modules

| Module | Models |
| --- | --- |
| `CollectionPass` | abstract: what every collector promises about a pass. Pages are handled; a resume point on disk covers handled pages only; the pass finishes when all are handled |
| `OwnerclanCatalogue` | categories and the cursors the server hands out; used by the ownerclan modules |
| `OwnerclanParallel` | the parallel category collection, one action per step of the main thread, of a worker and of its saver |
| `OwnerclanSequential` | the sequential category collection, likewise |
| `OwnerclanPasses` | composes both over their shared files, pass after pass |
| `OwnerclanRun` | one installation run after run: category stage, incremental sync, restarts, and the requests with their attempts and tokens |
| `DomeggookDiscover` | the discovery, its buffer and state file, the attempts of a request, the category list it begins with |
| `DomeggookDetails` | the collection of product details, over a list and a state file; EXTENDed by `DomeggookRuns` |
| `DomeggookRuns` | main runs of both modes, and the fixed collection, run after run |
| `RawSamples` | the raw samples of one platform under a budget that runs down |
| `CoupangCollect` | the keyword collection, its checkpoint and final save |
| `FileLock` | the lock file, process by process, file operation by file operation |
| `WindowRateLimiter` | `WindowRateLimiter.wait` by several threads, with time |
| `ProductStore` | the transactions that save products and their history |
| `OwnerclanParallelProofs`, `OwnerclanSequentialProofs`, `OwnerclanPassesProofs`, `OwnerclanRunProofs`, `DomeggookDiscoverProofs`, `DomeggookRunsProofs`, `ProductStoreProofs` | the theorems about the module each is named for |
| `CommonProofs` | the theorems about `CoupangCollect`, `FileLock` and `WindowRateLimiter`. It extends all three, which is why `FileLock` and `WindowRateLimiter` name their initial states, steps and types `Lock...` and `Limiter...` |
| `MC...` | instances for TLC |

Variables carry the names of the code's variables, in TLA+ spelling
(`in_progress` is `inProgress`), and files are named for their contents
(`progressFile`, `legacyState`, `checkpointFile`, `stateFile`). Variables that
the program does not have are marked "(history)": `handled` (what the store has
been given), `received`, `cleared`, `searched`, `repeats`, `raced`, `saved`, `slept`,
`fresh`, `trusted`, `due`, `relisted`, `recorded`. Definitions
that begin with the comment `Mutant:` are deliberate mistakes: put in the place of
the definition that follows them, they must make a run fail. No specification
uses them.

How code becomes actions:

- *Threads.* A worker of the parallel collection is a program counter (`loop`,
  `take`, `request`, `await`, `awaitLast`, `drain`, `failed`, ...); a step is what
  happens between two points where another thread can matter: a shared variable
  under its lock, a queue operation, the submission or the result of a Future. The
  saver behind a worker is the `stage` of its `pendingSave`: the save, the change
  of the shared progress and the return are separate steps, so that other workers
  and crashes come in between.
- *Requests.* In `OwnerclanRun`, `DomeggookDiscover` and `CoupangCollect` a request
  is a sequence of attempts as the client makes them; elsewhere it succeeds or fails
  as a choice of the environment, after the client's own attempts. A failure may be
  a rate limit. Pages are named by category and cursor, or by position and number;
  their contents do not matter.
- *Lists.* In `DomeggookRuns` the API's lists hold products and may change between
  two requests (`Rerank`); the targets are read in the order of
  `first_discovered_at` and id, as the query has it, and a list stands for its hash.
- *Changing items.* In `OwnerclanRun` a version of an item is named by its
  `updatedAt`; the server may show it up to `Lag` later. The category stage is one
  action per item and ends as `OwnerclanParallel` and `OwnerclanSequential` do.
- *Crashes* (`Crash`, `LockCrash`) lose memory and keep files, at any step.
  `atomic_write_json` replaces a file in one step (`os.replace`). Where the discovery
  of `DomeggookRuns` saves a page and writes its state in one action,
  `CrashBeforeState` is the run that dies between the two.
- *What the fixed discovery has dealt with* is the history variable `recorded`: the
  products it has counted of the pages it has come to the end of since it began
  without a state file. A page whose run dies before its state is written is not
  among them, for the next run lists it again.
- *Restarts.* `StartRun` (in `DomeggookRuns` also `BeginDiscovery` and
  `BeginDetails`) reads the files as the code does.
- *Time* in the limiter is a number that `Tick` advances; in the lock, a file is
  either older than the stale limit or not, and `GrowOld` makes it so.
- *Systems.* The lock runs on Windows, where an open file cannot be removed, or on
  POSIX, where it can. `FileLock` begins on either (`posix`).
- *Answers and what is written of them* are two steps where a crash in between makes
  a difference: `SearchSucceeds` and `MarkCompleted` in `CoupangCollect`, the flush and
  the state write in `DomeggookDiscover`. In `DomeggookDetails`, where the state is
  written per batch, the answer and the save of a batch are one step: a product is
  no longer due when it has been answered.
- *Comparison.* `ProductStore` compares reports as `canonicalize` leaves them:
  without the volatile fields (`Volatile`), so that a report that differs in
  `updatedAt` alone is no change.
- *PostgreSQL* runs at READ COMMITTED: `Read` sees what is committed, an `Upsert`
  waits for the transaction that holds the row, a circle of waiting transactions
  is broken by `DeadlockVictim`, rows become visible with `Commit`. Because the
  history row is inserted under the product's row lock, ids and commits of one
  product have the same order.

## 3. Runs

All runs that pass check deadlock: where a system has come to its end, the action
`Rest` says so, and in `OwnerclanRun` and `DomeggookRuns` there is always another
run to start.

| Run | Instance | What it shows |
| --- | --- | --- |
| `parallel` | 2 workers, 2 categories of 2 and 3 pages, the server repeating a cursor of the second, 2 faults, a category given up after 2 failures | `ResumePointBehindSaves`, `CollectedWhenCleared`, `OneOwner`, `NoPageSavedTwice`, `FailuresBounded`, `ProgressKept`; the pass ends; refinement of `CollectionPass` |
| `sequential` | 3 categories, one of which repeats a cursor, 3 faults, 2 limited runs of any limits | the state only advances, the pass ends, refinement of `CollectionPass` (nothing unsaved is skipped, the pass finishes when all is saved) |
| `passes` | a pass of parallel runs, then a pass put together from runs of both kinds, limited ones included; 2 faults of each kind of run | either kind may take up what the other left; nothing of a parallel pass makes the next one skip pages |
| `passes_leftover` | two passes, runs of both kinds | **violated**: see findings |
| `ownerclan_run` | 2 items that change at any time up to 3, changes that appear up to 1 late, a page per item; 2 attempts per request, a second request for a page with unknown fields, 1 restart, one rate limit, limit or crash, any number of failures | a sync that began with a date and went to the end of its list lets no change go (`NothingSkipped`); the restarts of the two stages do not feed each other and a request with an expired token ends, so a run returns (`RunReturns`) |
| `lock` | Windows and POSIX, 3 processes, 2 crashes, runs longer than the stale limit | mutual exclusion and the holder has its file: on Windows always, on POSIX unless two processes have recovered the same lock at once or a run has outlasted the limit (`raced`); stale locks go |
| `limiter` | 2 threads, 3 calls each, a short and a long window | both windows respected, at most one sleep per call, all served |
| `coupang` | 3 keywords, 2 retries, API, file and save errors, crashes | what a run that ends by itself collected is saved; a failed checkpoint write, or a run that dies, costs at most one search again, also between the answer and its checkpoint; the pass ends |
| `discover` | 3 lists: three full pages and a short one, none, two full pages, ranks in two of them; stops and failing requests, failing flushes and crashes twice each, a category that vanishes, page limits | neither products nor ranks that are unsaved are skipped; at most a buffer of pages is fetched again, unless the state has been removed or names a category that vanished; the pass ends, refinement of `CollectionPass` |
| `domeggook` | 3 products, 3 positions in 2 categories, lists that change their order or become empty, 2 calls per run, batches of 2, 2 faults; main runs of both modes, or fixed collections | a collection of details that removes its state has had an answer for every product of its list (`DetailsWhole`); the fixed sample is whole over several runs and within its limit (`SampleWhole`); a run completes in the end whatever earlier ones left (`RunsComplete`) |
| `store` | 2 savers that meet the same 2 products in either order, reports of one that differ in price or in `updatedAt` alone, 2 batches, one newer run, 1 fault; the tables begin with any of the products | a product keeps its history; one row per change and the latest row what was saved last, as long as the product's saves do not overlap; batches end although transactions deadlock |
| `samples_emptied` | 4 batches, a budget of 2 samples, 2 passes, 1 fault | **violated**: see findings |

`OwnerclanSequential`, `DomeggookDiscover`, `CoupangCollect` and `ProductStore` state
a `TypeOK`, and `OwnerclanSequential` also `ResumePointBehindSaves`, that no run
lists: they hold on the same instances, the latter follows from the refinement,
and all are there for the proofs, which state them as theorems.

### Further configurations

These are to be run by hand. Each ends with a counterexample, and shows why a
property of a run above has the exception it has, or on what instance it would
not hold.

| Configuration (module) | What it shows |
| --- | --- |
| `FileLock_posix.cfg` (`MCFileLock`) | `OneHolder`, which is `MutualExclusion` without its exception, on POSIX: `_remove_stale_lock` (`storage.py:42`) looks at the age of the file and unlinks the path afterwards, so of two processes that find the same stale lock the second removes the fresh lock of the first. `storage.py:23` says that another collection is running; `RUNBOOK.md:164` has the servers run under cron or systemd |
| `CoupangCollect_crash.cfg` (`CoupangCollect`) | `CheckpointBehindSaves`: a keyword is checkpointed when its search succeeds (`collector.py:82`), the products of all keywords are saved at the end (line 98), so a run that dies in between loses them. `RUNBOOK.md:123` says the next run retries from the checkpoint |
| `DomeggookDiscover_empty.cfg` (`MCDomeggookDiscover`) | `ResumePointBehindSaves` where a position with full pages ends with an empty one: `discover_products.py:120` writes the next position without a flush, and a crash loses the buffered pages. `RUNBOOK.md:85` says every list is gone through to its end |
| `DomeggookDiscover_dropped.cfg` (`MCDomeggookDiscover`) | `ResumePointBehindSaves` where a run is stopped in the first category, which is then dropped from the list: the next run begins with the new first position (`discover_products.py:71`) but with the page of the state, and skips its earlier pages |
| `DomeggookDiscover_again.cfg` (`MCDomeggookDiscover`) | `NeverMuchFetchedAgain`, which is `LittleFetchedAgain` without its exceptions: an empty page behind the last position removes the state (`discover_products.py:122`), and when the flush that follows it (line 212) raises, the next run fetches all positions again |
| `OwnerclanRun_date.cfg` (`OwnerclanRun`) | `DateBehindSaves`: a sync that begins without a date, or stops at a limit or at a repeated cursor (`sync_incremental.py:88`), moves the date past changes it has not fetched |
| `DomeggookRuns_relisted.cfg` (`MCDomeggookRuns`) | `DetailsWholeAlways`: the fixed collection lists anew before it goes on, `resume_index` finds the last product at another place of the new list, and products are skipped |
| `DomeggookRuns_starved.cfg` (`MCDomeggookRuns`) | `RunsComplete` for a fixed collection whose discovery costs exactly the budget: its state is removed, the details get no call, and the next run lists again, for ever |

### Bounds

Every bound is a constant. They are small and chosen so that what is
interesting happens:

- two workers are enough for one to leave while the other's category fails and
  goes back to the queue; a third repeats a role. With two categories one can be
  queued, or with the other worker, while the other is collected; three pages give
  a page in flight, one saved and one to come.
- `MaxCategoryFailures` is 2 where the code has 3, `FlushPages` 2 where the code
  has 5: "less than", "exactly" and "after a reset" all happen. The theorems hold
  for every `MaxCategoryFailures`.
- `MaxFaults` of the ownerclan collections counts API errors, save errors and crashes together; two of them
  give a category up, or kill a run that takes up an interrupted one.
- `MaxLimitedRuns`: a run with page or item limits that never reaches the end
  may be repeated for ever, by choice of the caller; without a bound, no liveness
  property could hold.
- `CallsPerThread` and `MaxIdleTime` bound time in the limiter; its safety
  theorem has no such bound.
- In `OwnerclanRun` two items and a page each are enough for an item to be
  fetched, to change and to move to the end of the list while the other one is to
  come; `MaxTime` 3 leaves room for two syncs and a late change between them. Failures
  that are no rate limits are not bounded, so that any number of syncs can be
  interrupted; rate limits are, for main.run waits for them to end without a bound of
  its own. `MaxFaults` is 1 there: a crash may come at any place and leaves nothing
  but the files, from which the next run goes on like any other, and a rate limit starts
  over like a failure that is not counted. `SyncsSkipNothing` holds for every number of
  faults.
- In `DomeggookRuns` a budget of two calls does not suffice for discovery and
  details of three products in batches of two, so that runs always take up what
  others left; `CategoryLimit` 2 is reached in one category and not in the other,
  and is met by the second market of the first. `MaxTime` 4 tells the times of
  discoveries apart; later ones are not told from one another.
- `MaxListChanges` 1 in `DomeggookDiscover`: a second vanished category finds the
  state as the first one left it. `Vanishing` leaves out the first position for the
  reason `DomeggookDiscover_dropped.cfg` shows.
- two batches in `store` are both of one saver, one after the other, or of two
  savers at once; with what the tables begin with a product can get three history
  rows.
- three processes are needed for the lock: a dead one and two that recover. Two
  crashes leave a second stale lock after the first one has been recovered.

### Fairness

Safety needs none. Liveness assumes weak fairness, of: the scheduler starting a
collector again (daily), a thread that can go on going on, a save or request that
is under way coming to an answer (timeouts are set on all HTTP requests), time
passing. Faults, stops, crashes, dropped categories and limited runs have no
fairness and are bounded. `BatchEnds` relies on PostgreSQL serving the queue of a
row lock, which with finitely many batches weak fairness expresses, and on its
deadlock detector.

`OwnerclanRun` alone assumes strong fairness as well, of the answer that is the last
page of the category tree or of the histories: both lists are finite, but are
not modelled page by page. Its `RunReturns` does not assume that runs are started,
nor that requests succeed. `RunsComplete` assumes no more than that runs are
started and steps are taken.

## 4. Findings

Where the code and a document of the repository disagree; each has a run that
TLC ends with a counterexample.

1. **The parallel progress file survives a sequential completion**
   (`passes_leftover`, `collect_by_categories.py:197`). A parallel run is
   interrupted, a sequential one finishes the pass and removes only its own state
   file; the next day's parallel run skips the categories the old progress file
   lists. `python -m ownerclan_API` defaults to one worker and
   `run_daily_collector.py` to eight, so both kinds do meet.
2. **A used-up budget of raw samples deletes the samples** (`samples_emptied`,
   `postgres_storage.py:521`). `collect_details` hands what remains of the pass's
   budget to every save (`collect_product_details.py:122`), which takes it for the
   configured limit: with 0 left, every further batch removes all samples of the
   platform. `docs/schema/DB_SCHEMA.md:91` says that only what exceeds the limit of
   100 is deleted.

The configurations to be run by hand (section 3) show disagreements of the same
kind: the stale lock on POSIX, the checkpoint that runs ahead of the save, the
empty page, the state that is removed before the last flush, the dropped category, the date of a sync that was cut short.

Also seen while modelling, without a run of their own:

- Concurrent savers can store a history row twice: what is known of a product is
  read (`postgres_storage.py:948`) before its row is locked. `ChangesOnly` and
  `LatestIsSaved` therefore leave out `contended` products. Collectors that can meet the
  same products at once are domeggook's `main` and `fixed_categories` (different
  lock files) and ownerclan's `main` and `sync_incremental` (no lock file).
- A resumed run saves with its old `runCollectedAt` and can set
  `last_collected_at` back (`postgres_storage.py:1122`).
- `pages_for_position` (`discover_products.py:73`) counts per run, so a resumed
  recent discovery collects more pages of a position than a run that is not
  interrupted.
- In full mode a list call that fails is not counted by the run's budget.
- An early stop of the details writes the `lastCompletedProductId` of the run's
  beginning beside a later `nextIndex`. With the main runs' lists, which only
  grow at their end, that costs repeated batches and skips nothing.
- A product that cannot be parsed ends every run at its batch, which is then not
  recorded (`collect_product_details.py:126`): the products behind it wait until
  it parses.
- A run of the main details with `--limit` that completes removes the state of
  an interrupted full pass.
- In daily mode recent discovery needs a call that is left over: while the
  details use up the budget exactly, it does not run.
- A stop of the fixed discovery at its page limit does not keep the details from
  being collected, as every other stop does.
- `RUNBOOK.md:154` has the fixed sample kept apart from the full collection by its
  `reason`, which the query of the targets does not look at.
- An exception of a category refresh leaves `main.run` without any restart
  (`ownerclan_API/workflows/main.py:45`), and a failure of the histories never counts
  as a rate limit, whatever it is.
- The histories that a sync fetches are not stored.
- A batch that the store gives up is lost although the sync's date, or the
  details' index, moves on.

## 5. Proofs

Checked by TLAPS for every value of the constants that the named assumptions
(`BoundAssumption`, `WorkerAssumption`, ... in the module of each component)
allow; TLC evaluates those assumptions on the instances. Every `...Proofs` module
goes the same way: the type invariant, a strengthening of the property that every
action keeps (a lemma for each action that could break it), and the theorem.
TLC has checked each strengthening as an invariant of its module's run (for the
discovery, over the pages there are). Hardly any of the properties is inductive
as the module states it; what each one needed is said here.

**`OwnerclanParallelProofs`** - any categories, cursors, workers and numbers of
faults.

- `TypeCorrect`: `TypeOK`, with `CursorsFit`: every cursor that is stored, queued,
  followed or being saved belongs to its category.
- `ResumeIsSafe`: `ResumePointBehindSaves`. What
  the file says comes from memory, memory from a save that has returned, and the
  save from a walk along the cursors. The strengthening says that each of these
  trails the one before: all pages before a stored, remembered or queued cursor
  are saved (`StoredBehind`, `QueuedBehind`), all pages before the one a worker's
  saver has in hand are saved (`SavingBehind`), and all pages before the one a
  worker is at are saved or in its saver's hands (`WalkedBehind`).
- `ClearingIsSafe`: `CollectedWhenCleared`, from `NothingForgotten`: a category
  that is not completed is queued, or in a worker's or its saver's hands, or has
  been counted as a failure, so when all workers have left without a failure
  nothing is left over.
- `ImplementsPass`: initial states map to initial states of `CollectionPass` and
  every step to a step or a stutter.
- `OneOwnerEach`: `OneOwner`. `OwnerInv` adds that a category is queued at most
  once, and that a worker whose save is unsettled still has that save's category
  in hand (`SavedByOwner`): a worker that has let go of a category has no save of it
  left that could run beside another worker's.
- `FailuresAreBounded`: `FailuresBounded`, from `OwnerInv`: while a category is in
  one place, nobody counts another failure of it, so that the comparison with
  the limit is made once for each count.
- `EachPageSavedOnce`: `NoPageSavedTwice`. `OrderInv` says that in the first run the
  pages from a queued cursor on are not saved, nor those from the one a worker
  fetches, nor those from the cursor a worker would go back to after its save has
  settled; and that the page with the saver lies behind the one being fetched.
- `ProgressOnlyGrows`: `ProgressKept`, also from `OrderInv`: the file is behind the
  memory it is written from (`FileBehindMemory`), and a save marks a cursor no earlier
  than the one recorded.

**`OwnerclanSequentialProofs`** - any categories, cursors, faults and limited
runs, with any limits.

- `TypeCorrect`: `TypeOK`; every state on disk, remembered or on its way names a
  cursor of its category.
- `ResumeIsSafe`: `ResumePointBehindSaves`. `SavedInv` follows a state from the loop
  to the disk: what lies before the loop's place is saved or with the saver, what
  lies before a state with the saver likewise (`StatesBehind`), and a loop that goes
  back to an earlier cursor has met the whole category (`LoopBehind`); a loop
  that is left without having met a limit has gone through the list it sees
  (`LeftBehind`).
- `ImplementsPass`: `PassSpec`, step by step, from these.
- `OnlyAdvances`: `StateOnlyAdvances`. `AdvanceInv` puts the state file, the state
  with the saver and the loop's place in one order (`NotBehind`), but for categories
  in which the server goes round in a circle.

**`OwnerclanPassesProofs`** - any number of passes, in any ways, any categories, cursors,
workers and faults.

The theorems about the two collections are about runs of one kind alone. Here the
two share the state file and the history, and the question is whether
one can disturb what the other relies on. `PassesInv` is what each keeps by
itself (the invariants of `OwnerclanParallelProofs` and `OwnerclanSequentialProofs`, which
are used as instances over the variables of `OwnerclanPasses`), and that only
one of them runs at a time. A step of one collection keeps its own invariants
by the lemmas of its module. It keeps the other's because that one is
between runs and remembers nothing (`FreshBetweenRuns`, `MemoryFits`), pages only become
saved, and whatever state file is left lies behind the saves for either of them
(`SequentialGrows`, `ParallelWaits`, `ParallelGrows`, `SequentialRests`). When a pass
is over the state file is gone (`FilesGone`, `WholeWhenFinished`), so that the next
one begins with nothing that lies behind pages it has not saved, but for the
progress file.

- `OnlyLeftoversSkip`: as long as no pass ends with a progress file
  (`NothingLeftOver`), `PassIsWhole` and `EitherMayGoOn` hold, for passes in any mixture
  of ways. So the leftover that `passes_leftover` finds is the only way in which
  the two kinds of run spoil each other's work.
- `PassesAreWhole` and `EitherGoesOn`: `PassIsWhole` and `EitherMayGoOn`, where no pass
  but the last is collected in both ways (`OneWayUntilLast`). The code needs such a
  hypothesis, as `passes_leftover` shows; the instance of the run `passes` satisfies it.
  `ProgressInv` says that then a pass that ends sequentially has had no parallel run
  before it that could have left a progress file.

TLC has checked `PassesInv` and `ProgressInv` on the instance of the run `passes`.

**`OwnerclanRunProofs`** - any items, clock, numbers of attempts, restarts and
faults. `RunAssumption` has `Lag` at most `Overlap`: that changes appear no later
than that is what the code's overlap of the dates is for.

- `TypeCorrect`: `TypeOK`, with the bounds on restarts and attempts.
- `SyncsSkipNothing`: `NothingSkipped`. `SkippedInv` says, for each place in a sync
  that has met no failure and no limit, where a version that is due can be: in the store or
  fetched or still to be listed (`ListInv`), in the store or fetched
  (`FetchedInv`), in the store (`SavedInv`). That an item which changes while it is
  listed is not lost rests on `dateTo` being taken before the first page
  (`ClockInv`) and on `Lag` being within `Overlap`.

**`DomeggookDiscoverProofs`** - any positions, lists, limits and numbers of faults.
Least positions exist by the library's theorem that `<` on the naturals is
well-founded (`NatMinimum`).

- `TypeCorrect`: `TypeOK`; a run is always at a page of a position there is.
- `ResumeIsSafe` and `ImplementsPass`: `ResumePointBehindSaves` and `PassSpec`.
  `SavedInv` says that what can be had before the run's place is saved or in the buffer
  (`LoopBehind`), that what lies before a resume point on its way to the file is
  saved when it is written, and that the buffer is then empty (`LeftBehind`); ranks
  go with their targets (`RanksWithTargets`). Both theorems have two hypotheses,
  and the code needs both: `EmptyPagesHarmless` (a position with full pages does not end with
  an empty one, unless it is the last; `DomeggookDiscover_empty.cfg` is the counterexample
  without it) and `FirstPositionStays` (`DomeggookDiscover_dropped.cfg`). The
  instance of the run `discover` satisfies them with positions of every kind they
  allow, and with one that vanishes.
- `LittleIsFetchedAgain`: `LittleFetchedAgain`, without these hypotheses. The property
  leaves out two interruptions that cost the whole discovery: behind the removal of the
  state at the last position (`cleared`; `DomeggookDiscover_again.cfg`), and with a
  resume point that names a dropped category. `NearInv`
  says that all received pages which a state does not cover are in one window of
  `FlushPages` pages from a place, and that a run's buffer is as large as the way
  from where it began: a run goes through that window again before it can buffer
  more. That is why stopping again and again does not make the window wider.

**`DomeggookRunsProofs`** - any products, positions, lists the API may show and
changes between them, budgets, batches, limits, attempts and numbers of faults, and
main runs in any order of modes as well as fixed collections.

- `TypeCorrect`: `TypeOK`. A run makes no more calls than its budget has, and a state
  file names a place of the list it carries. The lists that the query of the targets
  returns are sequences without repetitions of exactly the products found, sorted
  (`InOrder`), and what `resume_index` returns is a place in such a list.
- `DetailsAreWhole`: `DetailsWhole`. `DetailsInv` says where a product can be that is
  still due. In the main runs, lists begin the order of all targets (`Beginning`), and
  what a state file or a run lets be skipped, by its index and its last product,
  comes before all that is due in that order (`Behind`, `MainPlace`): so the last product
  is found at the right place in a longer list as well, and that an early stop writes an
  old last product beside a new index costs repeated batches only. Both modes
  share one file, so what is due is the same for both (`Shared`). In the fixed
  collection, what is due comes after the place in its own list (`FixedPlace`), as long
  as its lists have lost nothing and kept their order; `DomeggookRuns_relisted.cfg` is
  the counterexample otherwise.
- `SampleIsWhole`: `SampleWhole`. `SampleInv` has `recorded` in what the run
  knows, or in what the state file says, and in the list it hands to the details, and each
  category within the limit in memory and on disk (`WithinLimit`): the last item that
  counts was below the limit with all that came before it (`TakenWithinLimit`).

TLC has checked `DetailsInv` and `SampleInv` on the instance of the run `domeggook`, and
also with a third fault.

**`CommonProofs`, on `CoupangCollect`** - any keywords, attempts and numbers of faults.

- `TypeCorrect`: `TypeOK`.
- `NothingLostUndisturbed`: `SavedUnlessInterrupted`. `SavedInv` has, as long as no
  save has raised and no run has died (`Calm`), every keyword of the file
  or of memory among the saved or the collected ones, and every keyword there when
  the file has been removed.
- `FewAreSearchedAgain`: `FewSearchedAgain`. `SearchInv` keeps an account (`Paid`): every
  keyword that has been answered but is not in the file, nor about to be written to
  it (`Unrecorded`), and every search that has succeeded again, is paid for by a failed
  checkpoint write or by a run that died. Such a fault leaves one more keyword
  unrecorded, and a search that succeeds again takes one of them, for a run skips
  what the file names (`KnownInMemory`).

**`CommonProofs`, on `FileLock`** - any processes, any number of crashes, runs of any length.

- `LockTypeCorrect`: `LockTypeOK`.
- `LockExcludes` and `LockFileIsKept`: `MutualExclusion` and `HolderHasFile`, on both
  systems. `LockInv`: on Windows the file of a holder is there, for the only process that
  can remove it is the holder, after closing it. On POSIX, as long as there has been no
  race, the file is that of whoever holds the lock or is about to leave
  (`LiveKeepsFile`), and a process on its way to remove a file removes the stale one it
  has seen (`StaleStays`), because it alone is on that way and no holder's file is
  old. The exception in the two properties is exactly what this needs and
  `FileLock_posix.cfg` shows the first half of it to be needed.

**`CommonProofs`, on `WindowRateLimiter`** - any threads, windows, limits and periods.

- `LimiterTypeCorrect`: the lock has one holder and no deque exceeds its limit.
- `LimitsHold`: `WindowRespected`. The strengthening says that grants are in the
  order of time and not in the future, and that what a deque has dropped lies a
  whole window behind the clock reading it was dropped at.
- `OneSleepIsEnough`: `SleepsOnce`. `SleepInv`: at the time a sleeper wakes, the
  oldest call of every full deque is a whole window ago, because the sleep is the longest
  of the waits; nobody grants a call meanwhile, because the sleeper holds the
  lock.

**`ProductStoreProofs`** - any savers, products, reports, runs, batches and faults.
`ReportAssumption` says only that the mark for "nothing saved" is no report.

- `TypeCorrect`: `TypeOK`.
- `ProductsHaveHistory`: `HistoryWithProduct`, for contended products as well. A plan
  without a history row is made for a stored product only (`PlannedIfNew`), and stored
  products stay.
- `HistoryHoldsChanges` and `NextSaveComparesWithLast`: `ChangesOnly` and
  `LatestIsSaved`. For products that are not contended a plan made at the read
  is still the right one at the upsert (`PlansCurrent`), because whoever else has
  the product in hand makes it contended (`Overlaps`); and rows are in the order of their
  observation (`HistoryInOrder`), so that the row with the latest `observed_at` is
  the last.

Only model-checked:

- liveness (`EventuallyFinished`, `PassEnds`, `CallsGranted`, `BatchEnds`,
  `StaleLockRemoved`, `RunReturns`, `RunsComplete`), which TLAPS does not reach; of the
  refinements of `CollectionPass` its safety part is what is proved and meant, the
  abstract specification has no fairness;
- what the two findings and the further configurations of section 3 refute.

Every safety property of a run that passes is stated by a theorem.

## 6. Plan

The parts of the system that keep state between runs or share it between
threads, processes or transactions are modelled, and every safety property that a
passing run checks is proved. What could be added, in the order of its use:

1. A sync run by itself beside `main.run`, over one `incremental-state.json`.
2. Batches that the store gives up while `save()` returns: `CollectionPass` would
   then promise what was given to the store instead of what is in it.
3. The token that ownerclan's workers share, and the times at which requests
   leave after the limiter has let them go.
4. `RawSamples` with two savers.

## 7. Not modelled

- `--dry-run`: nothing is saved and no state is written.
- Changes of the configuration or of the keyword list between the runs of a pass,
  and new categories. Categories that vanish are in `DomeggookDiscover` only.
- Contents of products: parsing and normalization field by field, shipping fees,
  texts and URLs in the comparison of states; logs and metrics.
- Batches that the store gives up: `handled`, `fresh` and `due` mean that the save
  has returned.
- In `DomeggookDiscover`, a page that is not empty holds at least one product
  that can be saved.
- `RawSamples` has one saver. Two can exceed the limit between them until one
  saves again.
- `IntervalRateLimiter` (one timestamp under a lock), the rotation of domeggook's
  credentials, the token shared by ownerclan's workers, and the times at which
  requests really leave: the limiters bound grants.
- `fixed_categories save-categories` (the choice of categories by their paths) and
  the reading of its file.
- A sync run by itself beside `main.run`: it takes no lock, and the two then
  write the same date.
- The saver's connection: one that has broken makes every later save raise, which
  the collections' models have as a fault.
- The schema and its migrations; the daily runner's status for ownerclan and
  coupang; one-off scripts and probes.
