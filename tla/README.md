# A specification of price-forecast

TLA+ modules of the price-forecast serving layer, the TLC runs that check them and
the proofs TLAPS checks. Paths below are relative to `src/price_forecast/` unless
they name a file of the repository's root.

## The system

One process (gunicorn, one worker, a pool of threads: see `Dockerfile`) serves
predictions of a model that a separate training repository trains, publishes and
promotes. The two share nothing but an S3 bucket and a GitHub event.

```
 client --> app.py handlers ---read---> ModelStore._current <--swap-- reload()
   |            |  POST /reload, boot, background reloader ------------^  | reads
   |            |                                                        v
   |            +-- POST /trigger-train -> publisher -> S3 bucket: stable.json, v{N}/manifest.json,
   |                                          |            v{N}/model.pkl, _triggers/{id}/...
   |                                          +-> GitHub dispatch -> training repository --writes--^
   +--- GET /trigger-status/<id> ---reads four objects of the bucket
```

### Inventory

| Component | State | Operations | What makes it correct |
|---|---|---|---|
| Model store (`loader.py`) | `_current`, guarded by `_lock` | `reload`, `try_reload`, `current_or_none` | never serves what is not promoted, of its scope and verified; a failing reload leaves the served model alone; the answer of a reload is a version that was live during it |
| Serving process (`app.py`) | the gauge, requests in flight, the reloader thread | boot, `_loop`, `/predict`, `/predict/batch`, `/ready`, `/model/info`, `/reload`, `_after` | one model per answer; standby heals without a restart; every request is answered |
| Trigger publisher (`publisher.py`, `/trigger-train`) | temporary files, the trigger folder | fetch, upload, roll back, dispatch, mark | `trigger.json` means complete; a run that may be going keeps its inputs; no trigger hangs in "pending" |
| GitHub dispatch (`adapters/github_dispatch.py`) | the attempt | one POST and one retry | at most one run for an id; a refusal is a `RuntimeError` |
| Trigger status (`/trigger-status/<id>`) | none: four reads of the bucket | poll | a failure wins; answers do not go back; the end is told |
| S3 adapter (`adapters/s3_store.py`) | none | get, download, upload, put, delete, retries | a retry loop that looks to its caller like one call that worked or did not |
| Metrics (`metrics.py`) | counters, gauge | `inc_*`, `set_model_loaded`, `render`, the admin status | every answer a handler gives is counted once; a page made without the lock, of writes half done, is wrong by a known amount only |
| Feature validation (`validation.py`) | none | `validate_features` | a model gets only rows of its own contract |
| Request schemas (`schemas.py`) | none | the rules of a trigger request | one source of inputs, inside the data root |
| Configuration (`config.py`, `factories.py`) | none | `load_config`, `get_orchestrator` | which environments the service starts in |
| Key layout (`layout.py`), contracts (`contracts.py`) | none | parse and format | sequential; unit tests |
| Admin console (`templates/admin.html`) | baseline, id field, poll timer, status panel | refresh, submit, poll, take an answer | the panel does not go back, a run that ends is told |

Components interact by calls (handlers call the store and the publisher), by shared
memory (the store's `_current`, the gauge), and through the bucket, which other
programs write at any time. What is hard about it:

- **Overlapping answers.** The console polls every 15 s without waiting for the last answer,
  and keeps a baseline that refreshes, every 30 s, race with.
- **Torn reads.** The metrics page and the admin status read ten counters one by one, without
  the lock that writers hold.
- **Interleaving.** `reload()` is called by the boot, the reloader and any worker. The
  lock guards only the comparison and the assignment, so reloads overlap. Handlers
  read `_current` while it is swapped.
- **Non-atomic reads.** A reload reads three objects and a status poll four, while the
  training side writes.
- **Failure.** A call to S3 may fail before or after it has taken effect; a dispatch may
  queue a run and go unanswered; a pickle may raise anything; the process may be killed.
- **Liveness.** A process that starts with no model has to come to serve.

The hazards are listed, line by line, in `PROJECT.json`, each with the properties that
would catch it going wrong or the reason why none does yet.

## The modules

| Module | Models | How |
|---|---|---|
| `ArtifactBucket` | the bucket's pointer, manifests and models | written by the training side, which is external: any object may be put with any contents at any time |
| `ModelStore` | `loader.py` | one process per thread, one action per access to the bucket or to `_current`; extends `ArtifactBucket` |
| `ServedModel` | the abstract promise of the store | `ModelStore` implements it |
| `MCModelStore` | instance for TLC | |
| `ModelStoreProofs` | proofs about `ModelStore` | |
| `ServingApp` | `app.py` around the store | extends `ModelStore`; main thread, reloader and workers are its threads |
| `MCServingApp` | instance for TLC | |
| `ServingAppProofs` | proofs about `ServingApp` | extends `ModelStoreProofs` |
| `AppConfig` | `load_config`, `get_orchestrator` | pure operators: the environments the service starts in, and what a trigger meets of them |
| `TriggerRequest` | `TriggerTrainRequest` | pure operators on every kind of payload; extends `AppConfig` |
| `TriggerPublisher` | `/trigger-train`, `publisher.py`, `github_dispatch.py` | one request, of any payload in any environment, from its start to its answer, or to a crash; a call to S3 is one step |
| `PublisherOverS3` | the same over `_retry_s3` | extends `TriggerPublisher`: a call is a loop of attempts; implements `TriggerPublisher` |
| `PublisherOverS3Proofs` | proofs about both | |
| `TriggerStatus` | `/trigger-status` | the handler read by read, for several polls of any clients (`StatusSpec`); the run and the promotions are external |
| `TriggerStatusProofs` | proofs about `TriggerStatus` | |
| `AdminConsole` | `templates/admin.html` | extends `TriggerStatus`: the page whose polls these are; implements `StatusSpec` |
| `AdminConsoleProofs` | proofs about `AdminConsole` | extends `TriggerStatusProofs` |
| `FeatureValidation` | `validate_features` | pure operators on rows whose values are told apart as the code tells them apart |
| `Metrics` | `metrics.py`, `/metrics`, the counters of `/admin/api/status` | writers counter by counter under the lock, pages counter by counter without it |
| `Predictions` | `/predict`, `/predict/batch` with rows and counters | extends `FeatureValidation` and `Metrics`; the served model changes as `ServedModel` says |
| `MCPredictions` | instance for TLC | |
| `PredictionsProofs` | proofs about `Predictions` | |

### State and actions against the code

*ModelStore.* `current` is `_current`. For every thread, `pc`, `ptr`, `man` and `got`
are the program counter and the locals `pointer`, `manifest` and `loaded` of its call.
`Call`, `ReadPointer`, `Compare`, `ReadManifest`, `Download`, `Swap` and `Return` are the
stretches of `reload()` between two accesses to shared state. Hashing and unpickling work
on a local file, so they belong to `Download`. Its errors are told apart as the callers'
except clauses do: `LookupError`, `RuntimeError`, anything else. `StoreError` is a store
call that used up its retries or a document that does not parse; `UnpickleError` is
`pickle.load` raising, even a `KeyError`, which is a `LookupError`. `promoted`, `stored`
and `window` are history variables: the versions a pointer of this scope has named, the
files each folder has held, and the versions that were live during a call.

*ServingApp.* `Boot`/`BootDone` are `create_app`, `Wake`/`Sleep` the loop of the reloader,
`PostReload`/`PostReloadDone` the `/reload` handler around the store's steps, which
`Progress` takes. `Predict`, `Validate` and `Infer` are `/predict` and `/predict/batch` (they differ
in the number of rows), cut after the capture of the served model. `Probe` is `/ready` and
`/model/info`. `Hook` is `_after`, with its own read of the served model. `seen` is a
history variable: what `_current` has been since the request came in.

*Predictions and Metrics.* `ServingApp` leaves rows and counters out; `Predictions` is the same two handlers
seen from them. `Capture` is the read of `_current` after the payload was accepted, `ValidateRow`,
`RejectRow` and `RowOverflows` are `validate_features` of one row, `Infer` the model and what follows. `counters` are
those of `metrics.py`, by name. `IncPredict`, `IncBatch` and `IncReload` take the lock and note what is `due` to each of
them, and `Add` makes one addition at a time, in the order of their lines (`WriterOrder`); the lock is free when nothing is due
(`Unlocked`). A page takes no lock and is made in steps of one read each: `ReadNext` the counters it prints, in the order of the
code, `ReadGuard` and `ReadOperand` the average latency of the console. A request is `Counted`, by one of the three writers, or
`Uncounted`, when an exception leaves its handler. `answers`, `began` and `owed` (what was due to the
count when a page read the sum) are history variables. A value is `null` (None or a NaN), `huge` (an integer that `math.isnan` cannot convert) or
`plain`: see `FeatureValidation`.

*TriggerPublisher.* `pc` is the line of the request; `uploaded` and `tracked` are the lists
of the same purpose in the code (`uploaded`, `tmp_files`); `folder`, `runs` and `tmp` are
the bucket, the orchestrator and the disk; `raised` is the exception on its way to the
handler's except clauses. `payload` and `deployment` are what the request brings and what the process
was started with: any payload, any environment `load_config` accepts. `trouble` is a history variable: what was
applied but raised, was not deleted, went unanswered, or was left on disk by an `unlink` that raised (`DiscardRaises`, `Finally`),
so that a property can say precisely when it may fail. `RefusePayload` is what ends a request before the handler's `try`: a body
that is too long (413), a payload of the wrong form (400), or one that a validator refuses by raising `ValueError`, which the
list of errors then holds and `jsonify` cannot write (500).

*PublisherOverS3.* `failures` counts the failed attempts of the call that is going on. `TryAgain` is an
attempt that fails and is repeated, `GiveUp` the last one, or one with an error that is not worth another (S3 errors
other than throttling and 5xx; upload errors that boto3 wraps on its own, which `_retry_s3` does not
catch; errors of the local disk), `CallEnds` success. A failed attempt of a put may have been applied. The refinement
hides the object that is in doubt until the call ends.

*TriggerStatus.* `poll` is, for every poll on its way, where it is, what it asks, whether it has seen
`running.json` and what it answers; `Ask` sends it and `Collect` takes its answer. `objects`, `pointer` and `run` belong to the training side.
An id holds whole seconds and `updated_at` fractions; all the handler asks of time is whether the pointer looks later than
the trigger, which is `newer`. A pointer is moved to a new version (`NewPointer`) or put back to an old one (`PutBack`), as in
`ArtifactBucket`; `returned` is a history variable, the versions it was put back to.

*AdminConsole.* `text`, `baseline`, `field`, `polling` and `shown` are the version on the page,
`_baselineVersion`, the input field of the id, whether `_autoPollInterval` is set, and the status panel; `submit` is the trigger form
on its way. The operator clicks and types at any time, and answers are taken in any order. Failing polls
change nothing but a toast. A refresh may show any version promoted so far, or none, whatever was shown before: the process
may go back (`stale_swap`) or restart, and answers come late. Taken as given: no one types the id of a trigger that is not
made yet.

## The runs

| Run | Checks | Bounds | Size |
|---|---|---|---|
| `model_store` | `StoreTypeOK`, `ServedGenuine`, `ReloadAnswersPointer`, `SettledReloadsServe`, `RefinesServedModel` | 2 threads, 2 versions, 2 contents, 2 scopes, 1 write, 1 failure | 377 000 states |
| `serving_app` | `AppTypeOK`, `AnswersOneServedModel`, `AnswersAreGenuine`, `HeaderNamesModel`, `GaugeTellsLoaded`, `RequestsMoveOn` | boot, reloader, 1 worker, 2 versions, 2 contents, 1 write, 1 failure | 341 000 |
| `serving_live` | `Heals`, `RequestsAnswered` | the same with 1 content, no symmetry | 216 000 |
| `predictions` | `PredictionsTypeOK`, `ModelSeesItsContract`, `AnswersAreCounted`, `PagesTornByOverlapOnly`, `AverageNearlyWithinLatencies` | 1 worker, 2 versions with different contracts, 2 columns, batches of 2 rows with one odd value each, 2 requests or reloads, latencies of 0 or 1 tick | 2 610 000 |
| `trigger_publisher` | `PublisherTypeOK`, ten safety properties of a request, `NearerToAnswer`, `Answered`, `RefinesPublisher` | every deployment, 81 payloads, 4 attempts as in the code | 18 700 |
| `trigger_status` | `ConsoleTypeOK`, `FailureWins`, `OwnRunIsSeen`, `AnswersNeverGoBack`, `EndIsSeen`, `EndIsTold` | 1 trigger, 2 versions, 1 of them put back, 2 polls at once | 1 147 000 |
| `stale_swap`, `category`, `ready`, `marker`, `two_runs`, `baseline` | one claim each, which the code refutes | as above or smaller | |

`MaxPuts`, `MaxFaults`, `MaxVersions`, `MaxCalls`, `MaxLatency`, `Slots`, the rows of `SentRows` (at most one column missing,
null or huge), one `PutBack`, after a promotion by a run, and one submission for each id are the only bounds. Those of the store are enough
because the bucket starts with *any* contents: one write between two of a reload's reads
already gives every mix of an old object with a new one, and the write that makes a
served version stale; runs with two writes gave no new result. Two threads are enough for a reload that
overtakes another; the boot, the reloader and the worker make three in the process. One
failure is enough to end any one call in any way, at any of its steps; the proofs, below,
are for any number of all of these. Two contents are needed so that models of two versions
can differ: with one, an answer that mixes the two could not be told from a right one. For `trigger_status`, one trigger
is observed and every other trigger is `PromoteOther`; polls of two ids share nothing but
what the training side writes, and the panel, whose properties compare answers of one id. Two polls at once are one that is late
and one that overtakes it. A trigger id has one request, so one is enough for
`trigger_publisher`. In `predictions` one worker is enough: the lock makes the writes of
several workers a sequence, the reloader's `CountReload` is a second writer that the lock keeps out, and the swap of the model
comes between a worker's steps anyway; two calls are a page torn between two writes, or within one. The proofs are for any number. Symmetry is used over versions, contents and threads, which are only compared
for equality, and in no run with a liveness property.

No run disables the deadlock check.

### What the passing runs show

- Whatever the training side writes between the reads of a reload, what is served was
  promoted, is in scope, and has the digest of a manifest of the same folder. Served models
  change only in one step, and never back to none.
- A reload that returns a model returns a version that was live during the call.
- Once the bucket has settled on a sound version, and the calls that had read something older are over, every reload
  that meets no fault ends by serving it, and none takes it away (`SettledReloadsServe`). Only a reload that read an older
  pointer can, which is what `stale_swap` exhibits.
- An answer that names a version is about one model from validation to body, and that
  model was served during the request; it was promoted, is in scope, and a prediction is of bytes with the digest that the
  manifest of its contract gives. The header may name another one, but never "none".
- A request takes at most eight steps of its own to its end, those of its reload counted, whatever other threads do.
- From standby, from failures and with stale reloads in flight, the process comes to serve
  the pointer's version for good once the pointer stays on a sound one.
- A model predicts only from rows that were held against its own contract, all of them, although another one
  is swapped in while a batch is validated.
- Whenever no write is going on, every answer has been counted once, as what it was. Three ways out are not counted at all,
  as no clause of the handlers is for them: a body beyond `MAX_CONTENT_LENGTH`, for which `get_json` raises (413), an
  integer too large for a float (`OverflowError` of `math.isnan`, 500), and a column that the frame does not have
  (`KeyError` of `df[feature_cols]`, 500).
- A page may tell more errors than requests, by no more than the requests counted while it was made. That rests on `total` being
  incremented before `errors`, as the page takes no lock and sees writes half done.
- The average latency of the console *can* exceed every latency observed: `inc_predict` adds to the sum a line before
  the count, and `admin_status` may read between. It exceeds it by no more than that one observation; a page that reads its sum
  between two writes tells no such average, which rests on the sum being read before the count.
- For a trigger: a queued run keeps all its inputs, `trigger.json` never stands alone
  through a crash at any step, a 400 is never given for a queued run (but for a `ValueError` of the HTTP client after the
  dispatch was sent), a 502 always means that the trigger is
  there to be polled, and a second run, or a trigger that hangs,
  has one of the causes that the property names. Inputs come from one source and, with a data root or in prod, from
  inside it. A temporary file is left by an answered request only after an `unlink` that raised (`app.py:292` or `612`): the
  loop of the finally clause then stops, a later file stays too, and the answer is 500. `ORCHESTRATION_BACKEND=noop` passes the checks of prod, and then 200 means no more than a complete folder.
- Every step of a request takes it nearer to its end: with four attempts, after at most 33 steps it has been answered or
  the process has been killed.
- The retry loop looks to the publisher like one call, whichever attempt was applied.
- For a poll: a failure marker that was there when it began wins over any promotion, and a poll that is about to read what
  the end of its run has left - the marker, or the pointer it has moved - tells that end, unless the pointer stands at its baseline.
- For the console: what the panel tells of a trigger goes back only when a late answer is shown after that of a newer poll, or
  when the pointer was put back to the baseline. The polling of a run that has ended ends, while the pointer is not at the
  baseline. It may come to be there by a roll-back; and a page that had seen no version when it submitted may take the very
  version the run promotes for its baseline (`admin.html:310`), and its polls then never say "completed".
  `OwnRunIsSeen` shows that a page that had seen one is safe from the latter.

### Where the code disagrees with what is said of it

| Run | Said | Done |
|---|---|---|
| `stale_swap` | `README.md`: after the swap new requests serve the new model; `loader.py`: single-flight | of two overlapping reloads the one with the older pointer may swap last and bring a superseded version back, until the next reload |
| `category` | `contracts.py`: a mismatched category is rejected on read | only project and model name are compared |
| `ready` | `app.py`: ready iff the model reflects the live pointer | only the model in memory is looked at |
| `marker` | `publisher.py`: `trigger.json` guarantees the two inputs | a put of `trigger.json` that took effect but raised is not rolled back while the inputs are |
| `two_runs` | `ports/orchestration.py`: must not enqueue two runs | the retry after a time-out posts again |
| `baseline` | `app.py`: exact regardless of unrelated promotions | any other version completes the poll |

The matching properties that do hold say how far the promise goes: `Heals`,
`MarkerMeansComplete`, `SecondRunNeedsSilence`.

### Fairness

- `AppFairness`: weak fairness of the boot, the reloader's wake-up and return, the steps of a reload and the
  steps of a request in flight. The threads are the operating system's, S3 clients time out,
  `time.sleep` ends; each weakly fair action stays enabled until it is taken. No request has to come,
  and no one has to write. In particular nobody is assumed to call `/reload`: `Heals` rests on the
  reloader, so it needs `APP_RELOAD_INTERVAL_S` > 0, which the run sets. Failures are finite (`MaxFaults`): the
  bucket works in the end.
- `PublisherOverS3`: weak fairness of the request's own steps; attempts and GitHub calls time out, sleeps end.
  A crash may come and ends the request.
- `AdminConsole`: weak fairness of the polling as a whole (each of its steps changes `poll`, which is the subscript): while the timer is set, polls are sent, handled and their answers
  taken, in whatever order. `setInterval` and the worker threads justify it. Polls do not fail for ever, which
  is an assumption on the network. Neither the training side nor the operator has any fairness.

## What is proved

`ModelStoreProofs` and `ServingAppProofs` hold for every finite or infinite set of threads,
workers, versions, contents and scopes, and every value of the bounds; `PredictionsProofs` for every set of workers,
versions, columns and contracts, batch size and latency; `PublisherOverS3Proofs` for every number of attempts;
`TriggerStatusProofs` and `AdminConsoleProofs` for every set of ids, number of polls at once and of versions. Every invariant
and action property of the passing runs is proved, and that the store implements `ServedModel`, `PublisherOverS3` the publisher,
the process the store (`AppSpec => StoreSpec`) and the console the endpoint (`Spec => StatusSpec`). The last two hold step by
step, since each step of the larger module is one of the smaller or leaves it alone; they are what carries theorems over. The assumptions are the `ASSUME`s of
the modules: `None` is different from every value, this process's scope is one of the scopes, the bounds
are natural numbers, the threads are the main thread, the reloader and the workers, all different. SHA-256
is modelled as injective (`Sha256`).

**Model store.** `ServedGenuine` is not inductive: that `Swap` publishes a genuine model depends on what
the call read three steps ago. `StoreInv` adds

- `BucketRecorded`: the histories cover the bucket as it is, and every call's window the present pointer;
- `CallProgress`: at every step of a call, what it has read is of the kind the next step relies on: after
  the pointer, a promoted version of this scope that was live in the window; after the manifest, one that
  was in that version's folder; before the swap, a genuine model.

The histories only grow, so a fact about an old read stays true when the bucket is rewritten; that is the
whole argument. Each action has a lemma; the theorems `StoreInvariant`, `StoreTypeCorrect`, `ServedIsGenuine`
and `ReloadAnswerIsLive` follow. `StoreRefinesServedModel` maps `current` to the version and model it holds
and the histories to what has been promoted and intact: `Swap` is the abstract `Serve`, whose guards are
exactly `Genuine`, and every other step publishes or stutters.

`SettledReloads` is the safety half of `Heals`, and needs no more than `StoreInv`: while nobody writes, a version is
`Settled` when it is live and sound, the window of every call holds it alone, and a call that is about to download has its
present manifest. `CallProgress` ties what a call has read to its window, so a call whose window holds one version can
only swap that version in (`WorkSettles`), and a step outside a call leaves it all as it is (`SettledFrame`). What is left
to the run is that the reloader takes those steps.

**Serving process.** `ProcessUsesStore` shows that every step of the process is a step of the store, so the
store's theorems carry over (`ProcessServesGenuine`, `ProcessSettles`). `AppInv` adds to the properties what makes them
inductive: `LoadedIsServed` (a reload that has returned a model leaves one served, since nothing ever sets
`_current` back), and `RequestProgress` (what a request in flight has captured, or got from its reload, was
served during it). `AppInvariant`, `AppTypeCorrect`, `AnswersAreOfOneModel`, `HeaderNamesAModel` and
`GaugeIsTrue` follow. `GenuineAnswers` joins the two modules, from the bucket to the client: `AnswersAreGenuine` is not
inductive, as an answer is of a model that may have been replaced since. The strengthening is `SeenGenuine`, that
whatever a request has seen served since it came in is genuine; it stays true as the histories grow (`HistoriesGrow`).

`RequestsAlwaysMoveOn` is the safety half of `RequestsAnswered`: `StepsOf` counts the steps a request has left, and each step of
its worker lowers it, while those of the others leave the request as it is. It needs `WorkerCalls`: a worker is in a call of
`reload()` exactly while its request waits for one. Left to the run is that the worker is scheduled.

**Predictions.** `VerdictIsExact` says of `validate_features` that it accepts a row exactly when the contract is empty, or the
row fits it and no checked value overflows. `PredInv` adds to the properties

- `RequestInv`: the rows found valid so far fit the contract of the model the request captured, which is
  the contract of its version. So the rows fit when the last of them has been seen, whatever is served by then.
- `CountInv`: what a counter holds plus what is still `due` to it agrees with the answers given. A write changes the sum
  when it takes the lock, and no addition changes it (`AddMoves`); with nothing due it is `AnswersAreCounted` (`BooksTell`).
- `PageInv`: what a page has read of a counter lies between its value when the page was begun and its value now, and the
  sum of an average is at most the longest latency times the count that is, or will be, read after it and what was `owed`.

Counters only grow, and before, during and after a write (`Sane`) errors are no more than calls, and the sum no more than
its count and what is due to it allow. During a write the first rests on `total` being added to before `errors` (`TotalsFirst`). That is why
a torn page is torn only so far.

**Publisher.** `PubInv` is the invariant by program counter: at each line, which objects the folder holds (those uploaded, and those
lost), which runs there may be, which exception is on its way and which temporary files are tracked. None of
its properties is inductive without it: that a rollback leaves nothing depends on what the uploads before it recorded. The upload
order enters by two lemmas on prefixes of it (`NextUpload`, `LastUpload`). `LoopIsOneCall` is the refinement: a
failed attempt is a stutter, since the object in doubt is hidden, and the end of the loop is the one step of the publisher.

`RequestsEnd` is the safety half of `Answered`. `StepsLeft` counts, by program counter, the steps a request may still take
if everything fails as late as it can: the attempts left of the call that is going on, a full loop for every download and
upload after it, then the rollback, or the dispatch and the marker, and the answer. Every step lowers it (one lemma per
action), and it is never negative. It rests on `PubInv`: how many uploads are left is read off `uploaded`.

**Status endpoint.** `StatusInv` holds under any clients: they poll any trigger with any baseline, and several of them at once.
`WorldInv` says of the training side that the end of a run leaves its object, a failure the marker and a promotion a
pointer that has moved since the trigger was made, though it may be put back to an old version, and `PollRead` of every poll that what it has read is there. But for the pointer the world only grows (`WorldGrows`), so what
was read is there still. `EndpointFailureWins` and `EndpointTellsEnd` follow.

**Console.** `ConsoleIsAClient` is a refinement: every step of the page is a step of the endpoint under any clients or a stutter,
so the endpoint's theorems hold below the page (`FailureAlwaysWins`, `ConsoleIsToldTheEnd`). The rest needs to know
more of the page's own polls. `ConsoleInv` says of every poll what its reads have shown (`Supports`): an answer "failed" that the
marker is there, "completed" that the pointer has left the baseline, and so on. This stays true: objects are not deleted, new versions are
new, and a pointer that is put back to the baseline is in `returned`. `Follows` relates an answer to the one shown: a poll sent after an answer
was taken never tells less, while the pointer was not put back to the baseline. `AnswersNeverGoBack`, an action property, follows from it, as a poll that does not follow has been overtaken.
`OwnRunIsSeen` needs `PageInv`: the baseline of a page that submitted with one is older than the version of its run, so the pointer
names it after the promotion only when it was put back.

**Only model-checked:** the liveness properties (`Heals`, `RequestsAnswered`, `Answered`, `EndIsTold`),
since liveness under fairness is out of the prover's reach. The safety half of each is proved: `SettledReloadsServe` of
`Heals`, `RequestsMoveOn` of `RequestsAnswered`, `NearerToAnswer` of `Answered`, `EndIsSeen` of `EndIsTold`. No refinement has a
fairness part: the abstract specifications state none. The six refuted claims are counterexamples of TLC.

## What is abstracted

- *Versions.* `version_id` is the text form of `version`, as `schemas/pointer.v1.json` says; the code does not check it.
- *Data.* Predictions and the texts of answers are left out: an inference works or fails. Features are
  left out of `ServingApp`, and kept in `Predictions` as far as `validate_features` tells them apart. A malformed document is a `StoreError`.
- *The admin token* is set in the runs, and the tokens that are sent are the right one, a wrong one and one that is not ASCII
  (`hmac.compare_digest` raises, 500). With `AdminToken = None` every guarded call is answered 501, which
  the proofs of `ServingApp` cover and TLC does not; `TriggerPublisher` has both.
- *Restarts.* The process keeps nothing on disk but temporary files. A restart is a fresh start from any bucket,
  which `BucketInit` already is.
- *CORS, logging and request ids* change no state a property is about.
- *The pointer's `updated_at`* is the time of the write that put it there, a roll-back included; the code never compares it with anything
  but the time in a trigger's id.
- *The reloader's stop event* is used only by tests: `create_app` passes none.

- *The console.* Health pills, the schema view, toasts and the reload button, which only shows the answer of `/reload`.
- *Configuration.* Of a variable, what the checks of `load_config` and the trigger request tell apart. Names, region, port, strictness and
  log format are parsed and not looked at again.

Not modelled:

- *Key layout.* Objects are named by what their keys stand for. How keys are spelled is string formatting behind
  regular expressions, which only restates itself in TLA+, and is left to unit tests.
- *The command line, the container and the CI files* are thin wrappers; what matters of them, one process with a
  pool of threads, is how `ServingApp` is built.
- *`exists` and `list_subkeys`* of the S3 adapter and `current()` of the loader, which the service does not call.
- *`/health` and the login of the console*, which keep no state.

## Plan

Done, in order of importance: `ArtifactBucket`, `ModelStore` with `ServedModel`, `ServingApp`, `TriggerPublisher` with
`TriggerRequest` and `AppConfig`, `PublisherOverS3`, `TriggerStatus`, `AdminConsole`, `Predictions` with `Metrics` and
`FeatureValidation`; the proofs of all of them; and the safety half of each liveness property.

Left:

1. A composition of the publisher with the status endpoint, for the property that spans them: a trigger answered 502 is told as
   failed, unless its marker could not be written.
2. `Predictions` over `ServingApp` itself rather than over what `ServedModel` promises; the state space is the obstacle,
   not the proof.
3. A key layout over sequences of segments, should a second program ever write to the same trees.
