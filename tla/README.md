# SongVoice: a TLA+ model of the engine and of the application around it

This directory models the stateful core of SongVoice, a desktop application that
turns a song into a cover sung by another voice, and that trains such voices. The
application (`src/src/svc_app`, Qt) starts an engine process
(`src/src/svc_engine`) and speaks to it in JSON lines; the engine runs the jobs,
keeps a cache of finished steps, starts a detached worker for training, and stages
updates that a launcher installs at the next start.

Nearly everything that must survive a crash is a file, written by several
processes that share no lock. That is what most of the models are about: which process
writes which file, in what order, and what another process, a later start or a
failing disk can see in between. The rest is about the work itself: which device a
model is given, how long and in what place every piece of sound is, how far voice and
music are moved, and which recordings a voice is trained on.

Paths below are relative to the repository; `jobs/`, `training/`, `updates.py`
and so on stand for `src/src/svc_engine/...`, `screens/`, `main.py`,
`launcher.py`, `engine_client.py` for `src/src/svc_app/...`.

## 1. Inventory

### 1.1 Modelled components

| component | state it keeps | operations | what makes it correct |
|---|---|---|---|
| Step cache (`jobs/cache.py`, `jobs/_io.py`) | one directory per key with files and `entry.json`; temporary directories; times of last use | `lookup`, `publish`, `enforce_limit`, `remove_abandoned_temporaries` | an entry is whole or absent, only whole entries are handed out, a lost race to publish is a success, the quota brings the size under its limit |
| Job runner (`jobs/runner.py`, `jobs/cancel.py`) | position in the plan, keys and results held in memory | `run`, `cleanup`, cancellation token | what is recorded as completed is completed, cancellation ends a job as cancelled and only when asked for, an interrupted job can be resumed to its end without repeating finished steps |
| Recovery store (`jobs/recovery.py`) | `jobs/<job_id>.json`: status, steps, cache keys | `create`, `save`, `load`, `discover` | the durable image of the runner at every save point |
| History store (`history/store.py`) | one row per job in the SQLite file `db.sqlite` | `record` | agrees with the snapshot |
| Cover workflow (`workflows/cover.py`) | `jobs/requests/<id>.json`, the user's output file | `run_cover`, `resume_cover`, the delivery step | what can be resumed has its request, what is completed was delivered |
| Engine server (`rpc/server.py`, `rpc/protocol.py`) | its input and output pipes, the request it serves | read a line, serve it, answer | one answer for each request; ends when its input does |
| Client, window, wizard (`engine_client.py`, `main.py`, `screens/`) | the engine process, one call per thread, the worker thread, its queued signals, the page shown | `call`, `stop`, `_start_worker`, `cancel_cover`, `closeEvent`, navigation | an answer reaches the call that asked, no call hangs, what is shown is true |
| Training session (`training/trainer.py`, `session.py`, `worker.py`, `screens/voices/training_wizard.py`) | `session.json`, process id, dataset directory, published voice | `create`, `inspect`, `prepare`, `start`, `pause`, `status`; the worker's own saves; the wizard's pages and buttons | one worker at a time, nothing trains under a paused record, training uses data that passed the gate, "ready" means that the voice exists and stays true |
| Dataset preparation and Applio runtime (`training/dataset.py`, `quality.py`, `runtime.py`) | dataset directory, previous one kept aside during a swap; the installed programs | `inspect_recordings`, `build`, `ensure`, the four programs | every segment is fit for the trainer, no singing is lost or doubled, only material that passed is trained on, and by whole programs |
| Updates (`updates.py`, `launcher.py`) | staging directory and `pending.json`, backup, `transaction.json`, installed files | `stage`, `apply_pending`, `_restore`, `rollback_version`, start of the application | a failed attempt leaves the installation as found, a staged release gets installed, the application starts from one release |
| Model files (`resources/`, `provisioning.py`, `screens/first_run.py`) | files under their names, one partial file each, `setup-complete.json` | `ensure_file`, `Provisioner.run`, the first-run dialog, `svc models` | only verified weights are loaded, the setup comes to its end |
| Voice library (`voices/`) | one directory per voice with model, index, `voice.json`; a `.previous` beside it during an activation | import, removal, health check, change | an imported voice is kept until it is removed, and replaced on request only |
| Projects and settings (`projects/store.py`, `config.py`) | a file and its backup per project; `settings.json` | save, load, list | a saved project loads again; settings that do not load stop nothing |
| Devices (`compute/`) | `compute-support.json`, the devices found | detection, `load_matrix`, `device_for*`, `oom_ladder`, `verify-backends` | a model runs on an accelerator only where it was proven; a retry asks for less |
| Separation (`separation/`) | the model loaded, the stems | the models of a level with their retries, the ensemble, the cleanup | every stem is as long as the song; what was loaded is released before something else is asked for |
| Analysis, pitch, conversion, post-processing (`analysis/`, `pitch/`, `conversion/`, `postfx/`, `tuning/`) | the extractor or voice in memory, the curve, the windows, the variants | the steps analyze and render of a cover | the song keeps its length and order, voice and music stay in one key |

### 1.2 How the components interact

* The window owns one engine process. A request is a line, the answer another
  line; the engine answers one request at a time. Cancelling is `stop()` on the
  client: the pipe is closed, the process gets some seconds, then it is
  terminated. So *the engine can die between any two steps of any request*, and
  at each start the window asks `jobs.recoverable` and offers the first one.
* `JobRunner.run` calls the recovery store, the history, the cache
  and the steps; `jobs.cleanup` calls the cache's quota and the removal of orphaned
  workspaces. Two engines (two windows, or the command line beside a window)
  share the cache directory, the snapshots and the workspaces, without a lock.
* The training coordinator runs inside the engine. The worker is detached: it
  outlives the engine. Both rewrite the whole of `session.json` from the copy
  they hold in memory. The operating system's process table is the only link
  from the record to the worker, and process ids are reused.
* The wizard polls `training.status` every 1.5 s and shows a page for each stage;
  its buttons decide which requests can be made at all.
* The engine stages a release; the launcher, another process, installs it. A
  second start of the launcher while the application runs is possible.
* A cover's steps hand stems, curve and decision on to each other inside one engine, which
  holds one model in memory at a time. The device is chosen from the evidence file, which
  the command `svc verify-backends` rewrites.
* The first-run dialog, the covers and `svc models --download` fetch the same files, and every
  mirror, attempt and process writes to the same partial file.

### 1.3 What is hard to test here

Interleavings of processes on one directory tree; whole-record saves from stale
copies; removal and copying of directories file by file; a step that fails after the
previous one has been made durable; crashes at each of these points; a resumed
job whose settings have changed; retries that meet what an earlier try left; models and
external programs that return a little more or less than they were given; boundaries of
windows, segments and octaves. `PROJECT.json` lists them one by one under `hazards`, each at
its line, with the property that covers it or the reason none does.

### 1.4 Not modelled

| part | why |
|---|---|
| The networks (`conversion/rvc/infer_pack`, `analysis/rmvpe_model.py`, audio-separator, FCPE, Applio) | tensor arithmetic, vendored or external; a model is what it may return, or fails |
| Filters, reverberation, spectra, loudness (`audio/effects.py`, parts of `postfx/`, `analysis/key.py`) | arithmetic on samples; lengths, channels, silence and the order of the calls are modelled |
| `pitch/softening.py` | nothing calls it |
| Benchmark, diagnostics, packaging smoke test, `tools/`, `spike/` | developers' tools: they measure and report, and keep no state the user's work depends on |
| Layout, texts, playback, theme of the screens | no state beyond what they show; the requests they make are inputs of the models |
| An installation that forbids downloads (`allow_downloads`) | it is the case without mirrors |

## 2. Modules

| module | models | composed with |
|---|---|---|
| `StepCache` | one process's operations on the shared cache, one file-system step at a time | extended by `CacheWorkers` and `JobRunner` |
| `CacheWorkers` | several processes that look up and publish in one cache | extends `StepCache` |
| `CacheWorkersProofs` | theorems on it | extends `CacheWorkers` |
| `JobLedger` | what the runner promises about a job: an abstract state machine | implemented by `JobRunner` |
| `JobRunner` | `run`, `cleanup`, cancellation, crashes, resumption, with the real cache | extends `StepCache`; `Ledger == INSTANCE JobLedger` |
| `JobRunnerProofs` | theorems on it: the records for any number of processes; the cache and the ledger | extends `JobRunner` |
| `CoverSession` | window (two threads), client, pipes, engine server, cover workflow | its jobs are those of `JobRunner`, of which it follows the last step |
| `CoverSessionProofs` | theorems on it | extends `CoverSession` |
| `TrainingData` | quality checks, cutting into segments, the sample (functions) | extended by `TrainingSession` |
| `TrainingSession` | coordinator, worker, wizard, Applio's installation, operating system | extends `TrainingData` |
| `TrainingSessionProofs` | theorems on it | extends `TrainingSession` |
| `UpdateInstall` | staging, launcher, running application | |
| `UpdateInstallProofs` | theorems on it | extends `UpdateInstall` |
| `ModelDownload` | model files, mirrors, first-run setup, covers and the command that need them | |
| `ModelDownloadProofs` | theorems on it | extends `ModelDownload` |
| `UserData` | voice library and import, projects, settings | |
| `UserDataProofs` | theorems on it | extends `UserData` |
| `Compute` | devices, evidence, choice of a device, memory, the retry ladder (functions) | extended by `Separation` |
| `Audio` | buffers: length, channels, whether anything is heard (functions) | extended by `Curves` and `Separation` |
| `Curves` | pitch tracks, segments, ranges, the preview, the report (functions) | extends `Audio` |
| `Pitch` | profiles, the decision how far to move voice and music, its wording (functions) | extends `Curves` |
| `Conversion` | windows, cross-fades, one window through the voice model, post-processing, tuning (functions) | extends `Pitch` |
| `Separation` | the run of the separation models and the cleanup, as a state machine | extends `Compute`, `Audio` |
| `CoverGraph` | the graph of a cover and the commands that do all of it or a part | extends `Separation` and `Conversion` |
| `CoverGraphProofs` | theorems on it and on the functions below it | extends `CoverGraph` |
| `MCJobRunner`, `MCTrainingSession`, `MCUpdateInstall`, `MCModelDownload`, `MCUserData`, `MCCoverGraph` | the instances of the runs | extend the module of their name |

Definitions whose comment begins with "Mutant:" are faulty forms of the definition
after them, which a plausible mistake in the code would produce. No specification uses them; they
are there to show that each property can fail.

### 2.1 StepCache and CacheWorkers

`entry[k]` is the directory of key `k` on disk, with the parts it holds, one of
which is the manifest; `temp[p]` is the temporary directory the process `p` fills;
`litter` are those that died with their process. `stage[p]` is the program
counter of a process inside the cache, `target`, `todo`, `victims` and `total`
its local variables.

| action | code |
|---|---|
| `Lookup`, `Touch`, `TouchFails` | `lookup` (cache.py 104-123): verification of the files against the manifest, then the separate rewrite of the manifest |
| `PublishBegin`, `PublishMkdirFails`, `PublishCopy`, `PublishManifest`, `PublishReplace`, `PublishVerify`, `PublishFails` | `publish` (125-181), with the rename that is refused when the directory exists; the directory itself is made before the `try` that cleans up |
| `Sweep` | `remove_abandoned_temporaries` (229-237), which cannot tell a live temporary from a dead one |
| `QuotaScan`, `QuotaNext`, `RemoveChild`, `RemoveDir`, `RemoveLocked`, `QuotaDone` | `enforce_limit` and `_remove_entry` (195-227, 275-290): a directory goes file by file, a locked file stops it half-way |
| `CacheCrash` | the process dies, at any point |

`CacheWorkers` composes the lookups and publications of several processes. Sweeps and evictions are
in the run of a job, that is in `JobRunner`; a cache that several processes sweep or evict at once breaks
its promises (section 5), and no run claims otherwise.

Abstractions: every entry weighs one unit of the quota; the order of eviction (least
recently used) is left open, so every order is explored; a part of an entry
is a member of a small set, its hash is right or wrong by its presence.

### 2.2 JobLedger and JobRunner

A job is a plan of steps; a step has dependencies and a key made of its inputs,
parameters and dependencies' keys (`Key`). The model's `pc[p]` follows `run`
from top to bottom: submit, prepare the workspace, discover, sweep, mark running,
history, then for each step lookup, execute, publish and save, then complete,
history, quota. Each save of the snapshot can raise before or *after* the new file is
in place, since the flush of the directory comes after the rename
(`atomic_write_json`). Every `except` block is an action of its own (`Fail`,
`FailHistory`, `Cancelled`), and the handler can fail too; making the workspace can fail as well
(`PrepareRaises`), before there is a handler. `Crash` is possible
everywhere. `Free` says that two processes do not run one job at a time: the
window offers only one recoverable job, at its start, to the user in front of it.

`JobLedger` keeps of all this three things: `status` (new, open, done, cancelled), `bank`,
the results that are valid in the cache, and `held`, the results live runs have
behind them. A job is opened, closed or cancelled (`Open`, `Close`, `Cancel`), a result is
banked or dropped (`Bank`, `Drop`), and `held` changes within the bank (`Hold`). It is closed
only while every result of one of its plans is held, and a held result is not dropped.
`ImplementsLedger` says that every step of the runner, crashes and failing saves
included, is a step of the ledger or a stutter.

### 2.3 TrainingData and TrainingSession

`disk` is `session.json`, `mem` the copy a coordinator request holds, `copy[p]` the
one worker `p` holds; `trainer[p]` is the worker's program counter, `others` the
process ids that belong to other programs. `page` and `shown` are the wizard's page and the stage its
poll has last shown. Each request is split at each point where another process can come
between: `Start` / `Popen` / `StartSave`, `Pause` / `Kill` / `PauseSave`, `Status` /
`StatusCheck`, the worker's `Hello`, `EnsureSource` to `EnsureConfig`, `BeginTraining`, `Epoch`, `NextPhase`, `Finalizing`, `ClearVoice`,
`PublishVoice`, `Done`.

Assumptions: one session; requests come from the wizard; a request other than
preparation answers before the client's patience ends, so closing
the window kills only an engine that cleans recordings; the comparison of the process
table by substring (`_pid_exists`) is folded into `others`. The library opens
only the newest unfinished session, which with one session is that one.

`TrainingData` gives every recording the loudness of each frame before and after cleaning, a sample rate and a direction
of timbre. `InspectRecordings` yields the issues the checks find, `Segments` the frames of every segment, with the
bridging of short pauses, the padding, the joining of short regions and the cutting of long ones; `CutCleanly` says what they
must be. `TrainingSession` takes its
material from a small set, builds the dataset with these functions, and lets the worker's `ensure`
install the source, the models and the configuration of Applio in the steps of `runtime.py`, any of
which a death may follow. The four programs (preprocess, extract, train, index) run in that order.

### 2.4 UpdateInstall

A file's content is the number of the release it came from. `install` is the
installation, `staged[v]`, `pending`, `backup[v]`, `receipt[v]` the files of
the updater, `todo`, `done`, `wrecked` the launcher's variables; `before` is a history
variable. Staging goes through the archive once, so that what the launcher empties meanwhile is not
extracted again, and it fails when nothing of a release is there in the end (`StageEmpty`). Copying is one action per file and the order is arbitrary. A file that a running
application holds open cannot be replaced. A power loss during `_restore` may
leave the file being copied half written (`Torn`), since `_restore` copies in place,
while `apply_pending` copies beside it and renames.

Assumptions: one launcher at a time; the removal of an old backup does not stop
half-way; the copies `_restore` makes do not fail by themselves; the download is
verified (size and hash) before anything is staged; the `.update-new` copies a
crash leaves behind are not followed.

### 2.5 CoverSession

On disk: `request[j]` and `target[j]` are the request file and the output it names, `snap[j]`
the status in the snapshot, `delivered[j]` whether the delivery's result is cached,
`file[o]` the user's file. `engine[e]`, `inbox[e]`, `outbox[e]` are an engine process and
its pipes: `up`, `open` (its input is not at its end), `heard` (its output has a reader), `at`
(its place in the code). `proc` is the client's `_process`; `call[t]` is the call of thread `t`,
"gui" or "worker"; `worker` the worker thread with the signals it has posted; `win` the
window: what its GUI thread does (`gui`, `then`), screen, page, the flag `cancelled`.
`shared` is a history variable: the jobs that two engines were running at once.

| action | code |
|---|---|
| `Serve`, `Stage`, `Exits` | `serve_stdio` and the handlers; every short request is one step |
| `CoverRequest`, `CoverRefused`, `LoadRequest`, `Execute` | `run_cover`, `resume_cover`, `_execute`, in the order of their writes; the request's own save may raise with the file in place (`Requested`) |
| `Run`, `Work`, `Copying`, `Publish`, `RunFails`, `Complete`, `Finish`, `Failing` | the run of the job as seen from here, the delivery split into begin, copied, cached; the request taken back or dropped |
| `CallStart`, `CallWrite`, `Returns` | `EngineClient.call`: start or reuse the process, write the line, read until an answer, an error, a foreign line or the end of the pipe |
| `WorkerReturns`, `TakePosted`, `StartWorker` | the worker thread and its queued signals |
| `Preview`, `Full`, `GuiReturns`, `Visit`, `Settings`, `CheckUpdate`, `OpenProject`, `Wizard`, `Turns` | what the user can do, with the requests the GUI thread makes itself |
| `Cancel`, `Close`, `Stop`, `StopEnds` | `cancel_cover`, `closeEvent` and `EngineClient.stop`: close the input, wait, kill |
| `AppDies`, `EngineDies`, `Noise` | the window or an engine is killed; a library prints into the protocol's output |

Assumptions: a worker thread's end reaches the window before its next event; `CallStart` is
one step, although nothing in the client makes it so; lines of progress are not followed,
except that an engine whose window is gone fails at the next one; the pipes of
a dead engine vanish once no call refers to it; a line goes to either of two threads that
read. A job identifier is chosen when the button is pressed; that of a
finished cover may stand for a new one, so that one or two identifiers suffice. Target 0 is a
preview, which goes to the application's own folder.

### 2.6 ModelDownload

`target[f]` is what stands under a file's own name (nothing, the pinned content, another), `part[f]` the blocks of
the partial file, `marker` the file `setup-complete.json`, `mirror[u]` the body a mirror serves and whether it honours ranges,
`proc[e]` what a process is doing, `window` the engine the open window talks to. `orphaned` is a
history variable: a process has worked beside the window's engine.

| action | code |
|---|---|
| `Present`, `Missing`, `NoSpace`, `Verified`, `Mismatch` | `ensure_file`: compare what is there, fetch, compare again |
| `Answered`, `Refused`, `Receive`, `BodyEnds`, `Dropped`, `DiskFull`, `Install`, `InstallFails` | `_fetch_once` and `_fetch_with_retries`, with the statuses 200, 206 and 416 and the rename |
| `Setup`, `Cover`, `ModelsCommand`, `Record`, `Use` | `Provisioner.run`, the loading of weights, `svc models --download` |
| `Open`, `WindowDies`, `EngineDies` | the window and its first-run dialog |

Abstractions: a hash is right exactly when the content is; a block is right or wrong; a mirror keeps to
its body for a whole behaviour; a pause between attempts is no step.

### 2.7 UserData

`voice[i]` and `previous[i]` are the directory of an id and the one an activation set aside: the import it comes from, its
model and its `voice.json`, which may be missing or torn. `import` is the command under way, `owed[i]` (history) the imports the
user may hold under that id: two, while a replacement is under way. `project` holds the
versions in the file and in its backup, `saving` what the save read, `newest` (history) what was saved last;
`settings` is the file of that name: whole, torn, or torn inside a character of several bytes (`Undecodable`), which only a
folder name outside ASCII makes possible (`Cuts`). `LoadSettings` gives what is in it, the usual settings, or `Raised`.

| action | code |
|---|---|
| `Import`, `Stage`, `Discard`, `SetAside`, `Swap`, `RenameRefused`, `Drop`, `DropStops` | `import_voice_from_zip` and `_activate_replacement`, rename by rename; `Recover` brings back what an interrupted activation left |
| `Remove`, `RemoveStops`, `RefreshHealth`, `Update`, `Written` | the library; a manifest is written in place and is torn in between |
| `Save`, `SaveBackup`, `SaveFile` | `ProjectStore.save` |
| `SettingsSave`, `SettingsWritten` | the server's check of the settings and the write in place |
| `Dies`, `FileRots` | a death between any two of these; a damaged project file |

Assumption: one command at a time (section 5 says what two processes can do to each other).

### 2.8 Compute, Audio, Curves, Pitch, Conversion

Functions only, in the order of the code. A device is a member of three; evidence is a set of entries. A
buffer is a length, a number of channels and whether anything is heard. A pitch is a semitone, 0 where nothing is sung. Costs
are integers, scaled as their comments say, gains whole decibels. What the code sorts is a set here with the order in which
it is gone through: the percentile of a voice lies between the frames below and above it (`Lower`, `Interp`), the chosen shift
is the one that comes before all others (`Before`, `First`), and the two alternatives are the first of what is left when those
that move the music in the same way are taken out (`DistinctFrom`). In `Conversion` a sample is the place of the song it comes from, so that a window that is
shifted, blended with another or cut short can be seen in the result.

### 2.9 Separation and CoverGraph

`evidence` is the support file, `present` the devices of the machine, `sep` a run of the separation with the rungs of the ladder that
are left and whether one was used up, `call` where a call of the backend is: a separator of its own loads the model (`Loads`), takes the
place of the one the backend held (`HandsOver`), and works. `loaded` is the model of the separator that the backend refers to, so while
`call` is "loading" there may be two in memory (`Separators`); `cover` is the cover under way with everything its steps hand on, `held` the
other models in memory, `voice` the voice, `report` what `svc analyze` said. `Next` follows `_production_steps`: separate
(`Route`, `AttemptSucceeds`, `AttemptRunsOut`, `AttemptFails`, `Combine`, the cleanup), analyze
(`ExtractorLoads`, `Extract`), render (`Decide`, `VoiceLoads`, `Convert`, `Measure`, `Mixed`, for every variant), `Deliver`.
Every step can fail, and says what it leaves in memory; the progress hook raises when the job was cancelled (`Interrupted`). The commands `separate`, `analyze`, `profile`, `pitch`,
`convert` and `verify-backends` enter the same actions where the code does.

Abstractions: a separation or voice model returns a frame more or less than it was given; a
backend that fails without a code of its own is one error; two models that are loaded one after the other inside `load`
(HuBERT and the voice) are one. What an exception keeps alive through its traceback, as the one that `run_with_oom_ladder` remembers
may, is not followed: a separator counts as gone when the backend does not refer to it and its call has ended.

## 3. Runs

Distinct states and times are those of a two-worker run.

| run | question | bounds | states |
|---|---|---|---|
| `cache_race` | do processes that publish and look up the same keys ever see or leave a partial entry? | 3 processes, 2 keys, 2 disturbances | 98k, 5 s |
| `jobs_alone` | are snapshot, history and cache consistent, does the quota hold, and is the ledger implemented? | 1 process, 2 jobs, room for 2 of 4 entries, 2 disturbances, changed parameters | 419k, 22 s |
| `jobs_resume` | does an interrupted job end, and without repeating finished steps? | 1 process, 1 job, 3 disturbances, room in the cache | 30k, 7 s |
| `training_runs` | is a training safe, and is a dead worker noticed, when worker, engine, disk or power fail? | 3 process ids, 3 disturbances, 4 materials | 229k, 30 s |
| `update_runs` | are failures undone, and is a staged release installed? | 3 files (one added, one held open), 1 release, 2 disturbances | 200k, 22 s |
| `cover_session` | does every call end with its own answer, and are covers resumable and delivered, across cancellations, closing and reopening? | 1 cover, 1 output name, 2 engines, 1 disturbance, any number of cancellations and requests | 302k, 3 min |
| `models_setup` | are only verified weights used, and does the setup end? | 1 file of 2 blocks, 2 mirrors, 2 attempts, 2 processes, 1 disturbance | 400k, 1 min 40 s |
| `cover_graph` | do devices, lengths, places, keys and memory stay right through a cover and the commands, and is a report true? | 4 voices, 2 machines, 2 covers, 4 command lines, 5 pitch tracks, 146 songs to report on, a song of 6 frames | 119k, 40 s |
| `user_data` | are voices, projects and settings kept? | 2 ids, 4 archives, 4 commands, 2 faults | 316k, 9 s |
| `proven_only` | *violation*: does the conversion run only where it was proven? | as `cover_graph` | |
| `invents_note` | *violation*: is every pitch given to the vocoder one that was sung? | as `cover_graph` | |
| `update_mixed` | *violation*: does the application always start from one release? | no disturbance at all | |

Why these bounds: the hazards involve at most two actors and two disturbances each (a
failure and the failure of its handler; a crash and a second crash after
resumption); two jobs make one job evict the steps of the other; two process ids are
an old and a new worker, the third lets a further restart happen. `MaxEvents` bounds
faults, crashes, cancellations and cleanup requests in one
behaviour (in `cover_session` cancelling is not among them). Two engines are the one a
window left behind and the one the next window starts; the client never uses a request id twice, and eight ids
are enough for `NewId` to find one that no call or pipe holds in every reachable state (TLC would stop at the
`CHOOSE` otherwise). A job begins under any identifier that nothing refers to.

The material of `training_runs` is one that passes with two recordings of different rates and a song of
two stretches, one by two singers, one too short and one without a voice; pauses, segments and limits are scaled
to a few frames (`MCCut`) so that every branch of the cutting occurs. A file of two blocks is the shortest that can be cut, continued,
exceeded and completed by the wrong mirror; the mirrors serve every combination of the right
body and a longer wrong one, with and without ranges, at least one of them right. Four commands of `user_data` are an
import, a replacement, another import of the name and what happens to the result. In `cover_graph` the windows
are shorter than, as long as and longer than the song, with overlaps, one voice has a measured quality
curve, one no pitch, one no range, one no consent; the conversion is 20 dB quieter or 4 dB louder than the singing, so that
the gain meets its limit or does not; the songs reported on are every pattern of six sung and silent frames and of four with two
pitches, and the empty one; and the evidence is the file that the application ships, or
any that `verify-backends` can write.

`CHECK_DEADLOCK FALSE` is used where the system really stops: a session ends (the voice is ready and the wizard
is closed), the user may leave the window shut, a cover is delivered, and the commands of `user_data` are used up.

### 3.1 The properties

* `WorkersInv`: what a key names is a whole entry or nothing, with what makes that inductive
  (section 4). `LosersSucceed`: a process whose rename is refused because another was
  faster returns the entry and does not fail.
* `CacheKeepsWhole`: what appears in the cache is whole, and what a step gets is whole, although
  removals stop half-way. `QuotaHolds`: after `enforce_limit` the cache is within its limit or holds only
  protected entries; directories without a valid manifest count too.
* `CompletedCoherent`: in a completed snapshot every step is done, with the keys of a single
  plan, even if the job was interrupted and resumed with other parameters.
* `RecordsTrue`: a run that is cancelled while a step is still to be finished
  never gets to completion; a snapshot becomes *cancelled* only in the handler of a run that was cancelled;
  a final status enters the history only when the snapshot already has it; once both say *completed*, only a new run reopens the
  job. (While only the snapshot says so, a failing write of the history does turn it back: section 5.)
* `ImplementsLedger`: section 2.2. `NoRerun`, `ResumedJobsEnd`: see `jobs_resume`.
* `TrainerFollowsRecord`: two workers never train one session, and none trains under a record that says paused.
  `TrainsOnPassed`: what is trained on passed both checks, was cut cleanly, and is used by whole programs.
  `ReadyMeansVoice`, `DeadWorkerNoticed`: section 1.1.
* `Undoable`, `FailureRestores`, `ReceiptRollsBack`,
  `StagedIsInstalled`: at every moment the launcher has enough written down to go
  back; a failed attempt does go back; a receipt is true; a staged release is installed.
* `RecoverableHasRequest`, `CompletedIsDelivered`: what the recovery page offers
  can be rebuilt, and what is called completed was copied to the end; both except for jobs that
  two engines ran at once (section 5).
* `AnswersMatch`, `ResultShownIsTrue`, `CallsEnd`: an answer is only taken by the call that
  asked, although two threads may read one pipe; the result page names a cover that is
  complete on disk; neither thread of the window waits for ever.
* `UsedIsRight`: weights are loaded, and a setup is reported complete, only when every file is the pinned one, unless
  another process has been at work beside the window's engine. `InstalledInTheEnd`: the setup ends, whatever
  broken downloads left behind.
* `SeparatesOnProven`: separation and pitch models are on an accelerator only with evidence for that very model.
  On a machine with CUDA the separation models are excepted, which the library puts on the card by itself.
  `AsksForLess`: a retry after running out of memory asks for less, and the failure is reported
  only after the smallest plan, which is one for the processor; on a machine without CUDA it ran there too.
  `ModelsTakeTurns`: a pitch model or the voice is alone in memory, separation models are loaded while the song is
  separated only, and the attempt that asks for less begins when nothing is loaded. It does not say that there is one
  separation model at a time: a further member of an ensemble and a further cleanup pass load theirs while the backend still
  holds the one before (`pipeline.py` unloads after all of them, `cleanup.py` after all passes). Nor that whatever
  fails leaves nothing: when a cleanup pass raises, or the progress hook does, the separator stays until the
  backend that refers to it is collected.
* `FitsTheSong`, `ConvertedInPlace`, `InKey`: stems and result are as long as the song, and the vocal is heard (a vocal
  that the commands `profile` and `pitch` are given is taken as it is); every
  place of the converted song comes from that place; voice and music are apart by whole octaves, the music
  moved by half an octave at most, the alternatives differ, and the user is told.
* `VoiceKept`, `ReplacedOnRequest`, `ProjectKept`: section 1.1.
* `TypeOK` of each module: the types, and in `CoverGraph` and `UserData` what the variables
  promise on top: the gain is within 9 dB and the variant one of those rendered; a settings file that is whole has passed every check. In `CoverGraph` it includes
  `ReportsTheSong`: a stretch of singing that is reported begins and ends with a voiced frame, two of them are further apart
  than a breath, and the excerpt is a whole window, which lies in the song.

### 3.2 Fairness

* `JobRunner!LiveSpec`: weak fairness of `Proceed` (a
  running engine goes on; its steps end) and strong fairness of `Resume`: the user
  takes the offer the window makes at a start, sooner or later. Nothing is
  assumed of crashes and failures beyond their number.
* `TrainingSession!PolledSpec`: weak fairness of the coordinator and of opening the
  wizard, strong fairness of `Status`, which the wizard's timer calls while it
  is open. Nothing is assumed of the worker: it may stop at any point.
* `UpdateInstall!UsedSpec`: the launcher goes on; the user starts the application when
  it is not running, and closes it. Without the closing no file in use can
  ever be replaced.
* `CoverSession!LiveSpec`: weak fairness of each engine (it is scheduled, its handlers end);
  strong fairness of each thread of the window, since two threads may read one pipe and
  a waiting reader gets a line in the end, and of `TakePosted`, since Qt delivers a
  queued signal however many other events there are. The user need not do anything.
* `ModelDownload!FairSpec`: a task that runs goes on (its requests are answered or fail); the user opens the
  window, tries a failed setup again and makes covers, each for ever. The setup is tried by hand, so
  without such a user nothing completes it.

## 4. Proofs

Eight modules hold theorems that the TLA+ proof system checks, one for each state machine. They hold for
every value of the constants that the named assumptions allow: any number of processes, jobs, steps, files, mirrors,
voices, covers and disturbances, songs of any length. Each module's main invariants are inductive: it names what a process, a request or a
run *knows* at each place of its code, shows that every action keeps it, one step for each, and derives the
properties.

### 4.1 What is proved

| module | theorem | states | for |
|---|---|---|---|
| `CacheWorkersProofs` | `WorkersInvariant`, `EntriesWhole`, `PublicationsWhole`, `LosersDoNotFail` | `WorkersInv`, `WholeOrAbsent`, `PublishedWhole`, `LosersSucceed` | any processes that look up, publish and die, but neither sweep nor evict |
| `JobRunnerProofs` | `RunnerTypes`, `CompletedMeansOneChain`, `RecordsTellWhatHappened` | `TypeOK`, `CompletedCoherent`, `RecordsTrue` | any processes |
| | `FinishedStepsStay` | `NoRerun` | any processes, a cache with room (`Room`) |
| | `LoneCacheWhole`, `LoneQuotaHolds`, `LoneImplementsLedger` | `CacheKeepsWhole`, `QuotaHolds`, `ImplementsLedger` | one process (`Alone`) |
| `TrainingSessionProofs` | `SessionTypes`, `TrainerFollows`, `ReadyIsTrue` | `TypeOK`, `TrainerFollowsRecord`, `ReadyMeansVoice` | any process ids and materials; the fault `dieUnrecorded` left out (`Recorded`) |
| | `OnlyPassedIsTrainedOn` | `TrainsOnPassed` | the same |
| | `DatasetIsClean` | `CutCleanly` | any recordings and limits (`CutAssumption`) |
| `UpdateInstallProofs` | `UpdateTypes`, `AttemptIsUndoable`, `FailedUpdatesRestore`, `ReceiptsAreTrue` | `TypeOK`, `Undoable`, `FailureRestores`, `ReceiptRollsBack` | any files and releases |
| `ModelDownloadProofs` | `DownloadTypes`, `OnlyVerifiedIsUsed` | `TypeOK`, `UsedIsRight` | any files, mirrors, attempts and processes |
| `UserDataProofs` | `DataTypes`, `VoicesAreKept`, `ProjectsAreKept`, `ReplacedWhenTold` | `TypeOK`, `VoiceKept`, `ProjectKept`, `ReplacedOnRequest` | any ids, archives, commands and faults |
| `CoverSessionProofs` | `CoverTypes`, `CoversAreRecoverable`, `CompletedCoversAreWhole`, `OnlyOwnAnswers`, `ShownResultsAreTrue` | `TypeOK`, `RecoverableHasRequest`, `CompletedIsDelivered`, `AnswersMatch`, `ResultShownIsTrue` | any covers, outputs and engines; endless request ids (`Counted`) |
| `CoverGraphProofs` | `TakeTurns`, `OnProven`, `LessAndLess`, `AsLongAsTheSong`, `EveryPlace` | `ModelsTakeTurns`, `SeparatesOnProven`, `AsksForLess`, `FitsTheSong`, `ConvertedInPlace` | any song, voices, memory, machine, evidence, chunk plans |
| | `KeptInKey`, `Typed`, `Reported` | `InKey`, `TypeOK`, `ReportsTheSong` (a part of it) | the same, and any requests, pitch tracks, quality curves, scores and ways to look at a song |

### 4.2 Assumptions

The constants' assumptions are named in the modules that declare them, and TLC evaluates them for every instance: sizes
are natural numbers, "none" is not among the values, faults are those the actions know. A song has at least
one frame and one or two channels (`MixAssumption`: `load_audio` refuses the rest), windows are
not empty (`ChunksAssumption`: `plan_chunks` refuses the rest), every machine has a processor (`HardwareAssumption`: `devices.py` lists
it first). A request has one of the three qualities, cleanup passes that exist and knobs that are numbers
(`RequestsAssumption`, `ArgumentsAssumption`: the server and the parser of the command line check them); whether the numbers are in range is left to
`ValidConfig`, that is to the model. A voice's profile is made of numbers if it could be read at all (`VoicesAssumption`), and so is what is
measured (`MeasuresAssumption`): pitches and correlations are any integers, energies are not negative. A window, a
stride and a stretch are a frame at least, as the `max(1, ...)` of `preview_picker.py` and `segments.py` says, and a
breath may be none (`ReportAssumption`).
The cutter's limits are those of `dataset.py` in their order: a segment has a frame at least and is not longer than the longest, and a pause that
separates two regions is longer than the padding of both (`CutAssumption`). A recording is a sequence of levels at the rate of the training or
half of it (`MaterialAssumption`).

Hypotheses of single theorems:

* `Room`, `Cardinality(Keys) <= Limit`. Without room the quota of one job evicts the steps of another
  (section 5), and they do run again.
* `Alone`, one process. The window starts one engine; a second one sweeps and evicts what the first is about to
  use (section 5), and then these three properties are false.
* `Recorded`: the engine does not die in the few milliseconds between starting a worker and saving its process
  id. If it does, two workers can train one session (section 5).
* `Counted`: the request ids are infinitely many and the engines finitely many. The client counts its requests
  (`itertools.count`), so an id that no call, pipe or engine holds always exists. The
  run has eight ids, which are enough there.

### 4.3 The arguments

**Cache.** `WorkersInv` adds to `WholeOrAbsent` what each process's program counter says of its
temporary directory: what it holds by now, and everything, with the manifest, when it is about to be renamed.
Without that the rename could publish less. `Undisturbed` (nobody evicts) gives a refused rename a whole entry to hand out.

**Job runner.** `CompletedCoherent` alone is not inductive: a save may write anything. `Knows(w)` says what the
snapshot in a process's memory has to do with its place in the plan: the steps behind it are done, with the keys of one plan
(`StepsDone`), when the status in memory is the one on disk (`StatusInHand`), that the history is not
closed before the snapshot (`HistoryOpen`), and that a cancellation was asked for (`CancelKnown`). `Apart` (no two
runs of a job at once) lets the steps of one process keep what another knows. The save that raises after the
file is in place is covered since `Knows` speaks of the memory and of both contents of the file.

For the cache below it, `AllFit` ties a process's place in a call of the cache to its place in the run, and
to the key of its step. `NoRerun` needs `ResultsKept`: a step recorded as done has a valid entry, since no quota takes
anything when everything fits. For one process, `LoneInv` adds what it builds (`Builds`), that every
result behind it is valid (`HoldsResults`), also while a quota runs, since its keys are protected, and
that the quota's total is at least what is on disk (`Counts`).

**Ledger.** The refinement maps the snapshot's status to `status`, valid entries to `bank` and the results behind the live run
to `held`. Each step of the runner changes at most what one action of the ledger allows: `StatusSteps`, `BankSteps` and
`HoldSteps` show it for the three variables apart, `StepsImplement` joins them.

**Training.** `WorkerKnown(p)`: a worker that is alive is the one that the record names, or that
`startSave` is about to write, and its copy of the record agrees with what it may save. `RequestKnows` says the same of a request's
copy, `PageTells` which requests the wizard can make. `MaterialKnown` and `ProgramsKnown` carry what passed and what is installed.
Without `WorkerKnown` a pause could save over a worker that goes on.

**The cutter.** `Segments` goes through the regions by their last frames. `CutFits` says what is cut when a frame is reached: the
segments have the right lengths, what is kept for later is shorter than one (`Neat`), all frames of the regions behind are
in either, in order, and none lies more than the padding behind its region. The next region begins, padding included, after that, because a pause
longer than `bridge` lies between them and twice `pad` is not longer (`RunsApart`, from `CutAssumption`: 300 ms and 100 ms in `dataset.py`).
So what is appended is in order, cutting full pieces off and dropping a short end keep that (`CutKeeps`, `KeepKeeps`), and at the last
frame everything that was sung is in a segment or in the end (`SegmentsNeat`). `Flattened` joins the recordings.

**Updates.** `IInv` joins the types, `Undoable` and `Attempt` (a file still to be copied has not been touched; the
file a copy failed on is known). When restoring has nothing left to do, `Undoable` says that no file differs
from `before`, which is `FailureRestores`. For receipts, `RInv` adds that the receipt names exactly what was touched while
the attempt is being closed.

**Downloads.** `WorkKnown` says how much of a file's list a process has verified at its place in the code; it
survives the other processes' steps only until one of them works beside the window's engine, which is `orphaned`. `ShownKnown` says
that what the window shows as ready is complete.

**What the user keeps.** `ImportKnown` says which of the two directories of an id is whole at each rename, `Kept` that one of
them is whole and `owed`, `ProjectKnown` that a project's file holds the newest version or is damaged, and its backup the newest or the
one it was made from, whatever the save under way read.

**Covers.** The invariant is built in layers, each of which uses those before it: the frame (`Frame`: types and places), which request
is where and at most once (`AskedOnce`), what has not begun (`NotBegun`), what an engine's place says of its job
(`JobsKnown`, `Known`), whose answer is in which pipe (`Own`, `TwoIds`, `PostedKnown`). `AnswersMatch` needs the last: an answer on its way carries an id
that exactly one call waits for or that nobody will ever use again.

**The graph of a cover.** `Lone` says at which place a model may be in memory and that a separation run exists only while the cover
separates; that a call of the backend belongs to an attempt or a pass that is not done (`CallKept`); and why a model may be left
(`HeldAlone`). `ModelsTakeTurns` follows. `Routed` ties the ladder of a run to the plan of its model: a plan's
ladder descends to the smallest plan for the processor (`Rungs`), the model that is loaded is on a rung that the matrix permits (`LoadedThere`,
`SentThere`), and evidence changes only when nothing runs. `AsksForLess` follows from descent. `Fitting`
carries lengths: the parts a run has collected are as long as the mixture (`RunFits`), as are the stems, the vocal, the
music and the result (`SongKept`); every pass of the cleanup has a vocal to work on. `ConvertedInPlace` does not depend on the state: `ChunksInPlace`
shows for every length, window and overlap that the number of windows is the one `Counted` computes, that they overlap by `over` frames and
reach the end, and that joining them leaves the frame of every place at that place, or padding. It is an induction over the windows, made
through the least counterexample (`Least`), as is the existence of the function that joins them (`JoinExists`).

**Key and types.** `Sound` joins three things that a cover knows at its place: its request has the knobs of
one, and a voice with a profile wherever it needs one (`RequestKept`); its pitch track is made of numbers, its decision is in key, and what
the user was told agrees with the remainder that is delivered (`KeyKept`); and as soon as a variant has a score, and as long as the cover is rendered,
its result is in bounds and there are no more variants than asked for (`GradeKept`). A step
keeps them because the decision is in key and its wording says of the remainder what is true (`Decided`, `Told`). That a best shift exists at
all, and that two alternatives are left beside it, rests on arithmetic: costs are integers (`Evaluated`, and below it the
percentile, the weights and the interpolation, whose recursive sum exists by `SumExists`), any two shifts of the search
are ordered (`Ranking`), so one of them comes first (`CheapestIs`), and the search has more than two remainders. `Decomposed`
gives the octaves and the half octave, for negative shifts too. `MachineKept` adds the types of the machine and of the separation run;
`RetrievedLess` and `GainBounded` bound what is retrieved and the gain.

**The report.** It never changes after it was made (`ReportKept`), so `ReportsTheSong` is about the functions, for a song of
any length. A frame that is in a filled gap has voiced frames on both sides of that gap, so a stretch that began or ended in one would go
on beyond it; and between two stretches lies a gap that was not filled although it is inside the song, hence longer than a breath
(`Stretches`). The excerpt begins at the best of the places where a window fits (`WindowsFit`); that there is a best one needs every score to be
a number, with a divisor that is never zero (`StabilityIs`, `WidthIs`, `RecurrenceIs`, `ShareIs`).

### 4.4 Only model-checked

* Liveness: `ResumedJobsEnd`, `DeadWorkerNoticed`, `StagedIsInstalled`, `CallsEnd`, `InstalledInTheEnd`. The prover covers
  neither fairness nor `ENABLED`.
* `ProvenOnly`, `InventsNoNote` and `StartsWhole` are false (section 5): TLC shows the counterexamples.
* What the functions of a pitch track compute, beyond its type and the bounds above: that a percentile is the percentile, that the
  excerpt sounds best, that the nearest frame is taken. The proofs use only that they are numbers; so it is with the checks of recordings.
* The refinement for several processes, for which it does not hold (section 5).

## 5. What the models show to be otherwise than documented

Three runs end in a violation:

* **A conversion where nothing was proven** (`proven_only`). The device that suits the pitch extractor is given to the voice
  conversion too (`cover.py` 440), so a preview converts on an accelerator for which the support matrix
  has no proof of a conversion.
* **Notes that were never sung** (`invents_note`). The pitch track is stretched linearly across the boundaries of
  singing (`infer.py` 141), although its docstring says that zeros are held.
* **A mixture of releases** (`update_mixed`). Staging the pending release again
  empties its directory first; closing the window at that moment leaves `pending.json`
  pointing to half a release, which the next start installs.

Further behaviours show when a constant or a property is changed; the runs leave them out, and say so in the
configuration or in the property. Jobs and cache:

* A corrupt entry bricks a job. `lookup` leaves a corrupt
  entry for the quota to remove; but the rename over it is refused, the job
  fails, and the quota runs only after a job that ends well. If no other job ends well, the
  job fails at every resume.
* A process that starts sweeps the temporary directories of processes
  that are still publishing; the rename then publishes what is left.
* An eviction by another process between the two halves of `lookup` is undone in part by the rewrite
  of the manifest: an entry with a manifest and no files.
* The quota at the end of a job evicts finished steps of a recoverable job, which
  run again on resumption; hence `jobs_resume` gives the cache room.
* A workspace that is created between `discover` and the removal of orphans
  by another process is removed.
* A failing write of the history after completion: the handler saves *failed* over
  *completed*.

Training:

* "Ready" is lost. `status` loads the record, the
  worker finishes and saves *ready*, `status` sees no process and saves its own
  copy with *paused*. `pause` and `start` do the same.
* `finalize` removes the published voice before the new one is in place.
* An engine that is closed while it cleans recordings leaves the session at
  *cleaning*, and no button leads on from there.
* `pause` terminates whatever now has the process id of the record.
* An engine that dies between starting the worker and saving its process id
  forgets the worker, and a second start makes two; `training_runs` leaves out that fault (`dieUnrecorded`).
* A worker that dies while finalizing is not noticed by `status`.
* The check for "a second speaker" (`quality.py`) takes a median: a speaker who is in the minority of the
  recordings passes, and so do two halves whose directions are at right angles.
* A configuration of Applio that was torn while it was copied is never repaired, since `ensure` only asks whether it exists
  (hence `TrainsOnPassed` speaks of source and models only); and installing the source again removes the
  directory with everything the earlier trainings left in it, the pretrained models included.
* The sample of the voice (`sample.wav`) is written into the dataset directory, so that segment is trained on twice.

Covers, window and engine:

* A finished cover is written over. The free name is chosen when the
  button is pressed (main.py 369) and kept in the request. A cover that is cancelled before
  its file exists, and resumed after another has been given the same name, overwrites it
  (docs/architecture.md 285: the name does not overwrite an existing file).
* A window that is closed or killed leaves its engine to the end of its current step; a
  window opened at once may offer the same job, and two engines run it (`shared`).
* Cancelling a cover and starting the next one before the first worker has ended, or
  starting one while an update is being staged, shows the processing page with no worker behind it, and the
  cancel button does nothing (wizard.py 231 promises that one can always cancel).
* A cancellation between the click and the start of the worker's engine is lost: `stop` finds no
  process.
* `stop` makes the GUI thread wait up to three seconds (docs/architecture.md 289-290 says
  that the interface stays responsive).
* One line printed by a library ends the call that reads it, and the real answer stays in
  the pipe for the next call, which fails in turn; the engine is not restarted.
* The strategy "B" for the music needs the stems bass, drums or other; where the separation has none of them, `_playback_input` hands
  over the whole music with the strategy unchanged, and the cover ends in a `TypeError` (instrumental.py 96); no shipped quality
  level separates them, so `_shift_split` is not reached.
* A cleanup pass that raises anything but an `EngineError` loses the finished separation, and its model stays loaded.
* Two separation models are in memory while the second member of an ensemble, or a further cleanup pass, loads (3.1).
* On a machine with CUDA the separation library uses the card even where the matrix says processor
  (`audio_separator_backend.py` 253). The last attempt, planned for the processor, therefore runs out of the card's memory too, and the
  song fails with `GPU_OOM` without the processor having been tried; `oom.py` 7-9 says that the last rung always succeeds. `Placed` has
  it so, and `AsksForLess` speaks of the processor only where there is no such card.
* The ladder wraps the separation only: a conversion that runs out of memory fails at once.

Files the user keeps:

* Two processes that import into one id can both find it free, and a name may be read while the other activates.
* A directory `.previous` that was only half removed is taken by the next import of that id for an interrupted activation, and comes back even when
  the user has removed the voice since.
* A health check or a new name writes `voice.json` in place: killed in the middle, it leaves a voice that is not listed but whose id is taken.
* The importer's comment says that of profiles and samples the first wins; the last one does.
* `ProjectStore.list` leaves out a project whose file is damaged, although `load` would bring it back from its backup.
* The settings are written in place, and a write that breaks off inside a multi-byte character leaves what `load_settings` cannot
  decode: the `UnicodeDecodeError` is not caught (`config.py` 98), so every command that reads the settings fails until the file is
  removed by hand, although the comment (`config.py` 100) says that a corrupt file must never stop the application. `LoadSettings`
  yields `Raised` there, and `user_data` runs through it.
* After a torn write that still decodes the program starts with the usual settings and says nothing.
* A process beside the window's engine (an engine that outlived its window, or `svc models`) can take away a model file that was verified a moment
  ago; and a mirror that serves the wrong body leaves it in the partial file for the next one to continue, which costs an attempt.

## 6. State of the work

The models of section 2, their runs and the proofs of section 4 are done: every safety property that a passing run checks is
also a theorem. What stays open is named in sections 1.4 (not modelled), 4.4 (only model-checked) and 5 (where the code
does not do what a property would need: sweeps and evictions by two processes, and saves of the training record from stale
copies, would have to be guarded before `CacheKeepsWhole` and a stronger `ReadyMeansVoice` could be stated for them).
