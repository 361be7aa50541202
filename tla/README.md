# Firefork: a TLA+ model of the orchestrator

Firefork runs AI agents in Firecracker microVMs that are forked from a snapshot: a template
is built once (boot, set up, snapshot), and every fork maps the same memory file and resumes
in milliseconds. The Go program around Firecracker starts processes, keeps some of them warm,
drives them through their API sockets, keeps a map of the live ones and has to end every one
of them. This directory models that program, checks the model with TLC on small instances and
proves the main results with TLAPS for every instance.

Paths below are relative to the repository; `pool.go` and `warmpool.go` are in
`internal/fork/`, `main.go` is `cmd/firefork-server/main.go` unless said otherwise.

## 1. The system

| component | state it keeps | operations | model |
|---|---|---|---|
| `fork.WarmPool` (`warmpool.go`) | `idle`, `closed`, `preload`, `refillErrs`, `lastRefillFailNs`; one process and directory per slot | `NewWarmPool`, `NewUltraWarmPool`, `Preload`, `Take`, `Refill`, `Close`, `spawnSlot`, `spawnJailedSlot` | `WarmPool` |
| `fork.Pool` (`pool.go`) | `live`, `warmPool`, under one mutex | `Fork`, `forkOne`, `forkOneJailed`, `Release`, `Live`, `Shutdown` | `ForkPool`, promise: `ForkLifecycle` |
| `fc` (processes, API socket, chroot) | none of its own | `Restore`, `RestoreOnSocket`, `LoadOnSocket`, `ResumeOnSocket`, `StopVMM`, `PrepareChroot`, ... | `Firecracker` (instance of the callers' modules) |
| `snapshot.Store` | objects in a bucket | `Save`, `Load` | `SnapshotStore`, promise: `BundleRegister` |
| `storage` | - | `Put`, `Get`, `DownloadParallel` | inside `SnapshotStore` |
| `template.Builder`, `cmd/seed-template` | build VM, work directory, chroot, snapshot files | `Build`, then `registry.Put` | `SeedTemplate` |
| `template.Registry` | `templates.json`, its `.tmp`, an in-memory map | `OpenRegistry`, `Put`, `persist` | `Registry` (inside `SeedTemplate`) |
| `cmd/firefork-server` | `secrets`, three counters, the HTTP server | `handleFork`, `handleExec`, `handleDelete`, metrics, shutdown | `ForkServer` |
| guest agent, `workload.Call` | the agent's secret | an authenticated command | inside `ForkServer`, `SeedTemplate` |
| `snapshot.LocalCache` (`cache.go`) | LRU list of bundle directories and their sizes | `Get`, `Insert`, eviction | `LocalCache`, promise: `LruCache` |
| `cmd/fork` | none but its `Pool` | one `Fork`, hold, `Shutdown`, `os.Exit` | `ForkTool` (over `ForkPool`) |
| `cmd/bench` | a `Pool` for each trial | `trial`: one `Fork`, the deferred `Shutdown`; `runMode` goes on | `ForkTool` (one trial) |
| `fork.SweepStale` (`sweep.go`) | - | removes old `firefork-*` directories | `SeedTemplate!Sweep` |

How they interact. `seed-template` builds a template on a host, optionally uploads the bundle
through `Store`, and puts an entry in the registry file. `firefork-server` reads that file once
at start, builds a `WarmPool` before it listens (`main.go:114-151`) and attaches it to its `Pool`. A `POST
/v1/fork` becomes `Pool.Fork`: one goroutine per VM, each of which takes a warm slot (and asks
for a replacement by `Refill`) or starts a process of its own. `POST /v1/exec` dials the guest
agent of a live fork, `DELETE /v1/forks/{id}` releases one, and a signal drains HTTP, calls
`Pool.Shutdown` (which closes the warm pool) and returns from `main` at once. A `Pool` has two more drivers:
`cmd/fork` sweeps what earlier runs left, forks once, holds the forks and shuts the pool down; a trial of
`cmd/bench` builds a pool, forks once and shuts it down, in a process that goes on to the next trial. `LocalCache` is
meant to sit between a host and `Store.Load`; no program of the repository uses it yet.

What is hard in it:

* **Interleaving.** `Take`, background `Refill`s, `Preload`'s loaders and `Close` share one
  slice; `Fork`'s goroutines, `Release` and `Shutdown` share one map and let go of its mutex
  for the slow part of the work.
* **Ownership of processes.** A process has an owner at any time (its spawning goroutine, the
  idle list, a request, the live map, whoever took it out of the map); every error path must
  hand it over or end it. Nothing but the code itself does this: an unjailed warm process runs
  under `context.Background()`.
* **Contexts.** Cold forks and jailed slots are tied to a context by `exec.CommandContext`;
  when it is done, the process dies, whatever the maps say.
* **Several processes, one bucket and one file.** Uploads overlap, fail half-way and overwrite
  each other; two builders rewrite one registry file through one `.tmp` name; any of them may
  be killed.
* **The way out.** Handlers may outlive the drain; teardowns may race; what is then left running
  is nobody's: a goroutine that had yet to kill its process dies with the program, and the process stays.
  `cmd/fork` has ways out that skip its cleanup.
* **A lock that is let go in the middle.** `LocalCache` measures before it locks, and evicts
  directories that somebody may be using.

What makes each part correct, in one line each: the warm pool never hands a slot out twice,
never forgets a process, hands out slots in the state their flag says, and does not shrink
unnoticed; the pool tears every fork down exactly once and ends everything at shutdown; a
bundle that was verified is one bundle; a failed build leaves nothing and what the registry
lists can be forked; the server's counters, deletions and exit agree with the pool; the cache's books agree with its
disk, and it drops what was used longest ago and no more. The list
of hazards, each at the line where it bites, is in `PROJECT.json`.

## 2. The modules and the code

`Firecracker` - one process and its directory as the host sees it: `proc`
(none, ready, paused, running, killed = zombie, reaped), the snapshot in it, whether the
directory exists. Its operators are the calls of `internal/fc`; a caller's action conjoins one.
It has no `Next` of its own. `StopVMM` is taken to end the process: it sends a SIGTERM, on which
Firecracker exits.

`WarmPool` - each slot is made by a goroutine of its own, so the slot's id also names that
goroutine, and `slot[s]` is its program counter until the slot is idle and its place
afterwards. `call[c]`/`holds[c]` are a caller of `Take`. One action per critical section or
blocking call: `SpawnStart`, `SpawnReady`, `SpawnGivesUp` (spawnSlot), `BuildDone`/`BuildFails`
(the collection of results in `NewWarmPool`), `PreloadBegin`/`PreloadSlot`/`PreloadEnd`,
`TakeSlot`/`TakeRefused`/`TakeDrained` and then `DrainRefill`/`DrainSkip` (`Take` unlocks before
it reads the back-off), `RefillLooks`, `RefillLoads`, `RefillPublishes` and their failures (the
two looks at `closed`), `Close`. The owner's steps (`OwnerResumes`, `OwnerLoads`,
`OwnerFails`, `OwnerRefills`) are what `forkOne` does to the slot. The clock is abstracted:
`backoff` says that a failure was less than 500 ms ago, and `BackoffExpires` may end it at any
time. Contexts become done at any time (`Cancel`).

`ForkPool` - `Pool` over an instance `W` of `WarmPool`, whose callers are the forks' goroutines,
and an instance `Cold` of `Firecracker` for the processes of cold forks. A `Fork` call is a
request, which also names its context; `pc[f]` is a goroutine of it. The live map is split by
who is about to tear a fork down: `live` (`p.live`), `doomed` (taken out by a `Release`),
`victims` (Shutdown's copy of the map), `torn` (a history). `WarmStep`, `WarmRefill` and
`WarmMiss` conjoin actions of `W`; `pool` is the field `p.warmPool`, attached once construction is done and
detached by `Shutdown`. With `--warm-pool 0` it is "none"; both cases are initial states.

`ForkTool` - the three processes around a `ForkPool`, chosen by the initial value of `main`. For `cmd/fork` it is a program
counter from the flags to the exit, with an action for each way out (`ToolRefused`, `ToolWarmPoolFails`, `ToolForkReturns` to
"aborted", all `os.Exit`; `ToolStops`, `ToolShutdown`, `ToolExits` the deferred calls in their order). `ServerStep` is
`firefork-server` as the pool sees it: the warm pool, then `Fork` and `Release` in any order, and `Shutdown`; `ServerAborts` is its
`os.Exit` when the warm pool could not be built, `ServerReturns` the end of `main` as soon as `Pool.Shutdown` has returned. `BenchStep` is a
trial of `cmd/bench` (one `Fork`, then the deferred `Shutdown`), and `BenchExits` the end of the bench, which may come any time after the trial
or never. In all three, once the process is gone (`Gone`) none of its goroutines moves, and the children stay as they are. Liveness of
the `Pool` is stated here, because it depends on the process being there.

`ForkLifecycle` - what `Pool` promises: an id is absent, live, leaving, gone, in this order, and
only whoever made it leave tears it down. `ForkPool` implements it (`ImplementsLifecycle`), and
`ForkServer` uses it in the place of the pool.

`SnapshotStore` - `Save` and `Load`, one action per request to the object store. A content is
named by the `Save` that wrote it, so a manifest is its Save and a checksum matches when the
names do. The memfile is downloaded in ranges, modelled as a first part and a rest that may
come from two objects. `SaveFails` covers a failed upload (with and without effect), a context
that is done and the death of the process.

`BundleRegister` - what the store promises to `Load`s that verify: an atomic register of whole
bundles. A `Save` takes effect at once when its manifest is stored; a `Load` reads at the moment
it gets the manifest, and answers with that bundle or with an error.

`Registry`, `SeedTemplate` - several `seed-template` processes: `Build` step by step with its
error paths and its deferred cleanup, the upload (an instance of `SnapshotStore` with no
`Load`), then `OpenRegistry`, `Put` and `persist` at the level of open/truncate, write and rename
of an inode that two processes may share. `Killed` is a SIGKILL at any of these steps. `Sweep` is
`SweepStale` in a `cmd/fork` that starts: it removes the work directory of a build that is over, and with it the
snapshot of an unjailed one. It leaves a running build alone: one lasts 600 s at most, and the sweep
takes what is older than an hour.

`LocalCache` - clients that `Get` a bundle, fetch a missing one with `Store.Load` into its directory, and
`Insert` it. `order`, `size`, `bytes` are the fields of the cache, `disk` what is in the directories. `Measure` is
before the lock; `Lock`, one `Evict` for each directory removed and `InsertReturns` are the part of
`Insert` under it, so that fetches go on beside the removal.

`LruCache` - what the cache promises of its index: `Touch` and `Enter` as single steps, with the longest
prefix of the entries in order of use that is within the budget. In `LocalCache` the index that counts during an `Insert`
is the one from before it took the lock.

`ForkServer` - the three handlers that change state, the guest agent's check of the signature,
and `main` from the signal on, over `Pool == INSTANCE ForkLifecycle`. Secrets are named by their
template, as there is one for each build. The agent runs a command, refuses it (200 with an error, as for one
without `argv`) or finds the signature wrong. One status stands for all 4xx, 200 stands for 202.

`MC*.tla` give constants their functions (which fork is of which request, which request names
which template) and the symmetry sets; all other values are in the `.cfg` files. Definitions that a
comment calls *Mutant* are the faulty variants that show that a property can fail; they are in no
next-state relation.

## 3. What the runs check

| run | question | instance |
|---|---|---|
| `warm_pool` | Does a warm or ultra-warm pool share, forget or mislabel a slot, or shrink unnoticed, whatever races with `Take` and `Close`? Does the inductive invariant of the proofs hold? | size 2, 3 callers, 5 slot ids, jailed slots (their process also dies with its context), preloaded or not, all four host faults |
| `pool_race` | Two forks of one request, warm or cold, with `Release`s and a `Shutdown` in between: is each published once, listed only while it runs, torn down once, never lost? Refinement of `ForkLifecycle`. | size 1 + 2 refills, unjailed, preloaded or not, faults exec and api |
| `pool_mixed` | Two requests for two snapshots over a pool of jailed slots, which die with a context, that is not preloaded: does each get its own? Which directories are left? Does the inductive invariant of the proofs hold? | as above, fault mkdir and contexts |
| `pool_live` | Do `Fork`, refills and failed forks end, and their processes with them, unless the program exits first? What does each exit leave behind, and what a `Shutdown` after which the program lives on? | module `ForkTool`, any of the three drivers; 1 fork, 2 + 1 slots, faults exec and api, fairness |
| `pool_snapshot` | *violation*: a preloaded slot is resumed for a request that names another snapshot. | 1 fork |
| `pool_liveup` | *violation*: `Live()` lists forks whose process is dead. | 1 fork |
| `store_bundle` | Overlapping and failing `Save`s with a verified and an unverified `Load`; refinement of `BundleRegister`. Does the inductive invariant of the proofs hold? | 3 Saves (one raw, two compressed), 2 Loads, one name/version |
| `seed_pipeline` | Builds that fail or are killed anywhere: what is left of them, what does the registry list? Sweeps in between. Does the inductive invariant of the proofs hold? | 3 processes, 2 for one template and uploading, one of these jailed |
| `seed_setup` | *violation*: a Setup command that exits non-zero does not abort the build. | as above, 1 process |
| `server_api` | Do counters, `DELETE`s, the secret cache and the exit agree with the pool; does every request end, does the server exit? Does the inductive invariant of the proofs hold? | a request of 2 forks and one of 1, 2 templates, 1 exec, 2 DELETEs |
| `cache_lru` | Do the books of the cache agree with its disk, is it an LRU cache (refinement of `LruCache`), and how long is a path it returned good? | budget 2, bundles of 1, 1, 2 and 3, 2 clients |
| `server_exec` | *violation*: an exec is signed with another template's secret. | 2 signed templates |

The properties, and what their failure would mean, are commented where they are defined. The
ones that say most:

* `ShrinkIsCounted` (WarmPool): while the pool is open, idle slots + slots in flight + slots in
  use that will be replaced + `RefillErrors()` = size + refills asked for by a drained `Take`.
  Every path that loses a slot must count it; a path that is counted twice fails as well.
* `ClosedHoldsNothing`, `KeptUndisturbed`: a `Refill` that `Close` overtakes leaves nothing
  running, and neither ever touches a slot that has become a fork.
* `TakeReady`: the `Preloaded` flag, on which alone `forkOne` decides between resuming and
  loading, is right for every slot that `Take` can hand out.
* `AccountedFor`, `TornDownOnce`, `PublishesItsOwn` (ForkPool): between the maps and the
  goroutines each process is in exactly one hand. A cold fork whose `fc.Restore` failed after the
  process was started is the one exception: it is left to its context, and `FailedForksEnd` shows
  that this ends it while the program runs.
* `DirsAccountedFor` (WarmPool, ForkPool): no error path, teardown or `Close` leaves a directory behind, and none is removed under a
  slot in use. It has two exceptions, which the code has: a jailed slot whose chroot was made in part (`spawnJailedSlot` does
  not remove it, `forkOneJailed` does) and an unjailed slot whose process did not start. It is about the directory that the slot or
  fork works in: not about the empty `<id>/` above a chroot, which `CleanupChroot` leaves, nor a jailed slot's log file
  `firefork-warm-<id>.log`, which only a sweep removes.
* `VerifiedIsWhole` and `UncontestedIsWhole` (SnapshotStore): with verification no overlap of
  Saves can give a mixed bundle; without it only an overlap can.
* `RegisteredIsUsable`: what the registry file lists, even when it is read torn or when entries
  were lost to a race, has its files on disk unless a sweep took them, its build VM down and its bundle in the bucket.
* `DeletedOnce`, `ExitsClean` (ForkServer): one `DELETE` at most is told that it released a fork
  and only after its teardown; if no request was left over when the drain ended, no fork outlives
  the server (the process of a refill may: `ExitIsClean`).
* `MetricsAddUp` (ForkServer): `totalForks` counts the forks that calls have returned, `totalExecs` the execs the
  agent has answered, a refusal included; a fork that is in no count belongs to a call that is running or has failed.
* `ExitIsClean` (ForkTool): after a `Shutdown` that no `Fork` overlaps, in the server, in a trial or at the end of a `cmd/fork` that was told to stop,
  forks and warm pool are down; what may be left is the process of a refill, of a `Release` or of a failed cold fork whose goroutine has yet
  to kill it. If the program exits at that moment, as the server does, this process stays. A server or a `cmd/fork` that fails before any
  `Fork` call leaves nothing. The `os.Exit`s of `cmd/fork` after its `Fork` are not covered.
* `ShutdownEnds` (ForkTool): where the program lives on, in `cmd/bench`, those unfinished goroutines do kill what they started: once the `Fork`
  of a trial is over nothing runs at last, for good, unless the bench exits first. Of the server and of `cmd/fork` it says only that a
  `Shutdown` ends and they exit; what they may leave is what `ExitIsClean` says.
* `Accounted` (LocalCache): `bytes` is the sum of the entries' sizes and within the budget whenever the lock is free; an entry's
  size is what is on disk, unless two clients fetched that bundle at once; and nothing is on disk uncounted but what is being fetched or what
  a failed fetch or a refused `Insert` left there.
* `RecentSurvives` (LocalCache): a path in use stays while it fits into the budget together with all bundles used since. With
  bundles of equal size this is the usual promise of an LRU cache.

`CHECK_DEADLOCK FALSE` where an instance is a bounded number of calls, and stops when they are over. `cache_lru`
goes on for ever, and deadlock is checked.

### Bounds, and why they are enough

* Slot ids are never reused (they are UUIDs). Each instance has at least `|Initial|` plus one id per
  caller: a caller asks for one refill at most, when it finds the pool empty or when it has used
  its slot, so `Refill` never lacks an id and no behaviour is cut off.
* Two initial slots make partial failure of the construction and of `Preload` possible, and a
  `Take` beside a listed slot; with three callers the pool is drained while two slots are out, and
  drained `Take`s race with refills.
* Two forks are what a race of `Release`, `Shutdown` and publication needs; `pool_mixed` adds a second
  request so that a context can die while another lives.
* Three `Save`s, because two can overlap while a third has completed before or comes after; both
  compression settings, because they differ in the key of the memfile.
* Three builds: two that share a template, bucket prefix and registry entry, and one that shares
  the registry file only.
* Bundles of size 1, 1, 2 and 3 under a budget of 2: one `Insert` evicts one or two others, or none, or is refused; two clients, because a race
  on one bundle or between a fetch and an eviction takes two. The keys of equal size and the clients are symmetric.
* Two initial slots in `pool_live`, so that the construction may fail half-way and a slot may be idle at the exit.
* One of the three builds has a command: what matters of a Setup command is whether one failed.
* Back-off and deadlines have no duration: they may expire at any moment, which includes every
  real timing.

Faults are constants: `mkdir`, `exec`, `socket` (never appears) and `api` (a call fails). A run names
the ones it has; a context that is done causes the same failures without them.

### Fairness

`ForkTool!ToolFairness` (run `pool_live`): weak fairness of the steps of a goroutine that has begun, because all
its waits are bounded in the code (5 s for a socket, HTTP timeouts, mutexes held for short sections);
of the cancellation of a context whose handler has returned (`defer cancel()`); of the kill that
`os/exec` does for a context that is done; of teardowns and `Shutdown` once begun; of the server's return after `Shutdown`, which is the next thing `main` does;
of the `Shutdown` that a trial of the bench defers; and of the deferred calls of `cmd/fork`. There is none
for a call of `Fork` or `Release`, for the signal that makes the server shut down or ends the hold, for the exit of the bench or for the
faults; and it is fairness of a process that is still there: no goroutine has any once `main` has returned. `ForkServer!Fairness`: the same at the level of
handlers (60 s for a fork and 30 s for an exec unless the client says otherwise, 10 s for the drain), and none
for the arrival of requests or of the signal. `SeedTemplate`, `SnapshotStore` and
`LocalCache` have safety only.

## 4. Disagreements between the code and what it says

Four runs show one each (details and quotations under `findings`):

1. `pool_snapshot` - with `--ultra-warm` a request for another template is answered with a VM of the
   preloaded one (`pool.go:176`).
2. `pool_liveup` - a cold fork's process is built with the request's context (`fc/snapshot.go:107`), which the
   handler cancels when it returns: it is killed while it stays in `Live()`.
3. `seed_setup` - `runShell` looks for `exit_code` or `code`, the agent says `rc`: failures of Setup commands pass.
4. `server_exec` - `handleExec` signs with any cached secret, not with the one of the fork's template.

Met while modelling and not given a run of their own:

* `pool.go:212, 215` refill with the request's context, while `Take` refills with `context.Background()` for
  the reason its comment gives (`warmpool.go:410-413`). The cancelled refill is counted as an error, and the
  pool loses a slot: `ShrinkIsCounted` holds because of the count.
* A `Fork` in flight during `Shutdown` publishes into the fresh map (`pool.go:268` after `pool.go:337`). `ExitIsClean`
  and `ExitsClean` are therefore about a Shutdown that no Fork overlaps; the server's drain gives up after 10 s.
* The server returns from `main` right after `Pool.Shutdown` (`main.go:188-193`), and `cmd/fork` ends after its deferred one. A refill, a failed cold fork or a `Release`
  whose goroutine has not yet killed its process dies then, and an unjailed slot's Firecracker, started under `context.Background()`
  (`warmpool.go:333`), runs on. `ExitIsClean` names these processes; no line of the documentation claims otherwise.
* What `spawnSlot` and `spawnJailedSlot` leave on disk when they fail before there is a process (`warmpool.go:339-341, 379-382`): see `DirsAccountedFor`.
* `docs/api/firefork-server.openapi.yaml:222-223` promises a 502 when the agent finds the HMAC wrong; the code answers 200 and counts an exec. It takes
  the wrong secret of `server_exec` to get there; in `server_api`, with one signed template, it does not happen.
* ADR 0004:35 describes the back-off for every refill; only `Take` looks at it.
* An exec by `cmd` sends a field `sh` (`main.go:411`) that the agent does not read; `docs/api/firefork-server.openapi.yaml:99` says it runs `sh -c`.
* `rotate-agent-secrets.md:28` calls the replacement of the registry atomic. Inside one process it is; two `seed-template`
  processes can lose an entry or publish a torn file. `RegistryIntact` says so: it holds up to the first overlap (`raced`).
  Its lines 30-33 let forks of the old and the new snapshot coexist, but the server reads the registry once (`main.go:78`).
* `sweep.go:11` speaks of "leftover per-fork and per-warm-slot directories"; line 59 takes `firefork-build-` too, which is where the
  snapshot files of an unjailed template stay (`builder.go:166`; `seed-template` builds below `/tmp` by default). A `cmd/fork` started an hour after
  the build removes the template it is about to look up. `RegisteredIsUsable` names this exception (`swept`).
* `cmd/fork` ends by `os.Exit` when `Fork` fails, is interrupted or has no success (`cmd/fork/main.go:145, 204`), which skips the deferred `Shutdown`: live
  forks and warm slots run on. Its `--timeout` is for the "fork dispatch", but `dispatchCtx` lives through the hold, and its end kills the cold forks that are held.
* `cache.go:109-111`: the size is measured "so the cache's accounting can't drift from filesystem reality". It drifts when two clients fetch one
  bundle at once, the second truncating what the first has inserted, and when an eviction comes between the measurement and the lock. A fetch that fails and an `Insert` that refuses leave
  their directory, which no eviction will find.

## 5. What is proved

`WarmPool_proofs` - for every finite set of slots, every number of callers, contexts and snapshots, jailed or not, with any
faults: `IndInvHolds`, `TypeCorrect`, `SingleOwnership`, `TakesAreReady`, `NothingOrphaned`, `DirectoriesAccountedFor`, `ClosedPoolHoldsNothing`, `LossesCounted`, `ForksLeftAlone`.
Assumptions: `SlotAssumption` (slots finite, `Initial` a non-empty subset of them, `NoSlot` none), `CallerAssumption` (callers finite), and
that `NoSnap`, `Background` are no snapshot and no context. The argument: none of these is inductive. That a slot appended by a `Refill` is not already listed
needs `SingleOwner` with `ListedIsIdle` (listed exactly when its state is idle). That an idle slot is loaded exactly when flagged
needs `SlotProgress`, which says it for each step of the goroutine that made it, and `BuildPhases`, because
`p.preload` changes once: before `open` there is no `Refill` that could have read the old value. That `Close` leaves nothing
needs that `closed` implies an empty list, that `BuildPhases` forbids the states of the constructor, and `NoOrphan`. That a slot without a
process has left its directory only by one of the two failures needs `SlotProgress` again: a slot that has yet to start has no process.
There is a lemma for each conjunct with one step per action that can disturb it. `LossesCounted` is a counting argument: `FlightMoves`,
`OwnersMove` and `RefillBegins` say by how much a step changes the number of slots in flight, of callers that owe a refill
and of refills a drained `Take` asked for, `CountStep` that the sums stay equal.

`ForkPool_proofs` - for every finite set of slots and forks and any set of requests, jailed or not, with any faults: `IndInvHolds`,
`TypeCorrect`, `DirectoriesAccountedFor`, `NoSecondTeardown`, `EachPublishesItsOwn`, `NothingForgotten`, `LiveForksRun`, `EachRunsWhatWasAsked`,
`LifecycleImplemented`, `ShutdownIsComplete`. Assumptions: `ForkAssumption` and `WarmAssumption`, the second being those of `WarmPool` about the parameters of `W`.
The invariant of `W` is a conjunct of the Pool's: the Pool's steps are written with those of `W` (`WarmMoves`), and `WarmPool_proofs`, instantiated as `WP`,
says that these keep it. On top of it, `QuietStep` and `CallerMoves` reduce the warm
pool to what the Pool relies on: its goroutines leave every slot that was taken alone, and a caller moves its own. The Pool's invariant then has
eight parts: `CallProgress` (a goroutine's place against what it asked of the warm pool), `SlotIsOwn` (no two goroutines ever hold
one slot, and a kept slot is in somebody's hands), `MapsAgree` (the maps hold what was published, all of it, in one place each),
`ColdProgress` and `ColdDirs` (the processes and directories of cold forks against the goroutine's place), and for `ShutdownIsComplete` three more: `CallersWait` (no goroutine of a `Fork` call that has not begun or has
returned is at work, and a taken slot belongs to one that is), `PoolField` (what `p.warmPool` says of the construction of the warm pool)
and `ShutdownProgress`. That an id is published once needs that slots and forks are never reused (`IdsDiffer`). `EachRunsWhatWasAsked` is
under the condition `Agreed`, that the pool is not preloaded or that all requests name what it is preloaded with; `pool_snapshot` shows what happens
without it.

`ForkTool_proofs` - `ToolRunsPool`: each step of the process, whichever of the three it is, is one of the Pool or leaves it alone, so that the
theorems of `ForkPool_proofs` are used of the Pool inside. `ToolExitsClean`: what each of them leaves behind (`ExitIsClean`),
from the Pool's invariant and `ToolProgress`, which says at each point of `main` how many `Fork` calls there have been and that none is
under way from the hold, or from the trial's `Shutdown`, on: a goroutine that had yet to publish could put a fork into the fresh map behind `Shutdown`'s back.
A failure before the `Fork` call leaves nothing because a constructor that fails takes down every slot (`PoolField`), and because nobody calls `Fork` before
the warm pool is attached.

`SnapshotStore_proofs` - for every number of Saves, Loads and templates: `WholeInvHolds`, `IndInvHolds`, `ManifestsAreBacked`,
`VerifiedLoadsAreWhole`, `UncontestedSavesStand`, `UncontestedLoadsAreWhole`, `StoreImplementsRegister`. Assumption: `StoreAssumption`. The invariant adds what a Save in
progress has already stored (`SaveProgress`; objects are overwritten and never removed, so it stays true under rivals)
and that a Load past its first request has a manifest (`LoadProgress`): this is `WholeInv`, on which the verified Loads rest. A Save that meets
no other needs three parts more. `Stamped`: what is stored is of a Save of that name that has begun, so that a Save which has not begun has no
manifest anywhere and may still turn out to meet no other. `AloneSaves`: none of its rivals has a request under way, what it has stored so far stands, and once its manifest is there, its Save
reported or not, the bundle is. `AloneLoads`: a Load that has its manifest has read that Save's objects behind it, checked or not. The refinement maps the manifest objects to the register,
the fetch of a manifest to its read, the last check to its answer, and all other requests to stutters; what a Load answers is
read from the files it downloaded, not from its manifest, so the mapping needs `VerifiedIsWhole`.

`ForkServer_proofs` - for every finite set of forks, execs and templates and any set of requests, over the pool's abstract specification:
`IndInvHolds`, `MetricsCorrect`, `ReleasedOnce`, `SecretCachedFirst`, `ShutdownIsClean`. Assumption: `ServerAssumption`. The invariant
ties what a request is doing to what it has done: `RequestProgress` (a status when it is answered, and not before), `ForkProgress`
(a fork comes from its request, after the secret was cached), `ExecProgress` (a dialled exec has found a fork, and signs with a
cached secret unless there was none), `DeleteProgress` and `ExitProgress`. `DeletedOnce` needs that two DELETEs that have found a fork have
not found the same, and that Shutdown's copy has none of theirs; `ExitsClean` needs that a fork which is leaving has someone who
tears it down, so that a complete drain leaves none. The counters are cardinalities: an answer adds the forks of its
request, which no other answer has added.

`SeedTemplate_proofs` - for any set of builds, jailed, uploading or neither, with any number of Setup commands: `PipelineInv`, `FailuresCleanUp`,
`RegistryStaysIntact`, `EntriesAreUsable`. Assumption: `SeedAssumption`. The uploads are those of `SnapshotStore` without Loads, so the invariant
of that module, instantiated, is part of this one. The registry needs `Inodes` (the file in place is never the `.tmp`, and an inode named after a process that has
not opened its own is neither) and `OneWriter`: as long as no two processes have registered at once, the only one that does has read exactly the
entries that the file lists, and the `.tmp` it writes is its own, although a process that was killed may have left one there. `RegisteredIsUsable` holds
also after such a race and of a torn file: `DocumentsListBuilt` says of every document, in the file, in a `.tmp` or in the memory of a process, that the builds it
lists have come as far as `Register` (`BuildProgress` says what they have done by then) and keep what they left, a sweep excepted.

`LocalCache_proofs` - for any set of bundles and clients, any sizes and any budget: `CacheInv`, `BooksAgreeWithDisk`, `HeldBundlesSurvive`,
`CacheImplementsLru`. Assumption: `CacheAssumption` (sizes and budget are positive numbers). The invariant is `Accounted` with `HolderKnown` (who has
the lock, and where its bundle is), `WithinWhole` (nothing is larger than the whole bundle), `OneFetch` (a bundle that no two clients
fetched at once has one client at work on it or is in the cache, and what was measured is still there) and `Recent` for each client. `Recent` is why
`RecentSurvives` can be proved: only bundles used since are before one that is held, so when it is the last of the index, all the others and the new one have
been used since; if `evictOneLocked` has to take it, they do not fit together. In the refinement `Insert` is one step of `LruCache`, the one
that releases the lock, and `Evict` is a stutter; `RoomIsMade` says of the time in between that the index is a prefix of what `Insert` began with, and that
every longer prefix was too much. `CacheLemmas` has what this needs of sums over sets and of positions in sequences. The library defines
the sum over a finite set by recursion and its induction theorems cannot be used here; each lemma takes a smallest set for which
it fails instead (`SmallestSubset`), which exists because inclusion is well-founded on the subsets of a finite set.

TLC checks the inductive invariants too (`warm_pool`, `pool_mixed`, `store_bundle`, `seed_pipeline`, `server_api`); of those of `LocalCache` and `ForkTool` the
runs check what is stated with them (`Accounted`, `RecentSurvives`, `ExitIsClean`).

Every invariant, action property and refinement of a passing run is proved. Only model-checked is what is temporal beyond that, as TLAPS has no support for fairness and ENABLED: `RefillEnds`,
`ForkReturns`, `FailedForksEnd`, `ShutdownEnds`, `RequestsEnd`, `ServerExits`. That a property fails where it is
expected to is shown by TLC in the four runs of section 4.

## 6. What is not modelled

* Time, sizes, latency and statistics (`TakeStats`, `SpawnCost`, bench); logging; flags.
* The inside of Firecracker, memory sharing between forks, the network. The jailer is its chroot and its process.
* HMAC and the wire format of the agent; sharing of a secret is modelled, forging is not.
* The layout of the chroot, file modes, decompression bounds, YAML validation, template keys: sequential code on strings and files.
* A crash of the host (fsync): the processes of this system may die at any step, the files stay.
* The list and health endpoints, authorisation: no state.
* The cold-start mode, fan-out commands and measurements of `cmd/bench`; what overlaps of its trials on one host.
* `cmd/firefork`, probes and examples: sequential clients of the modelled packages.
* The age of directories: a sweep of an idle warm slot or of a live fork of another process, which loses its sockets by it.
* A registry that changes under the server: the server holds to the entries it read at start, whatever happens to the file, so `ForkServer` has them as a constant.
* `Registry.Delete`, `Storage.List/Delete/Head`: no caller outside tests and bench.

## 7. Plan

In the order of importance; the modules of sections 2-5 came first because the warm pool and the pool are where the
concurrency is and where a mistake leaks VMs.

1. The age of directories, so that a sweep can meet an idle warm slot.
2. Proofs about `LruCache` and `ForkLifecycle` alone, of the kind their users would cite: what an id that was released can still become, what a `Touch` protects.
