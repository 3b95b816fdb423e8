# Formal models of pixi-build-retread

`pixi-build-retread` is a pixi build backend: for a conda output backed by PyPI
wheels it resolves the wheels, decides which of their requirements conda
already satisfies, builds what has no usable wheel, stages everything and lets
`rattler-build` pack the result.  One backend process serves one pixi
invocation, and many run at once on a node: on a cluster they share caches,
stores and a compression-thread budget through a POSIX file system.  Nothing
coordinates them but files, renames and `flock`.  That is where this code is
hard to test, and what the modules here model.

Paths below are relative to `src/src/` of the repository unless they say more.

## The system's parts

| Component | State it keeps | Operations | Interacts through |
|---|---|---|---|
| Compression thread budget, `thread_budget.rs` | one lease file per build, a registry lock, the grant and child of each lease | `acquire`, `record_child`, `release`, pruning | lease directory shared by all of a user's backends; `/proc` |
| Wheel store, `wheel.rs`, `pypi.rs` | a wheel file with an integrity marker, a fill-lock file with its holder, an entry lock | fetch, persist, lookup, second chance with takeover | other backends on any node of the cluster |
| Git checkouts, `source_build.rs` | checkout directory, ready marker, lock file; a registry, a read-write lock and one descriptor per process | `ensure_git_checkout`, its initializer, the reader lease | other backends; other tasks of the process |
| Canonical git snapshots, `source_build.rs`, `courier.rs` | immutable trees with markers and seals, use stamps, entry locks, quarantine | `ensure_canonical_git_snapshot_in`, the reaper's pass | the reaper of another process; hits that take no lock |
| Probe pool, `thread_budget.rs`, `conda_solve.rs` | an `Arc` on one lease, a semaphore | `acquire_probe_pool`, `acquire_task`, drop | the thread budget; blocking tasks that outlive their waiters |
| Entry stores and their reaper, `source_build.rs`, `courier.rs`, `store_reap.rs` | entries with markers, entry locks, use stamps, quarantine | lookup, publish, reap, dry run | every store's lock |
| Built-output store, `built_output_store.rs` | recorded conda outputs under a content key, with the repodata they are of | lookup, adoption, refusal, quarantine, publish | other workspaces' backends |
| Conda outputs memo, `handler/mod.rs` | memos in memory and on disk, fill locks, prepared plans | lookup, fill, hand-off to the build | other backends; the build pass |
| Route probe cache, `route_probe_cache.rs` | verdict files with a validity key | load, merge under lock, reap | other backends |
| Advertised identity, `handler/advertised_identity.rs` | fingerprint of what `conda_outputs` told pixi | record, compare at build time | the two passes of one pixi run; sibling packs that write their locks |
| Repodata, `repodata.rs`, `sharded_repodata.rs` | cached indexes, a fetch lock | one elected fetcher, others wait | other backends |
| Fast temporary space, `fasttmp.rs` | job namespaces, leases, handover records | claim, renew, hand over, sweep | other jobs of the node |
| Activation repair, `repair.rs`, the guard in `recipe.rs` | a state file, a sentinel and a repair log per bundle | verify, refuse, grant, roll back | every activation of the environment; `uv` |
| Installer, `installer.rs`, `glibc.rs` | a marker with the digest of the installed lock, an install lock per bundle, a `uv` lock per environment | install, verify, certify | the other bundles of the environment, which may share distributions |
| Resolution state, `handler/resolve_state.rs` | constraints gathered per name | accumulate, conflict, queue again | bundle routing |
| Constraint decisions, `constraint.rs`, `relax_decision.rs`, `relax.rs`, `compat.rs`, `virtual_override.rs`, `subpackages.rs`, `relaxation_record.rs` | none | pure functions | everything above |
| Repair loop, `solve/*.rs`, `pack_overrides.rs` | the manifest in an editor, the ledger of overrides, snapshots of both, what was tried, rounds and repairs | solve, read the conflict, repair, revert, roll back | pixi, and its cache of rendered packs |
| UV closure, `uv_closure.rs` | resolver workspace, lock | close over requirements | `uv`, the wheel store |
| Hermetic builds, `hermetic_build.rs` | environment of one wheel build | provision, build, clean up | `rattler-build`, the entry stores |
| Bundle routing, `handler/auto_bundle.rs`, `coresident_pins.rs` | the worklist of a search | route, probe, override | solvers |
| Wheel rewriting, `wheel_rewrite.rs`, `wheel_inject*.rs`, `wheel_content.rs` | none | rewrite one archive | |
| Workspace and lock documents, `workspace.rs`, `config.rs`, `lock.rs`, `recipe.rs` | none | parse, print | |
| RPC front, `rpc.rs`, `main.rs`, `cli_verbs.rs`, `concurrency.rs` | a request loop, a build semaphore | dispatch | pixi |

What makes each of the concurrent parts correct:

- **Thread budget.** The grants never add up to more than the budget, a child
  that compresses stays charged, and tokens of whoever dies come back.
- **Wheel store.** A reader adopts only right bytes, a marker attests only
  right bytes, a good wheel is never thrown away, contenders transfer a wheel
  once, and a poisoned lock blocks nobody for ever.
- **Git checkouts.** A task reads the tree of its own url and revision while
  nobody changes it; a marker means a complete tree; callers never hang.
- **Snapshots and stores.** What was published is never lost or replaced, and
  nobody in the middle of using an entry has it taken away.
- **Probe pool.** Tokens return when the last blocking task ends, not when
  its waiter is cancelled.
- **Memo, probe cache, repodata.** One process computes, the others adopt what
  was computed for exactly their key; a lock that cannot be had costs time only.
- **Advertised identity, built-output store.** The build pass reproduces what
  the metadata pass advertised, whatever siblings write in between; an adopted
  result is one the adopter would have computed.
- **Activation repair, installer.** A replay that was killed or failed is never
  taken for one that was finished; replays of one environment do not overlap;
  the budget bounds how often one is tried.
- **Resolution state, decisions.** Accumulated constraints only tighten, and a
  relaxation happens only under its policy and after the strict answer failed.
- **Repair loop.** It ends; giving up restores what the run found; a revert
  undoes one repair; pixi never solves with a stale manifest or render; nobody
  decides anything about an ABI anchor.

The hard behaviours are the same all over: leases and locks of processes that
were killed; `flock` on a file that is unlinked and created anew; a verdict that
is carried out after its subject was replaced; async callers that are cancelled
while their blocking task goes on; best-effort steps that fail in the middle;
readers that hold a path and no lock.

## Modules

| Module | Models |
|---|---|
| `TokenPool` | abstract: a pool of tokens from which holders take a fixed allocation |
| `SharedTree` | abstract: a tree that is handed out whole and stays as it is while it is used |
| `ThreadBudget`, `ThreadBudgetProofs`, `MCThreadBudget` | the lease registry and its clients; proofs; instances |
| `WheelStore`, `WheelStoreProofs`, `MCWheelStore` | one entry of the wheel store |
| `GitCheckout`, `GitCheckoutProofs`, `MCGitCheckout` | one shared checkout |
| `SnapshotStore`, `SnapshotStoreProofs`, `MCSnapshotStore` | one canonical snapshot and the reaper |
| `CondaOutputs`, `CondaOutputsProofs`, `MCCondaOutputs` | `conda/outputs` and `conda/build_v1` over memos, records and the built-output store |
| `Repair`, `RepairProofs`, `MCRepair` | `retread install` and the activation guard in one environment |
| `RepairLadder`, `RepairLadderProofs` | the manifest, the ledger and every tier of the repair planner |
| `SolveDrivers`, `SolveProofs`, `MCSolveDrivers` | `retread lock`, `retread solve` and `--clean-pins`, which climb the ladder |

Each module has one action per step that another process can come before or
after: one file system call, one stretch under a lock, one decision.  Reads and
writes under an exclusive lock are one step where everybody takes that lock, and
separate steps where somebody does not.  Names follow the code; `PROJECT.json`
gives the lines of every definition under `map`.  Definitions marked *Mutant*
are plausible mistakes that a property must notice; no specification uses them.

### ThreadBudget

A member of `Builds` is one call of `acquire` with the child it leads to, `Owner`
is its process.  `leases`, `granted`, `child` and `aged` are the lease files with
their records; `lock` is the registry's flock; `phase` is where the call stands;
`view` is what its pass has read.

| Actions | Code |
|---|---|
| `Start`, `StartDetached` | `acquire`, `resolve_settings` |
| `Collide`, `ScanFirst`, `ScanAgain` | drawing a nonce, the lock, `load_and_prune_leases` |
| `Wait`, `Admit` | the rest of `registry_admission_pass` |
| `PassFails`, `PruneFails`, `Rollback` | its error paths in `acquire_coordinated` |
| `Spawn`, `SpawnFails`, `RecordChild`, `RecordChildFails`, `ChildExits`, `EndUncharged` | the callers in `handler/mod.rs`, `update_child_identity` |
| `Release`, `ReleaseFails`, `Cancel` | `release`, `Drop`, the dropped future |
| `Crash`, `Age` | SIGKILL; `LEASE_STALE_AFTER` |

A pid that is reused is another process, because a lease also records the start
time.  `/proc` reads that fail make any aged lease look dead.  A record that
cannot be parsed, among them a live lease of the older format, makes a pass
fail.  Leftover temporary files and the creation of the directory are left out.

- `thread_budget_safety`: two processes with three builds over three threads
  and two nonces, with one attempt to draw a free name, processes that see
  budgets of one and of three, failing registry operations and unreadable `/proc`.  `LeasesAreOwned`,
  `BudgetRespected`, `NewGrantFits`, and `TokenPoolSpec`: the registry
  implements `TokenPool`.
- `thread_budget_live`: three builds of three processes share a budget of one
  token while a process crashes, before or after it has spawned its child, and
  builds are cancelled.  `RunningChildrenCharged`, `AcquireTerminates`,
  `LeasesAreReturned`.

In the first run three builds are one more than can be served at once; two of
them share a process, so that their names may collide and one may be cancelled
beside the other.  Two nonces let a name collide and let a free one remain.  In
the second each build has a process of its own, because there a lease is judged
by the life of its owner.  Three are the least with which the fair share is zero
beside a free token: two have waited for the third when its token comes free.
The crash of one (`MaxCrashes`) leaves a lease that expires and, if there is a
child, an orphan that keeps the token until it ends.

The budget is one of coordinated builds.  An override of the thread count
(`RETREAD_COMPRESSION_THREADS`) and a registry that fails lead to a permit
without a lease (phase `detached`), and its child (phase `uncharged`) compresses
beside the budget.  `BudgetRespected` and the charges speak of leases; the other
children are steps of the model and outside of `Coordinated`.  The runs reach
them through a failing registry; the theorems hold for any override.

Fairness: passes, rollbacks, child updates and releases compete for a blocking
`flock`, and every waiter comes back after `CAPACITY_RETRY_DELAY`, so each of
them is strongly fair; steps inside the lock are those of a running thread; a
child ends and time passes.  No fairness is assumed of crashes, cancellation or
failures.

### WheelStore

Each process of `Clients` does one operation: `fetch` (`fetch_wheel_cached`),
`persist` (`store_wheel_in_cache`), `lookup` (`inspect_store_entry` alone) or
`retry` (`await_wheel_store_fill` and `wheel_store_second_chance`, with
`reclaim_stale_fill_lock`).  A file is an inode under a path: `wheel` and
`lockPath` are the inodes at the paths, `flock` and `fd` belong to inodes.  A
modification time moves when another process makes a hard link.  `marker` is the
stat tuple the integrity marker attests.

`Look`, `Hash*`, `Seal`, `Mark` are the steps of `inspect_store_entry`; `Evict`,
`EvictMarker` those of `quarantine_store_entry`; `Copy`, `CopyDone`, `CopyFails`
`atomic_owned_copy`; `OpenLock`, `TakeLock`, `LockFails` the fill lock;
`Download`, `Publish` the fill; `Probe*`, `Unlink` the takeover.

- `wheel_store_integrity`: two fetches, which TLC may exchange, beside a persist
  or a lookup, over an entry that is absent, unattested, attested or corrupt,
  with wheels that are touched and damaged, locks that fail and processes that
  die.  `OnlyRightBytes`, `OneFiller`, `GoodWheelStays`.
- `wheel_store_takeover`: a fetch beside a takeover, with every fault but damage,
  over an entry that is absent, abandoned by a dead filler with or without its
  record, or corrupt.  `LiveLockStays`, `OperationsEnd`.

`GoodWheelStays` has the premise that no wheel file holds wrong bytes: a process
that has seen wrong bytes may carry its verdict out on the wheel that was
published since (see *Seen while modelling*).  `OneFiller` is about the lock and
the death of who holds it; what a removed lock file does to it is the subject of
the takeover runs.

An inode is used again only when nothing refers to it any more; there are more
of them than can be referred to at once (`InodeAssumption`).
Damage is what writers of older versions did in place.  The passing runs admit it
only while nobody is between hash and marker, for the reason given under *What
the runs found*.  A takeover refuses the lock of another host at its first step, so
the runs use one host.

Fairness: a started operation runs on; the kernel hands a `flock` to a waiter.

### GitCheckout

One checkout directory: `marker` and `tree` on disk, `flock` per process, and
per process the registry entry `bound`, the flags `shared` and `poisoned`, and
the initializer `writer`, `phase`, `attempt`.  `Tasks` are calls of
`ensure_git_checkout`: `Register`, `Check`, `WriteLock`, `ReadLock`, `Validate`,
`Finish`, `Cancel`.  The initializer, which goes on when its caller is cancelled,
is `Probe`, `TryShared`, `RecheckShared`, `TryExclusive`, `RecheckExclusive`,
`Clone`, `CloneSucceeds`, `CloneFails`, `Wipe`, `Publish`, `PublishFails`,
`Downgrade`, `Relock`.  `Downgrade` and `Relock` are two steps because `flock(2)`
gives the old lock up before it asks for the new one.

The path of a checkout contains the hash of its url and the full revision
(`git_checkout_root`; a comment further down still speaks of a truncated hash),
so two identities meet in one directory only through an alias; one task of the
instance may ask for either.

- `git_checkout`: two processes, one with two tasks; git, disk, lock and unlock
  calls fail, callers are cancelled, a process crashes once, the marker is
  removed once.  `MarkedTreeIsWhole`, `OneInitializer`, `SharedTreeSpec` (the
  checkout implements `SharedTree`: a task is handed the whole tree of its own
  identity, and the tree changes only while nobody uses it), and `CallsEnd`
  unless the marker was removed or an exclusive lock could not be released.

Two processes with two tasks in one of them are the least with which a lock is
shared inside a process and contended outside.  One crash, followed by the
restart of the process, reaches every phase; more repeat it.

Fairness: tasks and initializers run on, leases are dropped in the end, and the
read-write lock serves its waiters in turn.

### SnapshotStore

`Callers` are calls of `ensure_canonical_git_snapshot_in`.  `entry` is the tree at
the path, a number; `marked`, `sealed`, `damaged`, `quarantine` say what has
become of each tree.  `stamp` is the use stamp and `recent` the age of the
marker, relative to the horizon of `GIT_SNAPSHOT_STORE_DEFAULT_MAX_AGE_DAYS`.

| Actions | Code |
|---|---|
| `Check`, `Touch` | `try_unlocked_sealed_canonical_git_hit`, `touch_use_stamp` |
| `TakeLock`, `Look`, `SealForward`, `LockedTouch` | the locked hit |
| `CloneFails`, `Publish`, `Verify` | the clone, its rename, the walk after the lock was dropped |
| `Revalidate` | the check after the wheel was built |
| `Begin`, `Scan`, `TryEntry`, `Recheck`, `Rename`, `MoveStamp` | `reap_canonical_git_snapshot_store` |

The check of a sealed tree looks at a sample of its files and may miss a damage
that the full walk sees (`Passes`).  A tree keeps its marker once it has one: what
a marker that is deleted or torn later does to its tree is left out.  A clone is
one step that succeeds or fails: it happens in a directory of the caller's own.  The horizon passes only while nobody calls or reaps, because it is
fourteen days.  A dry run changes nothing and is left out.

- `snapshot_store`: three calls, one of which verifies in full, and two passes
  share an entry while one horizon passes, everything fails that may fail and
  one process dies.  `NothingIsLost`, `ClonesAreNeeded`,
  `LockedHitsKeepTheirTree`.

Three calls give a hit before the horizon, a clone after it and one beside
either; two passes meet at the reap lock and one follows the other; trees are
bounded by the number of calls.

### CondaOutputs

Pixi asks a backend process for the outputs of a package and later, maybe in
another process, for the build of one of them under exactly the build string it
was told.  Both passes are requests of a process, and a process serves one at a
time (`rpc.rs`).  What may change in between is a *fingerprint*, a number for
what the sibling packs have locked (`live`), and a *world*, what channels and
indexes serve; `Content` is what the package resolves to in each.  A process
reads its world once and keeps it (`view`).

Records are written best-effort: `Advertise` may fail for any of the outputs it
is given, and `unwritten` remembers which, for the properties only.
`disk` and `fill` are the memo on disk of each key and its fill lock, `store`
the built-output store, `records` the advertised-identity record under each
build string, `told` what pixi was last told by each process, `lock` the
committed lock of each output.  Per process, `memo` is its memory and `held` the
prepared plans with the key they are for; `work` is the request it serves and
`pc` where that stands.

| Actions | Code |
|---|---|
| `HitMemory`, `MissMemory`, `ReadDisk`, `AdoptStored`, `PassStore` | the lookups of `conda_outputs`, `retain_prepared_for_memory_cache_hit`, `universe_verdict`, `restore_advertised_identities` (with `Advertise`) |
| `TakeFillLock`, `FillLockFails` | `acquire_conda_outputs_disk_cache_fill_lock` and the second look |
| `Resolve`, `EmitReplay`, `Emit`, `Fail` | the resolution, `detect_incremental_add_for_target`, `replay_from_lock_for_target`, the loop over the outputs with `write_record` |
| `Publish`, `WriteDisk`, `Quarantine`, `PublishStored` | the plans and memos, `write_conda_outputs_disk_cache`, `quarantine_refused`, `publish` |
| `Build` | `conda_build_v1` up to `load_record` and the prepared plan |
| `BuildFromLock`, `LeaveFast` | lanes B and C: the committed lock replayed or added to |
| `BuildFromPlan`, `BuildCold`, `BuildRecovered`, `Refuse` | the prepared hand-off, the cold resolution, `plan_cold_mismatch_recovery`, the refusals |
| `SiblingWrites`, `Crash`, `NewJob`, `Report` | the environment |

- `conda_outputs`: two processes, two outputs, two fingerprints, three worlds, two
  requests, one build and one trouble (a crash, a change of job or records that
  cannot be written), over four kinds of first locks, with fill locks and memos
  that fail.  `AnswersHaveRecords`,
  `FreshIdentitiesAreBuilt`, `IncrementalAnswersKeepTheirPlans`,
  `LockedComputationsAreFirst`.

Two outputs are the least with which a sibling writes between two emissions of
one answer and a plan is used up while another remains.  Two requests let one
process compute and another, or itself, come back to what it left; the build
then asks any process.  The first locks are none, one that can be added to, one
that replays and one whose dependencies are not those of its version, which is
where the replay, the addition, the recovery and the refusals differ.  Two of
the three worlds hold the same for this package, so that an entry is adopted by
its candidates and refused by its documents.  The theorems hold for all these
numbers.

`AnswersHaveRecords` excuses an output only when this job has failed to write the
record of just that build string, and what is there is always of that build
string.  `FreshIdentitiesAreBuilt` names its exceptions: the packages have moved;
the plan and the lock of the process disagree, which is explained under *Seen
while modelling*; or the record was lost to a failed write and siblings have
moved since (`LostItsRecord`), which the code accepts as a return "to
recompute-and-refuse".  Without any of the three TLC finds a refusal.
`LockedComputationsAreFirst` compares computations under the lock: after an
incremental answer, which is not shared, or a memo that could not be written,
another process computes again, and so does one that could not have the lock.

### Repair

A member of `Procs` is an activation with the `retread install` its guard may run;
`Bundles` name the distributions their locks pin (`Locked`), and bundles may
share some.  `digest` is the lock a bundle has, `marker` the lock its marker is
for, `state` and `refusal` its state file, `sentinel` the file `.broken` of the
guard, `attempts` and `trigger` its repair log.  `info`, `files` and `bytecode`
are the environment: the version a distribution's metadata has, what its files
are, and `__pycache__` that no RECORD lists.

| Actions | Code |
|---|---|
| `Activate`, `GuardEnds` | the self-heal guard of the activation script |
| `ReadRefusal`, `ClearRefusal`, `ReadState`, `FastPath`, `TakeInstallLock` | `run` up to the install lock |
| `KeepPayload`, `Refuse`, `Grant`, `Replay` | the double check under the lock, `decide_repair`, `refuse_repair` |
| `Prepare`, `BeginAttempt`, `MarkRepairing`, `StartUv` | `prepare_transaction` to the start of `uv` |
| `UvTear`, `UvDrop`, `UvUnpack`, `UvInstall` | what `uv pip install --reinstall` does, external |
| `UvExits`, `UvFails`, `RollBack`, `MarkBroken` | its end, `rollback_half_removed`, `fail_repair` |
| `Check`, `Certify`, `Clean` | `finish_repair` |
| `Dies`, `LockChanges`, `Overwritten`, `Wiped`, `AuditLapses`, `Import`, `SentinelAges` | the environment |

The log's text and rotation, distributions that conda or an editable checkout
owns, locks that cannot be had and the rules of the GLIBC audit are left out.

- `repair`: two activations of one bundle or of two that share a distribution,
  a cap of one attempt, two locks, and two things that go wrong (`MaxTroubles`).
  `UnfinishedReplaysAreDistrusted`, `ReplaysAreSerial`, `GrantsAreWithinBudget`,
  `RolledBackIsOwnedOrAbsent`.

Two bundles and one shared distribution are the least with which the `uv` lock
matters and the install locks do not already exclude each other.  With a cap of
one both refusals, by count and by divergence, are reached.  Two troubles let
one process die after the environment was damaged, or a lock change under a
replay.  The theorems hold for all these numbers.

`UnfinishedReplaysAreDistrusted` speaks of bundles that still have their first
lock.  After a change of the lock it fails: a process that read the refusal of
the old lock removes the state file later, whatever it holds by then, also the
record of a replay that is running.

### RepairLadder and SolveDrivers

`RepairLadder` is sequential: a document is a function from places (a table and a
name) to kinds of entry, a ledger holds the override of each name and the names
that were unrouted, a plan is a document in the editor with what was tried.
`Repaired` is `ConflictPlanner::repair`; `Boundary`, `NoCandidates`,
`CondaWidenNeeded`, `DepsFromPin`, `NestedCondaCap`, ... are its methods, with the
guards on anchors and on oscillation in `Tier`; `FallbackBatch` and
`TerminalUnroute` are the generic engine and the last resort of a lock.

`SolveDrivers` runs it.  `manifest` and `over` are `pixi.toml` and the ledger of
overrides, `bak` and `overBak` their snapshots, `render` the ledger pixi's render
of the pack was made with, `lastRun` and `failed` the record of earlier runs.

| Actions | Code |
|---|---|
| `StartLock`, `Sweep` | `run_with_pixi_bin` up to its loop |
| `StartSolve`, `StartClean` | `run_legacy_manifest_edit` |
| `PixiDies`, `Converge`, `OutOfRounds` | the outcomes of a round that need no repair |
| `OverBudget`, `Conflict`, `Proposal`, `Fallback`, `RevertWiden`, `Unparseable` | one round on what was read, in `run_with_pixi_bin` and `run_env` |
| `WriteManifest`, `WriteLedger`, `Evict` | `write_atomic`, `write_override`, `invalidate_pixi_source_metadata` |
| `RollBackManifest`, `RollBackLedger`, `EvictAll`, `RestoreEnv` | `rollback_snapshot`, `rollback_all`, `--keep-going` |
| `NextEnv`, `Cleanup`, `End` | the next environment, `cleanup_all` |
| `Killed`, `UserEdits` | the environment |

What pixi answers is any member of `Errors` in any round, since nothing here
determines it.

- `solve_drivers`: a lock or a solve of two environments, then a lock or
  `--clean-pins`, with two repairs, one edit by the user and one kill.
  `LockRollsBackToItsStart`, `RendersAreFresh`, `EditorIsCurrent`,
  `HardCapNeverBites`, `AnchorsAreNeverEdited`, `RevertUndoesTheRepair`.

Of the three names one has an ABI anchor for its conda name, and one has a
table-valued entry in a draft; the conflicts reach every tier.  Two repairs give
a repair, one that builds on it and a third that is refused.  Two commands show
what the first leaves for the second; a third finds nothing that the second
could not find.

## Proofs

`TLC` checks instances; the theorems hold for every value of the constants.

- **ThreadBudgetProofs**: `TypeCorrect`, `BudgetSafe`, `GrantsFit`,
  `ImplementsTokenPool`, `LeasesOwned`, `RunningAreCharged`,
  `CompressionWithinBudget` and `LockIsHeldInAPass`.  That the grants respect
  the budget is not inductive: a pass grants from what it has read before.  The
  invariant adds that the pass that has the lock has read the registry as it is
  (`PassSeesRegistry`), since whatever else takes tokens needs the lock, and
  that a file name has one user.  The arithmetic lies in three lemmas on the
  tokens taken: a grant takes that many more, freeing takes none, and a pass
  never grants more than remains.  `LeasesOwned` rests on two facts: names
  differ, and what a step adds to the registry is the lease of the build inside
  a pass.  `RunningAreCharged` holds without unreadable `/proc` entries, failing
  registry operations included: a granted or running build has its lease since
  its owner lives, and the lease of an orphan that was recorded names the child
  that lives (`Charge`).  From this, `LeasesOwned` and `BudgetSafe` follows what
  the registry is for (`CompressionWithinBudget`): every thread that a
  coordinated child uses stands for a token of its own (`ThreadsAreTokens`), so
  these children together stay within the budget.  Neither theorem speaks of the
  children of detached permits, which come on top, nor of an orphan whose
  identity never reached its lease.  `LockIsHeldInAPass` says that the registry's lock is held
  by a live build in its pass and by nobody else.
- **WheelStoreProofs**: `TypeCorrect`, `BytesAreRight`, `GoodWheelIsKept`,
  `OneFillerWithoutTakeover`, `LiveLockIsKept`, `WaitersWaitForWork`.  `Place`
  says where a process stands when it has the lock file open.  `Bytes` says that
  every fingerprint is of the past and, as long as it is current, names right
  bytes (`Past`, `Right`): whoever changes the wheel moves its stat tuple or
  brings a new inode, so a marker that has become wrong is no longer current.
  Eviction needs wrong bytes that were seen under a stable fingerprint, hence
  `GoodWheelIsKept` as long as there are none.  The two
  theorems on the lock say under which takeovers they hold (`NoTakeover`,
  `OneTakeover`); the run with two takeovers shows that more is false.
  `WaitersWaitForWork` holds with any takeovers: who has a lock of the entry is
  at work on it and has no other, by an invariant of its own (`AllUse`) that
  also says at which inspection the holder of the entry lock stands.
- **GitCheckoutProofs**: `TypeCorrect`, `ReadersSafe`, `MarkerSafe`,
  `InitializersExclude`, `ImplementsSharedTree`.  The invariant says which lock
  each phase of the initializer holds, that locks exclude, that a committed
  process keeps its shared lock, and that the tree changes only while it has no
  marker.  A reader is safe because its process has committed, which keeps every
  exclusive lock away, even after the marker is gone.  The refinement maps a
  step in which a task begins to read to `Take`, one in which tasks end to
  `GiveBack` and one of an initializer on the tree to `Change`, which by the
  invariant finds nobody reading (`UnusedWhileChanged`); every other step leaves
  the abstract state alone.
- **SnapshotStoreProofs**: `TypeCorrect`, `PublishedTreesRemain`,
  `ClonesReplaceNothing`, `LockedHitsSafe`, `TreesGoUnused`.  The invariant ties
  the lock to the steps that hold it.  For locked hits it says that from the
  stamp on the entry is fresh and no pass is beyond its second look: a pass
  looks again only under the lock, which the call had when it stamped, so it
  sees the stamp.  `TreesGoUnused` puts these together for every step: a
  published tree leaves its path only for the quarantine, and nobody who has or
  had the lock is at it.
- **CondaOutputsProofs**: `TypeCorrect`, `AnswersRecorded`, `FreshBuilt`,
  `PlansKept`, `LockedFirst`: every property of the run.  The invariant says
  that every result anybody may come back to, half-done ones included, has its
  records or is among those whose records the job could not write (`Answered`),
  and no step of a job takes either back; that a memo is
  marked if it needs plans and that the plans held for a key cover it
  (`Planned`); that a request marked as locked has the fill lock of its key and
  that the memo there is not of a locked computation (`FillLocks`); and that a
  build has the record of its identity and is in effect under its fingerprint
  (`Buildable`).  `EmitSteps` says once what an output that is added looks like.
  `WaitersWaitForWork` adds that a fill lock is held by a process that computes
  for its key, so that the waiters, who have no timeout, wait for work;
  `BuildsLockWhatWasTold` is an action property of the build pass: what it
  commits has the version that was told, and the advertised build string while
  the record is usable.
- **RepairProofs**: `TypeCorrect`, `UnfinishedReplaysDistrusted`,
  `SerialReplays`, `GrantsWithinBudget`, `RolledBack`, `WaitsAreOrdered`,
  `MarkersEarned`.  The invariant says which steps hold the install lock of
  their bundle and the `uv` lock (`InstallLockIsHeld`, `UvLockIsHeld`), that a
  process clears only a refusal of an earlier lock (`LocksAreKnown`,
  `ClearsAreLate`), that from its mark to its verification a replay's state file
  says so (`ReplaysAreMarked`, `CertifiedIsVerified`), and that a granted
  attempt is not yet counted (`GrantsAreFresh`), for only the holder of the
  install lock counts one.  `WaitsAreOrdered` needs the converse of the first
  two, that a lock that is held is held at such a step (`LocksAreUsed`): then a
  waiter has fewer of the two locks than the one it waits for.  `MarkersEarned`
  is an action property, and holds whatever lock the bundle has by then.
- **RepairLadderProofs**, **SolveProofs**: `TypeCorrect`, `LockRollsBack`,
  `EditorStaysCurrent`, `RendersStayFresh`, `BudgetBoundsRounds`, `AnchorsStay`,
  `RevertsAreExact`.  The lemmas on the ladder say what every repair does
  (`RepairedRepairs`): it changes no anchor's entry, its edits lead back to the
  document it was made on, and it writes to the manifest or the ledger.
  `ConflictActs` and `FallbackActs` carry this to the rounds.  The invariant
  conjoins what each stage of a run may assume (`Stages`), the count of rounds
  (`Rounds`: a repair pays for its own round and for the one that may revert it,
  so twice the budget and the eight are never reached), the snapshots
  (`Baseline`), the editor, the renders, the anchors (`Spared`) and the pending
  edits (`Reverts`).

The assumptions are those of the modules: processes, builds and nonces are
finite sets where tokens are counted, budgets are positive, bounds are numbers,
locks name at least one distribution, and there are more inodes than references to
them.  The proofs use no fairness.

Only model-checked: liveness (`AcquireTerminates`, `LeasesAreReturned`,
`OperationsEnd`, `CallsEnd`), which like `ENABLED` and induction over data is
beyond the prover.  Every safety property of the passing runs is a theorem.

## What the runs found

Each of these is a run that must end in a counterexample.

- `wheel_store_two_takeovers` (`wheel.rs`, `reclaim_stale_fill_lock`): two
  takeovers open the same lock file; after the first has unlinked it and a filler
  has created a new one, the second locks the old inode and removes the live
  filler's file.  Already one takeover between another process's open and flock
  leaves two fillers with locks on different inodes.  `OneFiller` is therefore
  checked without takeovers and `LiveLockStays` with one.
- `repair_false_divergence` (`installer.rs`, `repair.rs`): the missing set is
  recorded before the wheels are there and `uv` starts.  If the install dies in
  between, the next one is refused for good, because "the previous replay
  COMPLETED and the same wheels went missing again".
- `solve_stale_baseline` (`solve/driver.rs`): a lock that spends its repairs keeps
  its snapshots, a solve keeps the first snapshot there is, and so a solve that
  gives up restores the files of that lock's start.  A lock removes such
  snapshots first, and for it the rollback is a theorem.

Seen while modelling, without a run of its own.  Wheels and snapshots:

- `fetch_wheel_cached`, `store_wheel_in_cache` and two readers evict a wheel under
  different locks or none, so one published since is evicted on a verdict about
  its predecessor.
- The marker attests a stat tuple that is read after the hash; a wheel that
  changes in between is attested unhashed.
- `fill_lock_holder_is_live` says a holder on another host is left to the flock
  probe; `reclaim_stale_fill_lock` returns before it, so such a lock is never
  taken over.
- An unlocked hit stamps an entry between the reaper's second look and its
  rename; the tree is moved away under its user, although rule 3 of the reaper
  promises that it is kept.  Hits that stamp under the lock are safe, and this is
  a theorem.
- A pass that dies or fails between moving a tree and moving its stamp leaves
  an old stamp; the next tree at the path looks unreferenced until its publisher
  has verified it, which it does without the lock, and another pass may move it
  away meanwhile.

- A task of a process that holds the lease of a checkout asks for the same
  checkout again (`handler/mod.rs`, the rules of one pack); its second read
  queues behind a writer that waits for the first to go.

The two passes:

- The version overrides of an answer are computed under the fingerprint read
  before its outputs are emitted, each build string under the one read at the
  emission.  A sibling that writes in between leaves an incremental identity no
  build accepts, or a fresh one whose lock can be added to by the time it is
  built: the process that holds its plan then refuses it, because the plan says
  that no version was taken from a lock and the lock says that one is.  This is
  an exception of `FreshIdentitiesAreBuilt`.
- An output that is replayed from a lock writes no record.  If a sibling writes
  between the passes, the build of a replayed output is in effect under another
  fingerprint, and its prepared plan is refused.
- The memos, the disk cache and the store are written before the strict verdict
  on automatic imports refuses the answer; the next request with the same key
  returns the memo as a success.
- The back-off from an ABI conflict drops the map of suppressed roots, so that
  what it drops never reaches the strict verdict; a second emission of the same
  bundle after a successful back-off is refused as exhausted; the prepared plan
  keeps the injected content from before.
- Records are kept by build string, and the dependencies and the universe are no
  part of it, so two processes may write different bytes to one record although
  `advertised_identity.rs` says they are identical; a cold build emits the
  dependencies of the record without comparing them, and a replay those of the
  lock.
- Memos are not keyed by the universe while `load_record` refuses a record of
  another one: an answer from a memo, or one adopted by its candidates, can be
  followed by a refused record.
- Two processes that reclaim an abandoned entry of the store: the second's removal
  of the directory can take the entry the first has published by then.  And an
  entry is quarantined after the recomputation, by its key, whatever is there.

Repair:

- A process that read the state `repairing` before it waited for the lock replays
  an environment its predecessor has healed; the comment on the double check
  says it does nothing then.
- The ceiling on attempts, which `repair.rs` calls hard, is asked only when
  the marker is current and trusted.
- The rollback goes by the metadata of the inventory.  A distribution that `uv`
  has installed at another version lost that metadata, and is removed.
- The state is per bundle, but a replay of one bundle also removes what another
  shares with it.

Lock and solve:

- A proposal that leaves nothing to write counts as a repair of a lock until
  the budget is spent.
- Reverting the widening of a table-valued entry removes the entry.
- `mark_last_widen_failed` is given the conda name, while attempts are recorded
  under the PyPI name, so some failed widenings are tried again.
- With `--keep-going` the rollback of one environment also takes back the
  overrides of those that converged.
- A kill between a write of the ledger and the eviction leaves a stale render,
  which is why `RendersAreFresh` speaks of runs that were not killed.
- Edits that a user makes during a run are overwritten.
- A solve reports the manifest as restored after `unparseable` when repairs of
  earlier rounds are still in it.

## Not modelled

The contents of archives, documents and version sets; what `git`, `uv`,
`rattler-build`, pixi and solvers do inside one call; permissions and ownership
of directories; NFS beyond renames and locks that are visible at once.
Components without a module are listed with their reason in `PROJECT.json`.

Of the repair loop: several features and packs, locks that are best-effort and
fail, the exemptions of conda-owned, editable and shadowed distributions, a
`uv` that outlives its installer, `--audit` and `--apply-ledger`, dry runs, smoke
tests, and how a conflict is read out of pixi's text.  A snapshot of the manifest is
copied atomically (`copy_atomic`) and one of the ledger with a plain copy, which
is one step here as well: what a kill in the middle of it leaves is not modelled.

Of the two passes: the strict verdict and the back-off from ABI conflicts, aliased
outputs and packs that are no couriers, the
directories and markers inside one publication and the store's reaper, stamps
of local wheels, and `RETREAD_INCREMENTAL=off`.  PyPI and the channels move
together, as one world.

Why the rest has no module: the largest files (`handler/mod.rs`,
`source_build.rs`, `uv_closure.rs`, `handler/auto_bundle.rs`, `workspace.rs`,
`courier.rs`) are for the most part sequential: parsing and printing of
documents, archives and commands, and searches whose every step is an answer of
`uv`, a solver or an index.  A model of them would either invent the answers or
repeat the text.  Where they keep state that others share, a module here has it.

What would be worth adding: a queueing read-write lock in `GitCheckout` with a
task that asks again while it holds a lease; the probe pool over `TokenPool`; the
renames inside a publication of the built-output store; leases and handover of
`fasttmp.rs`.
