# Verification of flux

TLA+ models of flux, the configurations TLC checks them with, and proofs TLAPS
checks. Paths and line numbers are those of the repository: `graph.rs:494` is
`src/graph.rs`, line 494. `PROJECT.json` maps every definition to the lines it
stands for, lists the runs, the properties each checks, a plausible bug that
each property catches, the hazards of the code, and the theorems.

## 1. The system

A command goes through these parts in this order:

    files --discovery--> packages + references + bridges
                             |
            changed paths --> affected scope, selections --> printed order
                             |
                        task planner --> prerequisites of each task node
                                             |
                          priority schedule -+--> batch scheduler --> units
    root tasks --root plan--> ordered root tasks                        |
                                  |                                     |
                      root run (conditions, outputs, cache) --> package run --> report

`flux storage save` and `restore` move snapshots between machines; both they and
the task cache use the S3 transport. `flux version` reads commits and tags,
`flux stamp` rewrites manifests; release jobs use both.

| Part | State | Operations | Interacts with |
|---|---|---|---|
| Workspace discovery (`manifest.rs`, `plugins/`) | none kept; it reads a tree of files | `discover_workspace`, the plugins' `discover_manifests` and `parse_manifest`, `resolve_internal_dependencies` | gives everything else its packages |
| Change detection and selections (`graph.rs`, `git.rs`, `main.rs`) | changed paths, affected and selected packages, worklists, indegrees | `affected_packages`, `select_packages`, `calculate_affected_scope`, `topological_order` | takes two commits from git; gives the planner its scope |
| Task planner (`graph.rs`) | included, restricted, expanded, visited sets of a depth-first collection | `task_nodes_for`, five mutually recursive `collect_*`, `task_prerequisites`, `materialize_task_plan` | takes packages, policies (`tasks.rs`) and a scope; gives nodes and prerequisites to the schedulers |
| Priority schedule (`graph.rs`) | indegrees, a heap, a batch index | `priority_schedule` | orders the planner's nodes; that order gives the batch scheduler its indices |
| Batch scheduler (`plugins/mod.rs`) | pending, completed, a growing cohort | `batch_execution_plan` | groups tasks one cargo process can run |
| Package run (`main.rs`) | position, failures | `execute_unit`, failure policy | runs the units after the root run |
| Root plan (`tasks.rs`) | visiting, completed, plan | `collect_root_tasks`, reference and condition checks | gives the root run its order |
| Root run and report (`main.rs`) | outcomes, outputs, session, the report file | `execute_root_plan`, `Command::Run`, `write_execution_report` | drives the task cache, then the package run, then the report |
| Task cache (`cache.rs`) | sessions, prefetched archives, staging | `prepare`, `prefetch`, `restore_prefetched`, `save` | worker threads before the root run; a store shared with other runs |
| Storage snapshots (`storage.rs`, `storage/parallel.rs`) | an archive file written by several threads, staged outputs | `save`, `restore`, `unpack`, `verify` | a store shared by machines; files other processes write |
| S3 transport (`cache/s3.rs`) | requests in flight, a deadline | `transfer` | the object store |
| Versions and channels (`version.rs`, `git.rs`, `channels.rs`) | none kept; tags and commits are git's | `calculate_version` | release jobs on several branches publish what it answers |
| Version stamping (`stamp.rs`) | manifests being rewritten one by one | `stamp_selected` | is run again by a release job that failed |
| Command line, rendering | none kept | printing | |

What is hard in each, and what makes it correct:

- **Discovery and change detection.** The graph is that of the checked-out
  commit, the changes also concern what is gone. Consumers are followed through
  references that may be circular. Correct: exactly the owners of what changed
  and their consumers are affected; a selection is exactly what its roots need;
  test-only references count for changes and not for orders.
- **Task planner.** The collection is recursive over shared sets, and a node
  reached a second time is treated by the reason it was reached first, so the
  order of packages could decide what runs. Correct: nothing is planned the
  policies do not ask for; what a node waits for is planned; nothing waits in a
  circle if neither tasks nor packages, through dependencies and bridges together,
  are in one; it returns on cyclic graphs.
- **Schedulers.** Absorbing tasks into a batch must not cross a dependency, lose
  a task, or close a circle; the cycle error must be exact.
- **Package run.** A failure ends the run or is passed over, task by task, though
  a process stands for several tasks.
- **Root plan and run.** Skips must reach everything below, outputs must exist
  when they are substituted, the report must be the target's and whole.
- **Task cache.** Keys are computed long before archives are used and files change
  in between; results arrive from worker threads in any order.
- **Snapshots and transport.** Files change while they are archived; writers share
  one file; requests are late, repeated, lost, or handled after the client gave
  up; the object is replaced during a download; a replacement of outputs fails in
  the middle.
- **Versions.** Jobs read tags, others publish meanwhile. Correct: versions follow
  semantic versioning whatever the order, prereleases of a branch advance.
- **Stamping.** A failure leaves some manifests stamped, and the rerun selects by
  the versions it then finds. Correct: the end is that of a run that did not fail,
  and requirements follow the packages they point at.

## 2. The modules

| Module | Models | Extends |
|---|---|---|
| `Discovery` | from a tree of files to packages, references and the graph, as operators | |
| `ChangeScope` | `affected`, `select` and the scope of `plan` and `run`, loop by loop, over the trees of two commits | `Discovery` |
| `Workspace` | packages, graphs, opt-ins, `autoapply`, cascades as a record; the policy functions as operators | |
| `TaskPlanner` | the collection as a stack of calls, one action per kind of call; prerequisites; materialisation | `Workspace` |
| `DagRun` | abstract: tasks are taken in groups, each once, never before what they wait for | |
| `PrioritySchedule` | the indegree algorithm round by round; refines `DagRun` | |
| `BatchScheduler` | the cohort loop, one action per iteration; refines `DagRun` | |
| `PackageRun` | execution of the units and the failure policy | `BatchScheduler` |
| `RootPlan` | depth-first collection of root tasks with its validation | |
| `RootRun` | `flux run`: planning, conditions, outputs, cache flags, outcomes, and the report file | `RootPlan` |
| `CachePrefetch` | prefetch workers, then each task's restore, execute and save, with an editor and other runs | |
| `SnapshotStore` | what an archive is and when `unpack` accepts it | |
| `SnapshotSave` | `storage save` with upload, writers of the files, and the server | `SnapshotStore` |
| `SnapshotRestore` | `storage restore` with download, other runs, expiry and rot | `SnapshotStore` |
| `Versions` | `version` in concurrent release jobs, with commits, merges, tags and channels | |
| `Stamping` | `stamp` file by file, with failures and reruns | |
| `SchedulerProofs` | proofs about `BatchScheduler` and `PackageRun` | `PackageRun` |
| `PriorityScheduleProofs`, `RootRunProofs`, `CachePrefetchProofs`, `ChangeScopeProofs` | proofs about the module of that name | that module |
| `PlanProofs` | proofs about the planner | `TaskPlanner` |
| `SnapshotProofs` | proofs about saving and restoring | `SnapshotSave`, `SnapshotRestore` |
| `ReleaseProofs` | proofs about versions and stamping | `Versions`, `Stamping` |
| `MC*` | instances for TLC | |

How state and actions correspond to the code:

- **`Discovery`**: a path is a sequence of names, a tree a function from paths to
  what they hold, and a manifest a record of what parsing takes out of it. The
  three plugins are three sets of operators over one vocabulary. Patterns are
  matched name by name, with `*` for one name.
- **`ChangeScope`**: `pc` is where the command is. `pending` is the worklist of
  `select_packages` and then of `affected_packages`; `Select` and `Propagate` take
  one element of it, in any order. `Diff` is git's answer, or its failure.
  `OrderPackage` is one turn of the loop of `topological_order`, and `PrintAffected`
  one of `affected_in_native_order`, which leaves out what is not affected.
- **`TaskPlanner`**: `included`, `restricted`, `expanded` are the three `&mut`
  sets `collect_task_nodes` passes down; `stack` is the Rust call stack, the next
  call first; `visited` holds a `visited_native` for each
  `collect_bridged_task_nodes`, and a `WalkCall` names the one it was passed. Each
  action takes the top call and replaces it with the calls that code makes, in its
  order; a bridge (`BridgeCall`) and a dependency in another ecosystem (`AimCall`)
  are calls of their own. Packages are numbers because `PackageId` is ordered.
- **`BatchScheduler`**: `SelectSeed`, `ScanIndex`, `EndPass`, `Commit` are the
  statements of the `while` loop at `plugins/mod.rs:62`. Units are sets: inside a
  unit cargo orders the packages itself.
- **`PrioritySchedule`**: `PopReady` and `StartRound` drain the heap,
  `ProcessNode` decrements the dependents of one node, `EndRound` counts rounds.
- **`PackageRun`**: all units are made before the first runs, so scheduling comes
  first. A batch's process may fail with some members run and some not (`"cut"`).
- **`RootPlan`**: `stack` holds what the recursion has left to do, the next first:
  a `CollectCall` per dependency still to visit, a `FinishCall` per task whose
  exit is still to come.
- **`RootRun`**: one action per stage of a task in `execute_root_plan`. Command
  results, what they print, and cache answers are free choices. `temp` and
  `reportFile` are the two files of `write_execution_report`; each of its steps
  may fail, and the process may be killed between them.
- **`CachePrefetch`**: contents are versions. A key is a task with the version its
  inputs had; an archive is the version it was built from. Workers take
  candidates through the shared counter `next`.
- **`SnapshotSave`**: `saving` is where `save` is; the walk reads directory by
  directory, each file is hashed at a moment of its own, each shard's writer
  appends at a moment of its own (`NextPlace` is the position asked for
  under the lock). In the upload `saving` names the request waited for; `received`,
  `stored`, `upload`, `object` are the server's. `coherent` is kept for
  `SnapshotExisted` only.
- **`SnapshotRestore`**: `Places` is the order keys and layouts are tried in,
  `attempt` where the loop is. `removed` and `replaced` are how far the paths
  are; a path is in `removed` only while it has no output.
- **`Versions`**: a branch is the set of commits reachable from it, and a tag keeps
  the set its commit had. `Calculate` is the whole of `calculate_version`, on what
  the job has checked out; `PushTag` is the job's own `git push`, which other jobs
  may have overtaken.
- **`Stamping`**: `Select` is `stamp_selected` up to its first write, then comes one
  action per file in the code's order, each of which reads the files as they are.
  `Fail` is an error at any of them; `Rerun` starts the same command over what was
  left.

Faulty definitions, marked `\* Faulty:`, stand beside the real ones. They are used
by no specification; each is a bug one of the properties detects, and
`PROJECT.json` says which.

## 3. The runs

| Run | Instance | Shows |
|---|---|---|
| `scope` | five repositories (nested crates, a root JavaScript package, a bridge, a Python project, circular test-only references) in every variant one edit away, every commit of up to two more edits; three selections | what is affected is exactly what the change reaches; no change is missed; a selection is exactly what its roots need; packages are printed in order; the command ends |
| `package_run` | every relation of three tasks (none, waits, may absorb), one key or none each, every opt-in and outcome | units keep prerequisites and are maximal; the scheduler fails exactly on cycles; an opted-in failure is never passed over; the run ends; `DagRun` is implemented |
| `priority` | every graph over four nodes, self-loops included | the order is complete or a cycle is reported; rounds are levels; `DagRun` is implemented |
| `plan` | two cargo packages and one JavaScript package, every native and bridge graph between them, every opt-in, cascades, `depends_on`, `ecosystem_depends_on`, with and without a scope | nothing is planned that was not asked for; what is waited for is planned; no circles; without `ecosystem_depends_on` the plan is the whole closure in native order; planning returns |
| `root` | every dependency graph over three tasks, then four tasks with conditions, outputs, references, caches and all cache flags | the plan is the ordered closure and cycle errors are exact; its recursion is bounded; outputs are there; skips spread; the report is the target's outcome and its file is never torn; the run ends |
| `cache` | two cached tasks, two workers, an edit at any moment, other runs, damage | a hit is current; a stale prefetch is no error; no archive lies under a key it was not built from; the run ends |
| `save` | two files, four versions each, all shard assignments and interleavings; local, single-request and three-part uploads | what is uploaded was one state of the files and passes `unpack`; the object is replaced whole or not at all; the save ends |
| `restore` | two keys in two layouts, two snapshots; replacement, expiry, rot at any moment of the download | outputs belong to one saved snapshot, verified before anything is touched; a miss is real; the restore ends |
| `version` | two release jobs on main, a prerelease branch and an overridden channel, with no tags or two at first; three commits of any kind, merges | a release makes the step its biggest commit wants, in whatever order jobs publish; prereleases of a branch advance; a version is above all that were there to see |
| `stamp` | workspaces with and without a root crate, inherited, own, and no versions, requirements across packages, a `deno.json`; 60 command lines; up to three runs | exactly what was asked for is stamped; requirements follow; a run that failed leaves no trace after the rerun |

The bounds. The schedulers' properties concern at most one absorbed task, one
absorbing it and one between them, so three tasks show every interaction; the
theorems of section 5 remove that bound, as they do for all runs that pass. Three
packages are enough for a plan that leaves an ecosystem and comes back. Four root
tasks allow a skip to reach a task directly and through another that has a
condition of its own. Two cached tasks are enough for one
command to change the other's inputs. Two files make two concurrent shards; four
versions allow a file to appear, change and vanish. Three parts with two in
flight let the limit (four in the code) take effect. Two edits let a manifest
disappear in the same commit that adds a package or changes a reference. Three
commits on a branch that is one release behind allow a patch, a minor and a major
bump to be published in the wrong order; three tags are the earliest a number
can be skipped. Three runs of `stamp` fail at two places. `MaxVersion`,
`MaxCommits`, `MaxTags`, `MaxRuns`, "at most one rotten object" in
`SnapshotRestore`, and the finite sets of contents are the only bounds on
otherwise unbounded behaviour.

Assumptions that are not bounds:

- In `SnapshotSave` and in the `cache` run an edited file does not get earlier
  contents back (`EditKinds` without `"reverting"`). When contents do come back, a
  second hash agrees although other contents were read in between. For a snapshot
  it makes an archive whose checksums do not match, which `restore` refuses; for
  the cache see below.
- In `Versions` one branch publishes versions without a channel, and channels have
  names (`ChannelsAssumption`). `branch = "name"` in `flux.toml` makes any branch
  such a branch (`dev = "canary"`, `README.md:564`, `575`), as `--channel production`
  does: with two, the latest production tag may lack the commits of either, and semantic versioning is
  no longer about one line of commits. The tags there are at first are those of a
  repository that begins to use flux (`FirstTagsAssumption`).
- `NoChangeMissed` assumes that no manifest got another name, that no package came
  between a path and its owner, that no manifest is ignored, and that no crate whose
  manifest changed describes a workspace (`NamesKept`, `OwnersKept`, `ManifestsSeen`,
  `WorkspacesKept`). Without any of these it is false, see below.
- The properties of `Stamping` assume that packages which inherit their version are
  asked for together (`InheritTogether`), and two that the version asked for is not
  excluded (`NewVersionCounts`), since a rerun would then exclude what the first
  run stamped.

### Where the code and its documentation disagree

Two runs check a statement of the documentation, and TLC finds a behaviour of the
code without it.

| Run | Statement | What the code does |
|---|---|---|
| `discovery_exclude` | `README.md:673`, `675`: excluded directories hold no member | excludes are compared with paths of manifests, so that excluding a directory excludes nothing (`plugins/mod.rs:199`) |
| `version_breaking` | `README.md:507`: a `BREAKING CHANGE` footer makes a major bump | git is asked for subjects only, and a footer is in the body (`git.rs:112`) |

Others that modelling brought up, and that no run shows:

- An inherited task's failure inside a batch with an opted-in task ends the run
  (`plugins/cargo.rs:363`), though batching is said not to change the failure
  policy (`README.md:847`).
- `ecosystem_depends_on` breaks three promises of the planner: a node reached last
  through it loses its native order (`graph.rs:511`, `README.md:1217`); one reached
  first through it never spreads natively (`graph.rs:519`, `README.md:920`); and a
  task with cascade `none` gets onto packages that only inherit it (`graph.rs:924`,
  `README.md:1267`). This is why `UnaskedPlanKeepsPromises` is about plans without
  it.
- An edit that is undone before the save publishes outputs under a key they were
  not built from (`cache.rs:424`, `README.md:376`): `StoreIsHonest` fails if
  `EditKinds` has `"reverting"`.
- A package renamed in place, or a new package nested in another one whose files it
  takes over, does not affect the consumers of the old one: owners are looked up in
  the head's graph alone (`graph.rs:110`). Nor does a manifest that is ignored,
  although it says what its package refers to; nor, for the crates that inherit from
  it, the manifest of a crate that describes a workspace without being the root.
- Test-only dependencies of JavaScript and Python packages propagate no change,
  since only the Cargo section name is looked for. `README.md:257` reads as if they
  did; `README.md:741`-`753` says that npm and uv dev references do not change
  planning. No repository of the `scope` run has such a reference.
- git's failures are taken for empty answers (`git.rs:96`, `112`, `123`): with the
  tags unread the next version starts from 0.0.0. No commits since the last tag are
  an error, so a job that fails after its tag was pushed cannot be resumed.
- `plan --stamp-args` of an empty plan gives no selectors, with which `stamp` takes
  everything. Selectors are names, in every ecosystem at once.
- A `package.json` without a version is left before its requirements are looked at
  (`stamp.rs:408`), so that they go stale. A package that is excluded but inherits
  its version changes with the others all the same. Files are overwritten in place
  (`stamp.rs:329`).
- Of packages of one ecosystem with the same name only one is kept.

One thing the `save` run does not claim: that a save which reports failure has
published nothing. A request the client gave up on may still be handled, so the
new object, whole, can appear after a failed save. `UploadIsAtomic` says what
does hold.

## 4. Fairness and liveness

Only the program's own steps are fair.

- `ChangeScope`, `TaskPlanner`, `PrioritySchedule`, `PackageRun`, `RootRun`: weak
  fairness of the program's next-state relation. The code is one thread that
  computes, or waits for a child process that ends; nothing else is assumed.
- `CachePrefetch`: weak fairness of each worker and of the main thread. Workers
  are scoped threads that the scheduler runs; the editor and other runs are not
  fair.
- `SnapshotSave`, `SnapshotRestore`: weak fairness of the client only. The server
  need never answer: that the operation ends rests on the deadlines, and the
  faulty `DeadlineWithoutParts` and `DeadlineWithoutRanges` show it. Files may
  change at any moment.
- `Versions` has no fairness, since nobody need release; deadlock is not checked
  there, because the bounds stop commits and tags. `Stamping` has none: it goes on
  only if somebody reruns it, and its loops are over fixed sets.

## 5. The proofs

The theorems hold for every value of the constants, under the assumptions that
the modules name (`TasksAssumption`, `PlansAssumption`, `SaveAssumption`, ...) and
that TLC evaluates in the runs. Each argument is an inductive invariant of named
parts, one lemma per action or group of actions, and a last temporal step.

**`PriorityScheduleProofs`**: for any finite set of nodes and any relation, circular
or not. The core is `IndegreeIsOutstanding`: a count is the number of prerequisites
not listed yet, and zero exactly for the nodes in the heap, in the round or listed.
It needs that a node is in one of these places only (`PlacedOnce`), and gives that
the list is in order (`ListedInOrder`). Hence `CycleErrorExact`: the first node of a
circle to be listed would follow another of the same circle. `RoundsLevelled` needs
that what became ready since a round began waits for a node of that round
(`LastRound`), and that the round being popped comes before all that is left in the
heap (`RoundSorted`). `Refinement` shows that only `ProcessNode` is visible, and
takes one node.

**`SchedulerProofs`**, the batch scheduler: for any set of indices, not necessarily
finite, any keys and any plans. That a new unit respects prerequisites needs that
its members' prerequisites are completed or absorbable members of the cohort with
the same key; that no circle is closed by a cohort that grows needs that the
completed tasks are closed under prerequisites; that a committed cohort is maximal
needs what the unfinished pass has already ruled out. `IInv` is the conjunction of
these (`CohortShape`, `CohortSound`, `CompletedClosed`, `ScannedRuledOut`,
`CycleShape`) with the properties. From `Invariance` follow
`PrerequisitesRespected`, `NoTaskLostOrRepeated`, `NoCycleScheduled`,
`CycleErrorExact` and `CohortMaximal`. `TopologicalNeverStuck` adds that for a plan
in topological order, which the priority schedule hands over, the cycle error
cannot occur; its induction goes through `LeastElement`. `Refinement` shows that
every step takes a group `DagRun` allows or is a stutter.

The package run: `RunSchedules` shows that a run's steps are the scheduler's or
leave its variables alone, so that all of the above holds of runs.
`ExplicitFailuresEndRuns` needs that the units cover all tasks, each once
(`NoTaskLostOrRepeated`), and that those before `position` were executed.

**`PlanProofs`**: for any set of workspaces. The recursion is shared over sets, so what matters of the stack
is the set of calls pending on it, in whatever order. `NeedsInv`: what an included
node depends on is included or called for, which gives `NeededIsPlanned` although a
node reached again is not expanded again. `SoundInv`: every pending call is inside
what the policies ask for, so that no order of calls can add a node
(`PlannedIsAsked`); that closure is defined by steps, and `ClosureClosed` and
`ClosureLeast` show that as many steps as there are nodes, twice, are enough.
`UnaskedInv`: a walk has been wherever its visited set has been and leads on, or a
call for it is pending, and nothing is restricted without `ecosystem_depends_on`,
which gives the converse, completeness (`UnaskedPlanKept`). `PlannedWithoutCircles`
needs no invariant of the collection but that prerequisites are what
materialisation makes of them: a circle of nodes would be one of tasks in one
package, or would go through packages in a circle.

**`RootRunProofs`**: for any configuration. The recursion is a stack, and the
invariant says what it stands for: a call lies above the task that made it and is
below it in the dependency graph (`StackShape`); what a visited task waits for is
completed or still on the stack above it (`StackWaits`); what is completed is
closed under dependencies (`CompletedClosed`) and ordered (`PlanOrdered`). Hence
`PlanOrderedClosure`, with exact cycle errors. That a visited task has one place
on the stack gives `CollectionIsBounded`, the part of `RunEnds` that needs no
fairness: the recursion is never deeper than there are tasks. `RunInv` adds that
what completed stands on what completed, all the way down, from which `SkipsSpread` follows, and
`OutputsThere` because a reference is checked to be to a dependency. `ReportRight`
follows the report through its two files.

**`CachePrefetchProofs`**: for any tasks, candidates and workers.
`WorkersShareCandidates` relates the counter to what the workers hold.
`StaleIsNeverAnError` rests on every archive in the store or prefetched being one
for its key, damaged or not. `StoredUnderItsKey` and `HitsAreCurrent` assume that
no edit brings back earlier contents; then inputs only grow, a key that is
confirmed after the commands pins everything that happened in between, and the
store, the prefetched archives and the outputs can be related to versions.

**`SnapshotProofs`**, saving: for any files, contents, shards and parts.
`UploadAtomic` relates the client to the requests the server still has: upload is
completed only with all parts stored, and an abort is sent only if no completion
is waited for. `SnapshotIsRight` has three parts. `ShardInv`: while writers
interleave, extents stay disjoint, injective and cover the payload. `BlockInv`:
each block is the next one of its shard, with contents between the digest and what
the file holds now; a file that is found as hashed pins it to the digest
(`HashAgainKeepsArchive`). `CoherentInv`: had the files not been in that state when
the first pass ended, one of them has moved past its digest and has not been
checked again.

Restoring: for any keys, files, snapshots and pieces; that there is
a key is checked by the code (`storage.rs:356`). The invariant follows the objects
instead of the faults: whatever happens, an object is unreadable or still has the
manifest and the extents of some saved archive (`StoreInv`, `DownloadInv`).
`ValidHoldsSnapshot` is about `unpack` alone: if the checks accept such an object,
every block holds what the manifest says and every file has its blocks, so what is
unpacked is that snapshot. `RestoredSnapshot` follows, and `MissesAreReal` from the
places that were passed (`SearchInv`).

**`ChangeScopeProofs`**: for any histories of trees with finitely many files. A
worklist and what was taken from it are between the roots and every closed set
around them, and closed up to the worklist: so they end as the closure
(`SelectionsAreClosures`, `AffectedExactly`). The indegrees count the references that
are not in order yet (`Counted`), so that each package comes after those it needs
(`NeedsListedFirst`). Hence `AffectedPrintedInOrder`: a complete order has every
package after all it needs, however indirectly (`CompleteIsInOrder`), also when the
unaffected are left out; in an incomplete one each package left needs another that
is left, and of those one with the most consumers is in a circle
(`StuckIsCircular`). `NoChangeIsMissed` compares discovery in two trees: if no changed
path concerns all, the root files are the same and every manifest that was a member
is one still (`ManifestKept`, `PackageRemains`); a package whose manifest is the same
has the references it had (`ReadsSame`, `RefersAsBefore`), and one whose manifest
changed owns it, as its directory is the innermost (`OwnsItsManifest`). So what is
found affected is closed under the former references as well and, around the changed
path's former owners (`FormerOwnerOwns`), holds all their consumers.

**`ReleaseProofs`**, versions: for one branch that publishes versions without a
channel and any number of prerelease branches, any named channels, kinds of commits
and jobs, and first tags such as `FirstTagsAssumption` describes. That releases
follow semantic versioning must also hold of versions that were calculated and not pushed yet, and of those a job calculates next to them from
the same tags. `SemVerInv` says of every pending or prerelease version what it was
calculated from: a release that is still there, or the start, from which all
releases are as far as their commits want (`Founded`, `Origin`). `SameBump` is the
arithmetic behind it: if a version was bumped from a release and the latest release
has overtaken its start but not the version, then the same bump of the latest gives
that version again, and all commits in between want less. Hence `NewFits`: what is
calculated now fits every release and every version about to be one.
`PrereleasesGrow` needs that a job's number is at most one above those there are
(`NumbersInv`): the later of two equal ones is refused, and a higher one was
calculated on more commits. `CalculatedAreHighest` follows from `Founded` too: a
prerelease above the latest release has a commit that the new version counts.

Stamping: for any repositories and command lines, and any number of failed runs.
`KeptInv` says what the files have become file by file and what is left to do;
`AskedInv`, under `InheritTogether`, that a file which should change has or will;
`RepairInv`, under `NewVersionCounts`, that a file holds what it held at first or
what it is to hold, so that a rerun, which reads half-stamped files, selects the
packages of the first run, and settles every file. Hence `AskedAreStamped`, `RequirementsStayMet` and
`RunsRepair`.

What is only model-checked: liveness, since fairness and `ENABLED` are beyond the
installed provers.

## 6. What is not modelled

- **Command line, rendering**: parsing and printing.
- **Discovery**: `**` and character classes in patterns, the choice of a
  `package.json`'s package manager. Of packages with the same id any may be kept.
- **Report**: `append_github_outputs`, which appends to a file of the CI system.
- **Versions**: parsing `flux.toml` and version strings; a failing git.
- **Stamping**: the format-preserving edits of TOML and JSON. A file is the
  versions it declares and requires.
- **Task cache**: the path checks of archives. A promotion that fails part-way
  leaves outputs that are `Torn`, whatever mixture that is.
- In modelled parts: checks on the form of names and paths, symbolic links, file
  modes and times, credentials, log output. Bridge targets are resolved before
  planning. Errors of the file system are modelled where files change under the
  code or where outputs, manifests or the report are being replaced; elsewhere
  they end the operation as the modelled ones do.

## 7. Plan

Done: every part of the system but the command line, and a theorem for every safety
property that a passing run checks. Next:

1. **Composition** of `ChangeScope` with `TaskPlanner`, whose `Inputs` it gives a
   scope, and of `PrioritySchedule` with `BatchScheduler`: the order the one makes
   is a plan `TopologicalNeverStuck` is about.
2. **Task cache archives**: the promotion in `cache.rs:362` path by path, as
   `SnapshotRestore` has it.
