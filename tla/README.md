# sparks-core in TLA+

sparks-core is a Go library of pipeline steps: build and push images, deploy
them through a gitops repository or straight to a cluster or a cloud service,
roll back, back up databases, run service containers, release modules. This
directory holds TLA+ models of its stateful parts, the TLC configurations that
check them on small instances, and TLAPS proofs about every component modelled.

Paths are relative to the repository (`src/gitops/gitops.go` and so on).

## 1. Inventory

State that outlives one function call is rare in this library. What makes it
hard is state elsewhere - a git branch, an ArgoCD application, a registry, a
cloud service - that several pipelines change at once, and the retry and polling
loops that cope with that.

| Component | State it works on | Operations | What is hard | What has to hold |
|---|---|---|---|---|
| `gitops.Deploy` (`gitops/gitops.go`) | branch `main` of the gitops repository, a checkout, the loop counter | authorize, clone (perhaps from a gitcache), patch, commit, push; on a failed push fetch, reset and start over | other pipelines push in between; the cache lags; a push lands and the answer is lost | no update of anybody is lost; success means the tag was on main; running out of retries is never the call's own doing; every call returns |
| `gitops.Revert` (`gitops/revert.go`) | the same | clone, `git revert`, commit, push, retry | `HEAD` means something else on each attempt; a landed push is repeated | a revert takes back exactly its target; a repeated one does not undo itself |
| ArgoCD sync (`gitops/gitops.go`, `syncArgoCD`) | status of an ArgoCD application, expected revision, kick timer | first GET, `git ls-remote`, kick (hard refresh, POST sync), poll, deadline | the status is stale, others push, sync operations exclude each other | success only for a revision at or after the own write; the wait ends |
| `deploy`, `rollback` (`deploy/`, `rollback/`) | - | local: kubectl; remote: gitops write, then sync | they compose the three above, or `kube` | as above, end to end |
| `docker` (`docker/build.go`, `login.go`, `buildx.go`) | process-wide `sync.Once` and error per registry; names in the daemon and in registries | log in once, build, push to one registry after the other; buildx | concurrent builds share the logins, and builds of one commit the names | one login per registry; nobody builds without a login; what is deployed was pushed |
| `gcp` (`gcp/auth.go`) | logins, kept beside each Once | `ConfigureDockerAuth` | the same | the same |
| `cloudrun`, `ecs`, `lambda` and their templates | revisions and traffic, task definitions, versions and aliases | deploy, remember the prior one, verify, roll back | "prior" is read before the deploy and means "latest", not always "serving"; runs overlap | a rollback returns to a version that is ready, served and not the run's own |
| `kube` (`kube/apply.go` ...), `probe` | ReplicaSets of the deployments of a cluster; attempts of a probe | apply, set image, restart, undo; probe until healthy | overlapping runs, failures between deployments, a verdict that cannot be had | nothing healthy is rolled back; an undo takes back what it should |
| `dbbackup`, `services` | dump files, objects in a bucket, two throwaway databases, their containers | dump, deliver with retries, fetch, decompress, replay, verify; run a container around it | retries, cancellation, a runner that dies, names with one second resolution | a drill that passes has restored its own whole dump; a reported backup stays; nothing is left behind |
| `s3`, `pipelines` (static site) | objects of a site | build, check references, sync assets, copy pages, remove orphans, invalidate | the order of passes, failure between them, several publishers | a page that is up has its assets; success is the whole build |
| `terraform` | a saved plan per directory, the version of the state | plan, approval, apply the saved plan | a long wait for a person, a shared directory, drift | what is applied was approved |
| `release` | release directory, checksum manifest, GitHub releases | build per platform, checksum, publish | the directory outlives the run and may be shared | a release verifies, and is built from its tree |
| release job (`.sparkwing/jobs/release_modules.go`) | tags, in clones and on origin | check, create tags one by one, push them | failure in between, reruns, other clones, tags deleted by hand | all modules of a version at one commit, or no success |
| `contentkey` | working tree, index, stored results | list, look, hash, look up; or compare with a base | files change in between; quoted names | a result is reused for the same inputs only |
| `templates` | lazily filled cache of names | validate, render | unsynchronised cache | - |
| `aws`, `migrate`, `notify`, `step`, `checks`, `coverage`, `lint jobs` | none between calls | - | - | not modelled |

How they interact: `deploy.Run` calls `gitops.Deploy` and then `gitops.SyncDeployment`;
`rollback.Run` calls `gitops.Revert` and then `gitops.SyncArgoCD`; both sync calls are
`syncArgoCD`. With `Local` both go to `kube` instead. Concurrent pipelines meet in the gitops
repository, in ArgoCD, in a cluster, at a cloud service, in a bucket and in registries, each time
without knowing of each other. `pipelines` composes `docker`, `s3` and `deploy`. Builds of one process
meet in the login maps of `docker` and `gcp`. The templates compose a deploy, a `probe` and a
rollback, or `services` and `dbbackup`.

`PROJECT.json` lists every component with its status, and every hazard at its
line with the properties that cover it.

## 2. Plan

Written, in this order:

1. `GitopsRepo`, `GitopsDeploy`, `GitopsMain`: the retry loop, and the abstract
   specification it implements.
2. `GitopsRevert`, `GitopsUndo`: rollbacks among the installs that `GitopsMain` promises, and the atomic
   reverts they implement.
3. `ArgoCD`, `Rollout`: the waiting loop, after a gitops write in one step.
4. `LoginOnce`, `SharedLogins`: the logins of concurrent builds, and "one login, then its answer".
5. `CloudService`, `LambdaAlias`, `EcsService`, `CloudRunTraffic`, composed in `CloudPipelines`:
   remember the prior version, deploy, verify, roll back. The platform is chosen in
   the initial state, so one configuration covers them all.
6. `DbBackup` with `BackupDrill`, `KubeDeploy` with `HealthProbe`, and `SavedPlan`: what
   production and its data are brought back with, instantiated in `MCBackupDrill`, `MCKubeDeploy` and `MCSavedPlan`.
7. `ImagePush`, `StaticSite`, `ReleaseTags`, `ReleaseAssets`, `ContentKey`: what is published, or
   not done again, instantiated in `MCPublication`. `MCOperations` puts these and the models of 5 and 6 into one run.
8. The proofs: `GitopsDeploy_proofs`, `GitopsRevert_proofs`, `Rollout_proofs`, `LoginOnce_proofs`,
   `CloudPipelines_proofs`, `Recovery_proofs` (`SavedPlan`, `KubeDeploy`, `BackupDrill`),
   `Publication_proofs` (`StaticSite`, `ImagePush`, `ContentKey`) and `Release_proofs` (`ReleaseTags`,
   `ReleaseAssets`).

Left, in this order:

9. `SharedCheckout`: `Deploy` and `Revert` calls of one host share
    `/tmp/sparkwing-gitops-*` and, in one process, `GIT_SSH_COMMAND`. It would state
    the assumption that `GitopsDeploy` makes (a checkout of its own) and show
    what happens without it.
10. Archives that `lambda.DeployZip` stages in S3 under one key; `cloudrun.Traffic`; `kube.Delete` and
    `kube.Scale`; npm and PyPI publishing and the guards of `release`.

## 3. The modules

### GitopsRepo
What one commit of the gitops repository holds: for each image, and each key that
file patches rewrite, a version or `Absent`. `Patchable` and `Patches` are
`patchImageRefs` with the file patches of `Deploy`: a missing image is an error; a
missing key, and a file that cannot be read or written, is only a warning, so any part of the
keys may be left out. A version stands for `newTag` and `digest` together. `Touched`, `Conflicts` and
`Undone` are `git revert` on such trees: the three-way merge, entry by entry. What the target touched goes back
to its value before the target, and a third value there is a conflict.

### GitopsDeploy
Concurrent calls of `Deploy`. `main` is the sequence of trees of the branch.
git refuses all but fast-forwards, so a commit is named by its position and
a checkout by the position it was reset to (`base`). The steps follow the function: `Call`
(argument checks), `Authorize` (the controller's answer), `Clone` (up to `CacheLag`
commits behind), `Patch` (which ends the call when nothing is staged), `Commit`,
the four outcomes of a push (`PushAcked`; `PushLost`: landed but reported as
failed; `PushRejected`; `PushFault`), `Retry`, `Fetch`. `Fail` is any other git or file operation
that returns its error. `External` is somebody else's commit. `begun`, `cloned`,
`landed`, `lost`, `faults` are kept for the properties only.

### GitopsMain
The promise: each commit is a patch of the tip it lands on, and a call that
reports success tells the truth about a tip main had during the call, or at most
`Lag` commits before it. `GitopsDeploy` implements it with `Lag` = `CacheLag`
and `outcome` read off `result`.

### GitopsRevert
Calls of `Revert`, each with a pinned commit or `HEAD`, among deploys by others.
`git commit` refuses an empty commit. `why` records for each commit what it reverts.

### GitopsUndo
The promise of `Revert`, over `main` and what each call has returned: a commit of a call is its target undone in
the very tip it lands on (for `HEAD` that tip itself), never over a conflict and never empty, and success
means that one has just landed. A call may also land one and hear of it never or as an error. `GitopsRevert` implements it.

### ArgoCD
External: what `syncArgoCD` reads from an application (compared revision, Synced,
Healthy, operation phase) and causes in it. One sync operation runs at a time;
automated sync starts one when the compared revision is not live.

### Rollout
`deploy.Run` and `rollback.Run` on the remote path. The gitops write is one step, `WriteDeploy` or `WriteRollback`,
after any number of pushes that landed unheard (`WriteUnheard`: the write returned an error then, or went on
retrying; `MaxMain` bounds them). That is an abstraction, written after what `GitopsMain` and `GitopsUndo` promise; that the code keeps
these promises is what `GitopsDeploy` and `GitopsRevert` show. The waiting loop is in full: `FirstGet`, `Resolve`
(`argocdExpectedRevision`; only a deploy does it), `Loop`, `Kick`, `PostStarts` /
`PostIgnored`, `Poll`, `Fail`, `Timeout`. `Deployed` is `argocdApp.deployed` with
`hasDeploymentImages`.

### LoginOnce
`ensureECRLogin` and `ConfigureDockerAuth`: mutex, map of `sync.Once`, login inside
the Once, error read after it. `SharedErrs` tells the two apart: one Go map
of errors (docker) or a field beside each Once (gcp). A read or write of the
error is a step, and the thread is accessing the memory all the time it is at that step.

### SharedLogins
The promise: a registry answers one login, made when the first call gets to it, and the answer holds for every call.
A call goes past a registry that answered without error, and a refusal ends each call that comes to it, without another try.
`LoginOnce` implements it: mutex, map, Onces and the error variable are stutters.

### CloudService, LambdaAlias, EcsService, CloudRunTraffic, CloudPipelines
Overlapping pipeline runs against one service. `CloudService` holds what the templates
share: the versions made so far, the one that production is routed to (`route`, 0 for Cloud
Run's LATEST), the captured handle, the job's retries, `Verify` with its three verdicts, and
`RollBack`. What follows an error of the deploy differs: another attempt
(only the Lambda job has a Retry), a rollback, or the end. `LambdaAlias` is `DeployImage`, call by
call: `ReadAlias`, `PublishCode`, `ShiftAlias`, each of which may fail with or without effect;
publishing unchanged code makes no new version. `EcsService` is `ecs.Deploy`: `DescribeFamily` (the
newest task definition of the family, deployed or not), `RegisterRevision`, `UpdateService`,
`Stabilize`; what it captured is returned with its error, so a failed deploy is rolled back from
any of them. `CloudRunTraffic` is `cloudrun.Deploy` (`ReadPrior`,
`CreateRevision`, `DeployReturns`, `DeployFails`) and `RollbackToRevision`
(`ChooseRevision`, then `RollBack`); revisions become ready or fail by steps of the
service. What gcloud and aws do is external: traffic that names LATEST follows the newest ready
revision, and `--no-traffic` and `--to-revisions` end that for good.
`CloudPipelines` composes the three and states the properties.

### DbBackup, BackupDrill
Runs of `db-backup-restore-drill` and `scheduled-db-backup` with one destination. The content of a dump is
the run that made it; an archive is that and whether it is whole. A destination is a bucket, a directory, or, for a drill that
configures none, a temporary directory of the run's own (`Temp`). `DbBackup` is package `dbbackup`
step by step: `Dump` (the name is taken here, with the clock's resolution, unless `Filename` gives one),
delivery as a copy to its final name in two steps (`CreateCopy`, `FinishCopy`) or as an
`Upload` that is whole or not there, `Retry` (`execWithRetry`: attempts and context), `Fetch`, `Gunzip`
(the checksum), `Replay` (`ON_ERROR_STOP`: up to the first error) and `VerifyRestore`. `BackupDrill` puts
`services.With` around it: `StartContainer` (which may fail with the container created), `WaitReady`,
`SeedSource`, `MakeTemp` and its deferred `RemoveTemp`, the deferred `RemoveContainer`, `Report`; and the environment: the clock, `Cancel`, and
`Die`, after which nothing that was deferred runs. `halfStarted` and `unremoved` record what docker reported as failed and what could
not be removed; only properties read them. A dry run still dumps, downloads and verifies, as the code
does, and only prints uploads and replays.

### HealthProbe, KubeDeploy
`HealthProbe!Once` is one exchange of `probe.Check` and its verdict. `KubeDeploy` is a run of
`gke-deploy-gar-kubectl` (`Apply`, `SetImage`, `AwaitRollout`) or of `deploy.Run` with `Local`
(`Restart`, one deployment at a time), then `Probe` (the attempts of `Check`, and its
cancellation), `OnFailure` and `Undo`/`AwaitUndo` (`RolloutUndo`). A deployment is the list of its
ReplicaSets: kubectl brings an old one back as the newest instead of making an equal one. `RolloutUndo` ends at its first failure. `ResolveContext`
picks the cluster, or refuses; `Kubectl` separates a call's effect from its exit status.

### SavedPlan
`terraform-apply-gated`: `Prepare`, `WritePlan` (also when dry), `Approval`, `ApplyPlan`. A plan is
whose intent it is and the version of the state it was made on; terraform refuses one made on another version.
`Drift` is anybody else's apply. Runs may work in one directory and so share the plan file.

### ImagePush
`BuildAndPush`, `BuildxPublish` and the hand-over of `DockerDeploy`. An image is the run that built it. `daemon`
and `registry` say what is behind each name: `docker push` takes whatever has the name by now, which may be the
image of another run of the same commit.

### StaticSite
`StaticDeploy.Run` with `DeployStaticSite`: build, `Verified` (the chunk references of pages on the first two levels,
then the account), and the passes of the aws CLI, each of which lists once (`List`) and then transfers object by
object in any order (`Transfer`), until it ends or fails (`EndPass`).

### ReleaseTags, ReleaseAssets
`ReleaseTags` is the release-modules job in several clones: `VerifyClean`, `CheckTags`, `CreateTag`, `PushTags`
(one push, each tag taken or refused by itself), and what people do between attempts: `DeleteTags`,
`Pull`. `ReleaseAssets` is `github-release-go`: `Derive`, `CrossBuild` per platform, `Checksums` of whatever lies in the
directory, `GitHubRelease`.

### ContentKey
`OfPaths`, `SaltedGoPackage` and the predicate `Unchanged`, with the memoization they are made for: `TrackedFiles`, `OnDisk`,
`HashObjects` file by file, `Lookup`, `Work`; `Diff` for skipped nodes; `Edit` by somebody else. `GoDeps` is the closure that
`go list -deps` gives, within the module.

### Broken variants
Some modules define an operator marked "Broken variant" just before the definition it
varies: the same code with one plausible mistake (no `reset --hard`, a retry too many,
an unlocked map, pages before assets). No specification uses them. Putting one in the
place of the real definition has to break the property that `PROJECT.json`
pairs it with, which is how we know that the property depends on that code.

## 4. The runs

| Run | Shows | Bounds |
|---|---|---|
| `deploy` | `TypeOK`, `OkWasCarried`, `ExhaustedOnlyByConflict`, `LandsAgainOnlyIfNeeded`, `LandedReportsChanged`, `RefinesGitopsMain`, `EveryCallReturns` | two valid calls and one invalid; two images, one key; 3 attempts; cache 1 commit behind; 1 foreign commit; 1 fault per run of the loop |
| `deploy_stale_success` | **violated**: `OkCarriedSinceCall` | no faults, 2 attempts |
| `revert_and_login` | Of reverts `TypeOK`, `RevertsExactlyItsTarget`, `HeadRevertRestoresParent`, `PinnedRepeatsOnlyAfterReinstall`, `RefinesGitopsUndo`, `EveryCallReturns`; of logins `LoginTypeOK`, `LoginOncePerHost`, `OkMeansLoggedIn`, `RefinesSharedLogins`, `EveryLoginReturns` | one pinned and one HEAD call; 2 commits at first, others deploy up to 4; 1 fault; cache 1 behind; or three login calls, two registries in both orders, the error beside each Once |
| `revert_head_is_a_deploy` | **violated**: `RetriedHeadIsADeploy` | two HEAD calls, 3 attempts, no other writer and no fault |
| `rollout` | `AcceptedAtOrAfterWrite`, `AcceptedCommitCarriesTag`, `GoesBackOnlyToAWaitedRevision`, `DeploySettles` | a deploy and a rollback: of a new version and with a sync, or of the version that runs and without; both sync policies; 1 kick each; pushes land unheard while main has fewer than 3 commits |
| `rollback_settles` | **violated**: `RollbackSettles` | one rollback, 2 kicks |
| `login_ecr_race` | **violated**: `NoRace` | the login calls with docker's one map of errors |
| `cloud_preview_serves` | **violated**: `PreviewNeverServes` | the cloud runs of `operations` |
| `drill_containers` | **violated**: `EveryContainerRemoved` | the drills of `operations` |
| `terraform_shared_plan` | **violated**: `AppliedExactlyThePlanShown` | the terraform runs of `operations` |
| `kubectl_gke_undo` | **violated**: `GkeRollbackRestores` | the kubectl runs of `operations` |
| `operations`: cloud | `TypeOK`, `RollbackTargetReady`, `RollbackLeavesOwn`, `RollbackTargetServed`, `GreenServesUnlessTied` | two Lambda runs of two attempts each, two ECS runs, two Cloud Run runs of one template, or a preview next to one run or one of each template; two old versions |
| `operations`: drill | `PassMeansRestored`, `ReportedBackupStays`, `NothingLeftBehind` | a drill and a backup, to a directory or a bucket, under a fixed name or not; a backup and a drill that seeds its own database and has no destination; 2 tries of a transfer, two seconds of clock |
| `operations`: kubectl, terraform | `HealthyStays`, `RollbackRestores`; `AppliedWasApproved` | two runs each; two deployments with three ReplicaSets, 2 attempts of the probe; 3 changes of the terraform state |
| `operations`: images, site | `DeployedIsPublished`; `PagesAlwaysResolve`, `SuccessIsWhole` | three image builds; two publishers of four possible builds |
| `operations`: tags, assets | `ReleasedAtOneCommit`; `ReleaseVerifies` | two clones, two modules, two commits; three builds of two versions for two platforms |
| `operations`: cache | `ReuseMeansSameInputs` | two nodes, four files, two contents, 2 edits |

`operations` and `revert_and_login` put several components into one state space. They share nothing, so a variable `scenario`,
chosen in the initial state, says which of them a behaviour is about; the others stay at one initial state. The
number of states is the sum, not the product, and a behaviour of a scenario is a behaviour of that component alone.
`operations` has 983,394 distinct states from 60 initial ones and takes one to two minutes.
The types of `Rollout` and of the components of `operations` other than the cloud are no invariants of the runs, because they are theorems (section 6).

Why the bounds are enough. A call of `Deploy` or `Revert` reacts only to whether
main moved since its checkout, and to what the tip holds. One other call, one
foreign commit and one fault give every order of checkout, patch and push, a
retry after each kind of failure, and, with three attempts, running out.
`MaxMain` bounds only the *other* writers. A waiting `Rollout` call compares a status with
one revision; a second call and its commit are the only competition it can tell apart, and for a deploy a rollback is the
one that can take its tag away again. A third commit beyond the two at the start, landed unheard and followed by the call's next attempt,
puts a write between another's write and its wait. A second kick repeats the
first with the same pinned revision and the kick may be arbitrarily late, so one kick shows every
interleaving that a later kick could add to main's two writes: also the one in which a late kick, without automated sync, takes the
cluster from the other call's revision back to its own. A cloud
rollback chooses among the version captured, its own and whatever others made in between, so
two runs give each choice; the preview as a third makes discovery step over another's failed or unfinished revision. Runs of one
template are alike, so one assignment of templates to runs stands for its permutations.
A backup is overwritten, or a drill misled, by one other run of the same name at most, and the second try of a transfer already
follows a failure that had an effect. An undo looks at the newest two ReplicaSets; three old ones and two runs put
an own, a foreign and an old one there in any order. Two deployments are enough for one to be passed over. A terraform plan is spoiled by one planner or one drift. A publisher sees
others only through the objects present when it lists, and the four builds are those with a page dropped, an asset
dropped, a page unchecked and a broken reference. A tag that blocks, or is pushed late, needs one other clone and one other commit. One
earlier run of the same version and one of another leave everything a release directory can hold. A key is wrong through one
edit between two of its steps; two allow one for either node, or one while a node works and one between the nodes.
`CHECK_DEADLOCK FALSE` is in the configurations whose calls all return, after which nothing is left
to do. `operations` checks deadlock: `CloudPipelines` has a final stuttering step of its own, so there TLC also shows that no
run gets stuck, while the other scenarios may stop anywhere.

Some properties name an exception, and each of these is something the code does. Without the exception TLC finds it; where a doc of the
repository promises the case that is excepted, a run of its own shows that.

| Property | Exception |
|---|---|
| `ReportedBackupStays` | a drill without a destination removes its archive; of two runs that share a name the later one's content is kept, in a directory perhaps torn |
| `PassMeansRestored` | two runs that share a name; dry runs |
| `NothingLeftBehind` | a container whose `docker run` reported a failure (run `drill_containers`), partial files of a run that failed (against the changelog, see below), what `docker rm` or `os.RemoveAll` could not remove, all that a dead runner leaves |
| `AppliedWasApproved` | another run in the same directory (run `terraform_shared_plan`) |
| `RollbackRestores` | the GKE pipeline (run `kubectl_gke_undo`), a deployment that another run changed too, a restart and a rollback that reach different clusters |
| `GoesBackOnlyToAWaitedRevision` | none, but it says how far back: a repeated kick may undo what others rolled out since |
| `PagesAlwaysResolve` | nested pages are not checked; a publisher that deletes takes away what another's pages need |
| `ReleaseVerifies` | a directory shared while building |
| `ReuseMeansSameInputs` | edits during a step, untracked and quoted names |
| `RollbackTargetServed` | revisions of others registered and never deployed |
| `GreenServesUnlessTied` | traffic no longer on LATEST |

Eight runs show the code departing from what its comments and docs say:

- **deploy_stale_success.** The first attempt compares against the clone, and the
  gitcache may have served an old one. If that old tree carries the tag, `Deploy` logs
  "tags already up to date" and returns success while main has carried another tag
  since before the call. The comment on the re-pointed origin protects only retries.
- **revert_head_is_a_deploy.** `HEAD`, "the most recent deploy", is resolved again on
  each attempt. Two rollbacks have cloned the bad deploy; the first lands, the second is rejected, fetches and goes round again,
  where `HEAD` is the first one's revert: it reverts that and reinstalls the bad version. (Two rollbacks of `HEAD` one after the
  other do the same, but there the second caller asked for it.)
- **rollback_settles.** `SyncArgoCD` has no expected revision and waits for one that
  differs from its first GET, but that GET comes after the push. If ArgoCD
  already compared the revert by then, nothing new ever comes and the rollback
  runs into its deadline although it was rolled out.
- **login_ecr_race.** `ecrLoginErrs` is written inside one registry's Once and read by
  a build of another registry, with no lock: a Go map race in a function
  documented as safe for concurrent use.
- **cloud_preview_serves.** `PriorRevision` is the latest *ready* revision, and so is what discovery
  finds; neither need serve. A preview is ready, so the next production deploy that is rolled back
  puts the preview into production, where "with NoTraffic it never serves".
- **drill_containers.** `services.With` "always force-removes the container", but it defers that only after `docker run` has
  succeeded. A `docker run` that creates the container and then fails, or is cancelled, leaves it.
- **terraform_shared_plan.** The saved plan is meant to close the window between what was approved and what runs. Its name is fixed, so two runs
  in one directory share it, and the run that was approved first applies the plan that the other has put there since.
- **kubectl_gke_undo.** `kube.Apply` resets the image to the manifest's before `SetImage`, so a rollout makes two ReplicaSets when neither image
  runs yet. `RolloutUndo` takes back one of them and ends at the manifest's image, where the docs say that it rolls back to the tag before.

Met on the way and not made into runs:

- Deploying a preview, or rolling back, takes a Cloud Run service off LATEST. No later deploy asks for it again (`Traffic` with
  `ToLatest` would, but no template calls it), so production deploys go green, the probe being answered by the old
  revision, and do not serve. `docker-deploy-gar-cloudrun` rolls back also when the deploy
  failed before it created a revision, and discovery then steps over the good newest revision.
- A Lambda deploy repeated after a shift that landed unheard captures its own version
  (the exception in `RollbackLeavesOwn`).
- The ECS template rolls back also when the deploy never reached the service update, and may go to a revision that never served:
  the newest of the family, which another run has only registered.
- After a `kube.Apply` that failed and changed nothing, the GKE pipeline's `RolloutUndo` goes back further than the run began.
- The removal of a scratch file is deferred only after the step that writes it has succeeded (`dbbackup.go`), so a dump, a compression,
  a download or a decompression that fails leaves its partial output, where the changelog of `dbbackup` says that scratch files are
  "always cleaned up". `NothingLeftBehind` asks only a run that succeeds to leave none.
- The scheduled backup and the drill keep nothing of a drill without `backup_dest`: the archive it reports is gone when it ends, and
  stays in the temporary directory only when its runner dies or the removal fails.
- Without automated sync a deploy's repeated kicks go on pinning the revision it resolved first, and so undo what another call has
  rolled out meanwhile, until the deploy has seen its revision or runs out of time.
- A probe that expects 401 or 403 can never be healthy, because these are indeterminate before they are compared (`probe.go`, `once`).
- `deploy.Run` with `Local` ignores the context that `rollback.Run` takes (`DeployKubectl` passes none).
- A `dbbackup.Restore` onto a database that is not empty fails at the first `CREATE`, since psql stops at errors and
  the dump does not drop; a dry `Dump` to a bucket returns a URI that was never uploaded; a dry drill that does not count rows passes
  having restored nothing.
- Publishers with `Delete` that overlap break each other's pages, and a page nested deeper than two levels is not checked.
- `DockerDeploy` with `Registry` deploys an ECR name although the push went elsewhere.
- Names outside ASCII drop out of content keys (`git ls-files` quotes them); untracked Go files and what is not Go source (`go.mod`,
  assembly) are in no key either.
- The container that builds a static site is removed with the context of the run (`static_deploy.go`), so a cancelled build may leave it.
- `Deploy` and `Revert` set `changed` before the
  push and never take it back, so `changed` may be true though nothing was pushed
  (`gitops.go:143`, `revert.go:85`); and `rollback.Run` without an application name
  logs "nothing reverted" after it has pushed a revert (`rollback.go:55`), because `Revert` never
  returns false without an error.

## 5. Fairness

A call that has begun is a running goroutine, so its next step is weakly fair
(`WF_vars(pc[d] # "idle" /\ Advance(d))`); whether a call begins, fails or is beaten is
left open. The disjunction `Advance` contains `Fail`, so fairness promises that
something happens, not that it succeeds. `EveryCallReturns` does not lean on the bounds
of the environment: `Retry` counts down whatever main does, and a variant
that repeats the push without counting breaks it. How much of it is fairness is proved: the theorems `CallsAreBounded` show that a call of
`Deploy` has at most `4 * MaxRetries + 2` steps, one of `Revert` `4 * MaxRetries + 1`, and that nobody else can set it back;
what is left is that a running goroutine goes on running.
In `Rollout` the controller is fair too: it refreshes, syncs when automated, and
an operation that is retried for ever succeeds at some time (strong fairness), or the
property's escape (`phase = "Failed"`) holds. `Timeout` is *not* fair: the
4 minute deadline would make `DeploySettles` hold of any loop. In `LoginOnce`, Go's mutex does not
starve a waiter, hence strong fairness on `Lock`. There `NoDeadlock` and `CallsAreBounded` show that some call can go on as long as one has
not returned, and that steps run out; so all calls return if only somebody moves whenever somebody can. `RevertLogin` repeats the fairness of
`GitopsRevert` and `LoginOnce`, each for its own scenario. `operations` states no liveness property and assumes no fairness: its runs may be
cancelled, may die or stop anywhere.

## 6. Proofs

All are for any values of the constants: any number of callers, versions, retries, faults and edits. They start from the named
assumptions (`ASSUME`) of the modules. A component that is instantiated beside others takes its settings as a parameter of its
initial states; there the theorem is about every set of settings, under the hypotheses named here, all of which the
settings of the runs satisfy.

| Module | Theorem | States |
|---|---|---|
| `GitopsDeploy_proofs` | `TypeCorrect` | `Spec => []TypeOK` |
| | `Inductive` | `Spec => []IInv` |
| | `SuccessIsCarried` | `Spec => []OkWasCarried` |
| | `FreshSuccessIsCarried` | with `CacheLag = 0`, `Spec => []OkCarriedSinceCall`: what run `deploy_stale_success` refutes is due to the cache alone |
| | `ExhaustionIsConflict` | `Spec => []ExhaustedOnlyByConflict` |
| | `LandsAgainForCause` | `Spec => []LandsAgainOnlyIfNeeded` |
| | `LandingIsReported` | `Spec => []LandedReportsChanged` |
| | `Refinement` | `Spec => RefinesGitopsMain` |
| | `CallsAreBounded` | `Spec => []Countdown /\ [][External \/ \E d : Nearer(d)]_vars`: a call has at most `4 * MaxRetries + 2` steps before it, and each step of one call brings it nearer its end and sets no other back |
| `GitopsRevert_proofs` | `TypeCorrect` | `Spec => []TypeOK` |
| | `RevertsAreExact` | `Spec => []RevertsExactlyItsTarget` |
| | `HeadRevertIsUndo` | `Spec => []HeadRevertRestoresParent` |
| | `RepeatsOnlyReinstalled` | `Spec => []PinnedRepeatsOnlyAfterReinstall` |
| | `Refinement` | `Spec => RefinesGitopsUndo` |
| | `PinnedCallsRevertDeploys` | if every call pins its commit, `Spec => []HeadIsADeploy` (no commit on main reverts a revert): what run `revert_head_is_a_deploy` shows is due to `HEAD` |
| | `LoneCallRevertsADeploy` | for a single call whose pushes are all answered (`MaxFaults = 0`), `Spec => []HeadIsADeploy`, with `HEAD` too |
| | `CallsAreBounded` | the same as for `Deploy`, with `4 * MaxRetries + 1` steps |
| `Rollout_proofs` | `TypeCorrect` | `Spec => []TypeOK` |
| | `SuccessNotBeforeWrite` | `Spec => []AcceptedAtOrAfterWrite` |
| | `SuccessCarriesTags` | `Spec => []AcceptedCommitCarriesTag` |
| | `SetBackOnlyByAWaiter` | `Spec => GoesBackOnlyToAWaitedRevision` |
| `LoginOnce_proofs` | `TypeCorrect` | `LoginSpec => []LoginTypeOK` |
| | `OneLogin` | `LoginSpec => []LoginOncePerHost` |
| | `ErrorsDoNotRace` | with `SharedErrs = FALSE`, `LoginSpec => []NoRace`: what run `login_ecr_race` refutes is due to the one map alone |
| | `BuildsLoggedIn` | `LoginSpec => []OkMeansLoggedIn` |
| | `Refinement` | `LoginSpec => RefinesSharedLogins` |
| | `NoDeadlock` | `LoginSpec => []NobodyStuck`: as long as a call has not returned, some call can move |
| | `CallsAreBounded` | `LoginSpec => []Countdown /\ [][\E t : Nearer(t)]_loginVars` |
| `CloudPipelines_proofs` | `TypeCorrect` | `Spec => []TypeOK` |
| | `RollsBackToReady` | `Spec => []RollbackTargetReady` |
| | `RollsBackPastOwn` | `Spec => []RollbackLeavesOwn` |
| | `RollsBackToServed` | `Spec => []RollbackTargetServed` |
| | `GreenHasServed` | `Spec => []GreenServesUnlessTied` |
| `Recovery_proofs` | `ApprovedInOwnDirectory` | `PlanSpec(places) => [](PlanTypeOK /\ AppliedWasApproved)`, for any ways to place the runs |
| | `WellIsLeftAlone` | `KubeSpec(settings, past) => []HealthyStays`, for any runs and any past |
| | `RollbackBringsBack`, `KubeTypeCorrect` | `KubeSpec(settings, past) => []RollbackRestores`, and `[]KubeTypeOK`; `KubeSettings`: images are strings, contexts clusters or none, and the past is not empty |
| | `DrillTypeCorrect` | `DrillSpec(settings) => []DrillTypeOK`, here and below for any `settings` among `[Run -> Settings]` |
| | `PassedIsRestored` | `DrillSpec(settings) => []PassMeansRestored` |
| | `BackupStays` | `DrillSpec(settings) => []ReportedBackupStays` |
| | `NothingStays` | `DrillSpec(settings) => []NothingLeftBehind` |
| `Publication_proofs` | `SiteTypeCorrect` | `SiteSpec(settings, first) => []SiteTypeOK`, the site that is there being one of `Builds` |
| | `PagesResolve` | `SiteSpec(settings, first) => []PagesAlwaysResolve`, if its references resolve and no page refers to an asset that is excluded from upload |
| | `WholeSite` | `SiteSpec(settings, first) => []SuccessIsWhole`, if no page refers to an asset that is excluded from upload |
| | `ImageTypeCorrect`, `DeployedPublished` | `ImageSpec(settings) => []ImageTypeOK`, `[]DeployedIsPublished`; `ImageOrders`: lists of registries, and an `ecr` that is one |
| | `KeyTypeCorrect`, `ReuseIsSound` | `KeySpec(settings, files, index) => []KeyTypeOK`, `[]ReuseMeansSameInputs`, for any nodes, working tree and index |
| `Release_proofs` | `TagsInductive` | `TagSpec => []TagInv` |
| | `ReleaseIsCoordinated` | `TagSpec => []ReleasedAtOneCommit` |
| | `AssetTypeCorrect`, `ReleaseChecksOut` | `AssetSpec(settings) => []AssetTypeOK`, `[]ReleaseVerifies` |

`GitopsDeploy`. None of the properties is inductive: that a push loses nobody's update
depends on what the checkout holds when the push is attempted. `IInv` says for each call
that, before patching, `tree` is `main[base]`, and from the commit on it is `main[base]`
patched and different from it; that `attempt` is paid for by commits that landed after the clone or by
faults; that every landed commit is reported in `changed`; and that every success
has a commit at or after `cloned` that carries the tag. Two lemmas keep the proof
short: `Growth` (no step takes a commit off main, so what was true of a position stays
true) and `Frame` (a step of one call leaves the others' variables alone), which together
give `Stable`: a call's part of `IInv` survives everybody else's steps. `OwnStep` then has one
case per action. For `LandsAgainForCause`, `LandingInv` adds that each commit of a call is a patch of its predecessor and differs from it: the later of two wrote
an entry that was not at the tag, and if that is an image's, the earlier one had set it. For the refinement, initial states map to initial states, a push that lands at
its base maps to `Install` (because then `Tip(main) = main[base]`), finding nothing to do maps to
`Confirm`, errors to `Refuse`, and the rest stutters. For `CallsAreBounded`, `StepsLeft` is a number that every step of the call makes smaller
(`NearerStep`): four for each attempt left and what is ahead in the present one.

`GitopsRevert`. `RevertInv` adds what is in the checkout: before the revert `main[base]`, from then on `main[base]` with the commit `aim`
undone, `aim` being on main at or before `base`. A push lands only when `base` is the tip, so its commit is its predecessor undone; for
`HEAD` the target is that predecessor, and undoing a commit in its own tree gives its parent (`UndoneTipIsParent`). `Undone` names the
history it undoes in, so that "undone in the old main" and "in the grown main" can be compared (`UndoneStays`).
`AppliedInv` adds what the refinement needs: a call that is about to commit met no conflict in its base, and what it is about to push is not that
base. With the two together (`CallInv`), a push that lands maps to `Undo` (`Undoing`: the base is then the tip), every error return to
`Refuse`, and what happens in the clone stutters.
For `HeadIsADeploy`, `CausesInv` says whose each revert on main is: main begins with deploys, a revert is some call's, and a pinned call has reverted what it pins.
That a pinned revert is repeated only after a reinstall compares two landings of one call, and neither is a fact about the present checkout.
`PinnedInv` therefore says, of every landed commit of such a call, that it holds nothing of what the target installed while its parent held some
of it (`EffectOfUndoing`: there was no conflict and the commit is not empty). Of two landings, the parent of the later one holds
something the earlier does not, so somebody put it back in between.

`Rollout`. A call is told of success by a status it has read, which may be old. `RolloutInv` says of the controller that what it compared, and what an
automated operation installs, is never behind what runs (`NeverBehind`); of a call that has kicked, that
the controller has compared a revision since its write; and of a waiting deploy, that the revision it expects is at or after its write
(`Knows`). `Trusted` is the part that needs care: a status that shows a deploy's images rolled out shows a commit that carries them, however long
ago it was read, because commits stay where they are (`MainGrows`).
For `SetBackOnlyByAWaiter`, `HasWritten` ties what a call expects to the commit it wrote, and `Pinned` says of an operation that installs
something behind what runs that some deploy waits for just that revision: automated operations and kicks without a revision ask for what main
or the comparison shows last, and a deploy goes on expecting what it once resolved.

`LoginOnce`. `OnceInv` says for each thread where it is (`AtPlace`: it has the mutex, a registry to go to, the Once that the map has, and how far
the login under it is), for each registry that only the Once in the map was ever used and how often it ran (`OnceOf`), and that one
thread is inside it (`Alone`). `MutexExcludes` and `OnceExcludes` are the two exclusions. A reader of an error is past the Once and a writer inside it, so with
one error per Once they do not meet. `LoginsInv` adds that the registries a thread has behind it, the
part of its list before `todo`, have answered without error (`LoggedInBehind`), which stays so because there is no second login (`AnswerStays`). In the refinement `Login` is `Authenticate`, `ReadErr` is `Pass` or
`GiveUp`: the error read is the answer, since the reader is past the Once. `Attended` is for `NoDeadlock`: a held mutex has a holder on its way to the
Unlock, and a Once that runs has a thread in it, which waits for nobody.

`CloudPipelines`. `CloudInv` has a part about the service (`ServiceInv`: what traffic reaches is ready and has served, and the newest version
beyond the old ones was made by a run), one that tells runs apart (`Apart`: no version is of two of them), and for each run what its place in the code says: what it has captured and
chosen (`PlaceInv`), what is known of these versions (`VersionsInv`: a handle is ready, and not the run's own unless a shift landed unheard), and what its deploy has
brought about before `Verify` (`DeployedInv`). The choice of a rollback is the handle but for discovery, which takes the largest ready revision below its own;
`Max` is a `CHOOSE`, and that what it chooses exists is shown from the well-foundedness of `<` (`MaxFacts`).
The proof uses that a behaviour is about one platform (`CloudAssumption`).

`SavedPlan`. `FilesInPlace`: the file of a directory is a plan of a run that works there. `FileIsShown`: from its plan on, a run's file holds
what its approver saw, or what another has put there. A run with a directory of its own is left with the first.

`KubeDeploy`. `VerdictInv`: a run that decides after its probe has the verdict of the application itself, or has none to go by; that is what keeps
`OnFailure` from undoing something healthy. `UndoInv` counts changes: unmoved since a run began, a deployment runs the template it then ran
(`before`); moved once, that template is the second newest ReplicaSet (`Moved`). So an undo that is the second change of a deployment ends at
`before` (`UndoneBack`). `LocalInv` follows the two loops of a run through `todo`: past its restarts every deployment has moved, and those that its
rollback has behind it have been brought back (`Restarted`, `Undone`), since the loop goes on only past an undo that took effect. Counts only
grow (`Grows`), so other runs' steps can add to the exempt and take nothing back. The lemma behind it (`ReviseStep`) is about kubectl's list of
ReplicaSets, in which a template that comes back is taken out and put at the end.

`BackupDrill`. `DrillInv` says for each run which names are its own (`NameInv`), what is under its name in the store (`StoreInv`), what it holds, what
is in its target database, and what it has yet to remove. Most of this is about runs that do not share a name, and `Unshared` is not a fact about
one run. `OthersKeep` is the lemma that makes it work: whoever takes a name had none, so once a run's name is shared it stays so, and a run whose
name is not shared never had its file touched; and whatever is put under a name in a bucket is whole. `DistinctNames` keeps the temporary
directory of one run apart from all others. `LeftInv` with `Pending` ties each container, and with `InUse` each temporary archive, to the step
that will remove it, or to a run that died, a `docker run` that failed or a removal that failed (`Excused`).

`StaticSite`. `TransfersInv` says what each pass may transfer. As long as nobody else writes (`alone`), `AloneInv` follows the publisher: after each pass
what it was for is done, up to the transfers left. Without deletes, `KeptInv` says that whatever any publisher has uploaded
is still there, so the pages, which follow the assets, always find them.

`ImagePush`. `NamedSo`: whatever a name leads to, in the daemon or in a registry, was built under that name, though perhaps by another run.
`PusherInv`: a name a run has behind it has been pushed, and stays pushed.

`ContentKey`. A key is compared with the *graph* of the inputs (pairs of file and content). `PartsInv`: as long as nobody edits during its steps, a node's parts
are the graph of its inputs, as far as it has hashed. `StoredInv`: so are the keys of sure results, and two functions with one graph are one (`SameGraph`).

`ReleaseTags`. `AtHead`: the tags a job has created are at the commit it is at, all of them when it pushes, and origin has them when it is done; a
finished clone does not move, and origin never moves a tag.

`ReleaseAssets`. `OwnArtifacts`: as long as no other run has written the directory, the artifacts up to the present platform are the run's own, and so are then
the lines of the manifest.

Each of these invariants also holds, by TLC, in every state of the run of its component. Some things were corrected because a proof failed. The verdict of `HealthProbe!Once` was a `CASE` with overlapping guards, which
leaves the choice open where the code has an order; it is now the code's chain of conditions. And the cloud models assumed without
saying so that a behaviour is about one platform; `CloudPlatforms` states it. In `Rollout` a rollback could report success with nothing to commit, which
`Revert` never does, and a write whose push had landed unheard could only end in an error, where the loop may also retry and land
a second commit.

Only model-checked:

- liveness (`EveryCallReturns`, `EveryLoginReturns` and `DeploySettles`), since the prover handles neither fairness nor `ENABLED`. The step
  bounds above are the part of the first two that it does handle; `DeploySettles` depends on the fairness of the controller throughout;
- that no run of `CloudPipelines` gets stuck (TLC's deadlock check in `operations`).

Everything else that a passing run checks is a theorem. The types of the components that share a run are proved one by one: `DrillTypeOK`, `KubeTypeOK`,
`PlanTypeOK`, `SiteTypeOK`, `ImageTypeOK`, `KeyTypeOK`, `AssetTypeOK`; `TagTypeOK` is part of `TagInv`.

## 7. Assumptions and limits

- Each call of `Deploy` and `Revert` has a checkout of its own, that is, calls of one kind run on
  different hosts or after one another. The code's comment ("not reentrant") says the same.
- After the clone, `origin` is upstream (`pushTransport` returned a URL or the cache is not used).
- Nobody force-pushes main.
- `Rollout` models rollbacks of `HEAD`, the default. A write is one step there, not shown to refine anything; it finds main as it is when it lands: that `Deploy` may confirm a tag on an older tip
  is in `GitopsMain`, and a pinned commit in `GitopsUndo`.
- A behaviour of the cloud models is about one service on one platform (`CloudAssumption`). In them a version is never taken away again, health is whatever `Verify` says, and `aws` and
  `gcloud` behave as described under the modules. `Traffic` and `RemoveTag`, which no template calls, and staging a
  Lambda archive in S3 are left out.
- Objects of a store appear whole or not at all, and reads see the last write; a local copy does not.
- Two runs never get one temporary directory from `os.MkdirTemp`; removing it may fail, which the code ignores.
- A dump that `pg_dump` reports as done is whole, and a partial or mixed gzip file fails its checksum.
- `kubectl apply` changes the first deployment only, which is all that the GKE template's manifest has. ReplicaSets are never
  pruned (`revisionHistoryLimit`).
- Asset names carry a hash of their content, which is what Next.js gives them.
- git never moves a tag without force, on either side; nobody deletes tags on origin.
- Two files with one content have one hash, and two contents never do.
- Picking one source of a multi-source application and finding the ArgoCD server are
  decisions on one response and are left out.
- Log lines, messages and command-line wording are left out.

Not modelled: the components with status `not_modelled` in `PROJECT.json`, with the
reason there: they keep no state between calls (`aws`, `step`, `notify`, `checks`, `coverage`, the lint jobs), run one tool once (`migrate`), or
transform text (`templates`).
