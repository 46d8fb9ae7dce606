# Specifications of octorules

octorules keeps the rules of DNS/CDN/WAF zones in YAML files. `plan` compares the files with
what a provider holds, `sync` plans again and makes the provider follow; `lint` and `audit`
check the files, `dump` writes them. This directory holds TLA+ models of these commands, TLC
configurations that check them on small instances, and TLAPS proofs, for instances of any size,
of nearly every safety property that is checked.

Contents: 1 the system, 2 the models, 3 the runs, 4 fairness, 5 the proofs, 6 where code and
documentation part, 7 what is not modelled, 8 the plan.

## 1. The system

Source paths are relative to `src/octorules/`.

| component | state it keeps | operations | what makes it correct |
|---|---|---|---|
| rule-list planner (`planner.py`) | none: pure functions on lists of rules | normalise, filter by target, diff a phase or ruleset, build the payload, list what a write would do beyond the plan, count changes against thresholds, digest a plan | the changes shown are the changes made, though the write replaces the whole list; a second plan is empty; ignored rules stay as they are |
| list and ruleset planner (`planner.py`) | none | diff lists by item identity, diff rulesets by name, creates and deletes | nothing the file does not own is deleted |
| plan (`commands/_plan.py`) | plans per zone and target, failed zones, account plan | plan zones on a pool, plan accounts beside them, fetch lists and rulesets in the background | data that could not be read is never taken for data that is not there |
| sync (`commands/_sync.py`) | plans, results, audit log | gates, apply scopes, within a scope lists, extensions, rulesets, phases | no write past a closed gate; exit code and log tell what happened |
| task pool (`provider/utils.py`, `commands/_helpers.py`) | futures, first error, successes | run the calls of a stage in parallel or in sequence, cancel on auth errors, run stages in order | no call of a stage before the one before is complete, no result lost, nothing runs after the return |
| parallel fetch, retry (`provider/utils.py`, `retry.py`) | futures, attempts | fetch with a time limit, retry with growing delays | a late or failed fetch is reported as failed; bounded attempts |
| change filters (`processor/filters.py`) | the blocked types, phases or refs | thin out desired rules or planned changes | a hidden change is not made behind the reader's back |
| extensions (`extensions.py`) | registries, prefetched contexts | prefetch, finalize, apply, validate, audit hooks; settings framework | errors of plan and sync hooks are fatal, executors are shut down |
| providers, discovery (`commands/_providers.py`) | provider objects | load the providers' packages, check the targets, discover zones, resolve ids in parallel | each zone goes to its own resource at its own provider, and no two providers share a section |
| configuration (`config.py`, `secret/`) | zones with their ids, rules files read so far | parse, expand the template, read and normalise rules files | ids of targets do not mix; every section of a file is somebody's |
| phase registry (`phases.py`, `registration.py`) | phases by name and id, namespaces | register a batch, look up | a batch that clashes is refused whole |
| dump (`dumper.py`, `commands/_dump.py`) | none | export live rules, group sections by namespace | what dump writes, the loader reads back |
| lint (`linter/`, `commands/_lint.py`) | per file: findings, suppressed findings, directives without effect | plugins, core checks, filters, suppressions, exit code | a green lint is a file plan can work with; a comment hides what it stands at |
| audit (`audit.py`, `commands/_audit.py`, `_cdn_sources.py`) | what rules match, findings, CDN ranges | extract, overlaps, shadowed rules, CDN ranges, drift, accept, exit code | no address falls out of the checks, every overlap is found, green means accounted for |
| rest (`cli.py`, `manager.py`, `formatter.py`, `plan_output.py`, `expression.py`, ...) | none | arguments, rendering, text normalisation | |

How they interact: `cmd_sync` builds providers and one shared executor and calls
`_plan_all_scopes`. Zones are planned on the executor, accounts on threads of their own;
each fetches through the provider and calls the planner. The plans pass the gates of
`_cmd_sync_inner` (failed zones, outputs, checksum, thresholds). `_apply_zone_changes` hands
every scope with changes to the same executor; within a scope `_apply_single_zone` runs
its stages one after the other, each on a pool made by `apply_parallel`. There is no lock:
threads share the futures, the plan objects (ids assigned by creates are read by later
stages) and the provider. Nothing is persisted between runs except at the provider.

Before that, every command goes through the same setup: parse the config, import the
providers' packages (which register phases and namespaces), check the targets, expand the
zone template, resolve ids. A `Manager` keeps the resulting Config for all its calls. A rules
file of several providers is read by each through its own view. `lint` must foretell what
`plan` refuses; `audit` and `lint` share the way comments attach to rules.

What is hard: results in any order, exceptions that leave a caller while calls are queued,
cancellation racing the workers, whole-list writes that do more than the diff
says, rules hidden from the plan (ignored, filtered, without a ref, meant for another
target), failed fetches that look like empty data, partial failures and reruns, the time
between review and sync, sections and ids that could end up with the wrong provider, and
findings that a filter, a comment or a crash could make disappear.

## 2. The models

| module | models | composed of / refines |
|---|---|---|
| `RuleDiff` | the diff of one rule list, as operators | |
| `RuleListOwner` | abstract: each list is replaced as a whole by the one its file declares | |
| `ZonePhases` | plan and sync of the phases of a zone, failures, reruns, outside edits | extends `RuleDiff`, implements `RuleListOwner` (`ReplacesWholeLists`) |
| `ZonePhasesProofs` | proofs about `RuleDiff`, `ZonePhases` and `PlanChecksum` | extends `ZonePhases`, `PlanChecksum` |
| `AccountSync` | lists, custom rulesets and the phase that refers to them | |
| `AccountSyncProofs` | proofs about `AccountSync` | extends `AccountSync` |
| `StageContract` | abstract: what applying the stages of a plan promises | |
| `TaskPool` | `_run_staged_tasks` and `apply_parallel` | implements `StageContract` (`KeepsContract`) |
| `TaskPoolProofs` | proofs about `TaskPool` | extends `TaskPool` |
| `SyncRun` | one `cmd_sync` over zones and account | |
| `SyncRunProofs` | proofs about `SyncRun` | extends `SyncRun` |
| `PlanFetch` | the fetches of one scope: phases, extensions, background | |
| `PlanFetchProofs` | proofs about `PlanFetch` | extends `PlanFetch` |
| `PlanChecksum` | `plan --checksum`, edits, `sync --checksum` | extends `RuleDiff` |
| `AuditSweep` | the overlap check of one zone, step by step | |
| `Directives` | the comments that waive findings and the two scanners that attach them | |
| `AuditRun` | one `cmd_audit`: extraction, checks, acceptances, exit code | extends `AuditSweep`, `Directives`; its steps are steps of the sweep (`KeepsSweep`) |
| `AuditProofs` | proofs about `AuditSweep`, `Directives`' scan of acceptances and `AuditRun` | extends `AuditRun` |
| `LintRun` | one `cmd_lint`: plugins, core checks, filters, suppressions, exit code | extends `Directives` |
| `LintProofs` | proofs about `Directives`' scan of `disable` comments and `LintRun` | extends `LintRun` |
| `ZoneFile` | the sections of a rules file: loader, provider view, strict check, dump | |
| `ZoneSetup` | config, providers, discovery, ids, then plan or dump, call after call | extends `ZoneFile` |
| `ZoneSetupProofs` | proofs about `ZoneFile` and `ZoneSetup` | extends `ZoneSetup` |
| `MC*` | instances for TLC | |

### RuleDiff and ZonePhases

A rule is `[ref, body, form]`. A body stands for everything `normalize_rule` compares; the
form tells the file's spelling from the API's, so that a diff that forgets to normalise is
visible. File rules carry `ignored` (`_is_ignored`) and `targeted` (whether
`filter_by_target` lets them through). Live rules may have no ref and refs may repeat, as
`_rules_by_ref` allows for. The operators bear the names of the functions.

`ZonePhases` has the rules file and the options as constants of a behaviour (`file`,
`selected`, `exclude`, `force`), the provider as `live`, and the state of a run: `fetched`,
`plans`, `todo`, `broken`, `pc`. Actions and code: `Plan` is `_plan_single_zone` with any
subset of the phases failing to be read, `PlanFails` its failure as a whole, `CheckPlan` the
tests of `_cmd_sync_inner` on changes and thresholds, `StartWrites` the refusal by
`_unplanned_writes`, `WritePhase` and `FailPhase` one `put_phase_rules`, which may store
the list and lose the answer, `FinishWrites` the verdict, `Rerun` the command once more,
`Drift` an edit by somebody else. After a failure any subset of the other puts may be
skipped: the sequential path skips all that follow, the parallel one none, and an auth error
those it cancels in time. `TaskPool` has the exact rules. `FailUnseen` is a put whose error has
no text: the pool takes it for a success (`provider/utils.py:252`, `270`), nothing is skipped,
and `unseen` keeps the phase for the properties to name.

### AccountSync

The provider is `lists`, `rulesets` and `refs`, the names the phase mentions. A plan is a
set of tasks; `Stages` is the order of `_apply_single_zone`, `_apply_lists` and
`_apply_custom_rulesets`. A new ruleset is created and filled by one task, which may fail
in between. A failed background fetch is planned on as "there are none"
(`_future_result_or_default`); a create then meets a name that is taken and is refused.
The files considered are consistent: the phase refers to what the file declares or leaves
alone. Contents are whole values, item identity is not modelled.

`FailUnseen` is a call that fails without an error text, or a create that answers without an id
(`_sync.py:233`): the stages go on as if it were done, and `unseen` remembers the task. A list
without a description is sent with an empty one (`Sent`, `_sync.py:231`, `283`), which the next
plan compares with the file's `None` (`planner.py:1359`) and plans to change, to the empty text
again: `Repeats` is that task, the one planning never gets rid of.

### TaskPool

`st[t]` is what has become of call `t`, `seen`, `successes` and `failure` are the locals of
`apply_parallel`, `synced` that of `_run_staged_tasks`. `Call` is the sequential path, `Start` a
worker thread, `Finish` the return of a call, `Collect*` the loop over `as_completed`, `Cancel` one
step of the cancel loop, `Join` leaving the executor, `EndStage` the return and the step to the next
stage. Calls end as `ok`, `error` (ProviderError or TimeoutError), `silent` (the same with an empty
text), `auth` or `crash` (anything else). `workers` is `provider.max_workers`, any of
`WorkerLimits`. `Taken` are the outcomes the code takes for success: it tests the error text for
truth, so `silent` is one of them (section 6).

### SyncRun

Scopes are the zones in order and the account after them. Applying a scope is reduced to "its calls
reach the provider" (`Write`) and an outcome (`Finish`); what it does in detail is the business of
the modules above; `unseen` is the outcome of a scope with a failure that had no text, which result,
exit code and log take for `ok`. `Start` follows the executor: the first scope that waits, also
while the caller is already leaving. `Shutdown` is the `finally` of `cmd_sync`.

### PlanFetch

`st[j]` is what has become of job `j`, a prefetch of an extension, a phase, or a background
fetch; each kind has its executor. The caller goes through `_plan_account` (a zone is the
case without background fetches): `Submit`, `CollectHook` and `LeavePool` are
`call_plan_zone_prefetch`, `CollectFetch`, `CollectFetchError` and `Cancel` are
`fetch_parallel`, the helper providers build `get_all_phase_rules` with, `JoinBackground`
and `JoinRaises` are `_future_result_or_default`, whose 120 seconds may be over while a job
is queued or running, `Finalize` is `call_plan_zone_finalize`, `Shutdown` the `finally`.
A prefetch that raises does so before the `try`, so that the background fetches go on after
the return: `QuietAfterReturn` says that this is the only case. The time limit of
`fetch_parallel` has no action, since `as_completed` yields futures that are done.

### PlanChecksum

The digest is the set of serialised changes. `ShownNow` is what a reader of a plan sees.
`fileNow` is the file's list as `plan` and `sync` find it, filtered and validated, `liveNow` the
list at the provider, `toSend` the payload. The names differ from those of `ZonePhases`
because one module has the proofs about both, and one run checks both (`MCZoneDiff`: one of the
two is at work while the other rests).

### AuditSweep, Directives and AuditRun

A network is a pair of first and last address; CIDR networks nest or are disjoint
(`NetsAssumption`). `Pop` and `Visit` are the inner and the outer loop of
`check_ip_overlap`, `hits` its findings as pairs of places in the sorted `entries`. The code's
sort is stable and looks at ranges only, so equal ranges stay in the order they were extracted
in: `Place` gives that order, and `Sorted` puts each entry at its rank.

A line of a file is what the scanners' patterns see in it: a directive's names, a rule's ref,
a list's name, blank or not. `DisableStep` and `AcceptStep` are one turn of the loops of
`linter/suppressions.py` and of `audit.py`; `Disabling` and `Accepting` are the scans, functions
from the number of lines read to what is known after them.

`AuditRun` goes through `cmd_audit`: `Extract` takes one file after the other
(`audit_zone_rules`, with extensions that crash on any section), `BeginSweep`, `Sweep` and
`EndSweep` are the overlap check of a file, `Shadow`, `FetchCdnRanges`, `CheckCdn` and
`CheckDrift` the other checks, `Accept` the comments (`apply_audit_acceptances`), `Exit` the report,
which may fail to be written, and the exit code. One address family stands for both, since
the code runs the checks once for each.

### LintRun

A section of a file is what lint and plan tell apart: a registered phase, a known other key, an
unknown member of an installed namespace, a mapping that may be a namespace not installed, or
unknown; and whether its value is a list, whether `prepare` gets through it and whether its entries
are well formed. `ctx` is the `LintContext` of a file: results, suppressed results and the rules
whose directives were overruled. `AddAll` is `LintContext.add` with its filters in their order. One
action per part of `lint_zone_file`, `cmd_lint` and `_core_lint_zone`: `RunPlugins`, `CheckRules`
(CORE003 to CORE009), `CheckSections` (CORE011), `RunHooks` (CORE010, CORE013), `ReportIneffective`
(CORE012), `CheckOrphans` (CORE002). `PlanRefuses` is the verdict of `check_zone_sections`, to
compare with. `IsWaived` is a plugin's report a comment waives: it does not claim its section, since
`claimed` is read from the results that stand (`_lint.py:215`).

### ZoneFile and ZoneSetup

A section key is a pair of namespace and member, a file is its flat keys and its namespace
blocks. The operators bear the functions' names: `NormalizeZoneFormat` and `IsWellFormed` are
`normalize_zone_format`, `ProviderView` is `_provider_view`, `SkippedSections` is
`check_zone_sections`, `NestOutput` is `_nest_output`. Which sections are unknown depends on the
phases registered so far by any loaded package: a flat section of a package without a namespace
is known to every zone (`planner.py:511`), is in every target's view and is planned by each
(`planner.py:798-806`), be the provider a target or not.

`ZoneSetup` is a Config and the calls made on it: `LoadConfig` parses it, `Begin` is the next
call of a `Manager`, `ImportProvider` registers one package's phases, `ValidateMultiTarget`,
`DiscoverZones`, `CollectItems`, `Resolve` and `FailToResolve` (answers of the targets, in any
order, any of them lost), `FinishResolve`, then `Plan` up to the sections each provider gets,
or `Dump`, which may fail for any zone. `missed` records the answers that were lost, since an
id may then be another target's.

## 3. The runs

| run | shows | bounds and why they suffice |
|---|---|---|
| `zone_diff` | `Converged`, `WritesMatchPlan`, `IgnoredUntouched`, `ReplacesWholeLists`, `AppliedAsReviewed` | one phase (phases are diffed independently); file lists of up to 2 rules against live lists of up to 3, two refs, two bodies: every pair of kinds of rule (managed, ignored, elsewhere; refless, duplicated) meets; and three refs with one body: every relative order of managed, ignored, new and leaving rules, order being a relation of two rules with at most one between. For the checksum two refs, two bodies, at most one ignored rule and two edits: one on each side or two on one |
| `zone_runs` | `BoundedLoss`, `OnlyOwnedPhases`, `EventuallySettled` | two phases, three runs, two troubles (failed fetches, failed writes seen and unseen, outside edits), representative lists: one phase written and one failed, then again, one run more than can be spoilt; threshold 50 % with minimum 2 so that both sides of both limits occur |
| `task_pool` | `TruthfulReport`, `TruthfulVerdict`, `CancelIsFinal`, `Terminates`, `KeepsContract` | one worker and two; a stage with two calls running and some waiting, an empty stage, one of a single call (sequential although there are two workers) |
| `plan_fetch` | `FetchIsAccounted`, `PlanIsComplete`, `QuietAfterReturn`, `Terminates` | two extensions (one fails while the other runs), three phases on one worker or two (one waits, so that cancelling matters), zero to two background fetches |
| `account` | `NewReferencesResolve`, `DeletesLast`, `KeepsUnowned`, `EventuallySettled` | two lists and two rulesets: in some file one is created, one changed, one deleted; lists with a description, an empty one and none; two faults, seen or unseen, three runs |
| `sync_run` | `GatedWrites`, `ExitZeroMeansApplied`, `FailuresAreIsolated`, `AuditTruthful`, `QuietAtExit`, `Terminates` | three zones, one with `always_dry_run`, and the account; one worker and two, so that one scope waits; every outcome of every scope |
| `audit` | `SweepFindsAll`, `KeepsSweep`, `EveryAddressIsAudited`, `ShadowedNeverMatch`, `NeverGreenAfterCrash`, `WaivedByItsOwnDirective`, `GreenMeansAccounted` | five networks: a whole, its halves, the halves of one half, so that ranges nest twice, are equal and are adjacent; nine pairs of files that between them have rules in two phases, rules that are off, a custom ruleset, lists used, excluded, unused and of one name in two namespaces, an empty file; one crashed section per file; eleven pairs of texts, one for each place a directive can stand in |
| `lint` | `SkippedIsReported`, `GreenMeansPlannable` | fifteen files with sections of every kind, lists and others, alone and beside another (a report on one must not hide the other), under all four choices of rule sets, unconfigured, or followed by a second file, once one with the same unknown section; comments of every reach, one over a whole file waiving the report on an unknown section; two plugins whose rules are of the default set, of the strict set and of none; every severity, and one option of each other kind |
| `zone_setup` | `OwnIdentity`, `SectionOwners`, `NothingSilentlySkipped`, `DumpLoads` | twelve configs over two providers each: same class, two classes, no namespace, clashing phases, a package loaded that no zone targets; zones listed, discovered or both, with resource names of their own; files of one provider, of both, with unknown sections, malformed; two calls (`MaxCalls`), so that one works on what another left, and two lost answers (`MaxTroubles`) |

Deadlock is not checked because a run of the program ends; that it ends is `Terminates` or
part of `EventuallySettled`; audit, lint and setup are loops over the files and lists of an
instance, each step of which moves on.

`MaxRuns`, `MaxTroubles` (`ZonePhases`, `ZoneSetup`), `MaxFaults` (`AccountSync`), `MaxEdits`
(`PlanChecksum`), `MaxCrashes` (`AuditRun`) and `MaxCalls` (`ZoneSetup`) bound what the
environment does, nothing the program does.

The remaining runs, `zone_hidden`, `lint_disagrees` and `lint_suppressed`, each check a sentence
of the documentation that the code does not keep; section 6.

The definitions introduced as "a faulty variant" are plausible mistakes. Put in the place
of the definition they stand before, each makes one of the properties of a run fail, which
shows that the property depends on that part of the code.

## 4. Fairness

* `TaskPool`, `SyncRun`, `PlanFetch`: `WF_vars(Next)`. Threads are scheduled, and provider
  calls return or raise: providers set time limits on their requests. Fairness of the whole next-state
  relation is enough since every step uses up something (a call, a result, a stage).
* `ZonePhases`: `WF_vars(Step)`, `Step` being everything but outside edits. A run that has
  started goes on; `Rerun` is the operator or the CI job repeating the command. Outside
  edits are never forced.
* `AccountSync`: `WF_vars(Next)`, with the same reading of `Rerun`.

* `AuditRun`, `LintRun`, `ZoneSetup` state no liveness and assume no fairness: they wait for
  nobody but the calls they make.

`EventuallySettled` holds because there are more runs than faults and edits, a premise made
visible by the bounds; in `AccountSync` it is settled up to `Repeats`, the missing descriptions
that every run plans again; in `ZonePhases` it is stated of runs with `--force`, without filters
and of all phases, since thresholds and filters are there to keep
changes from being made. No strong fairness is used.

## 5. The proofs

`TaskPoolProofs` proves for every number of calls, stages and workers, and every assignment
of calls to stages (`PoolAssumption` only says that these are what they are):

| theorem | states |
|---|---|
| `TypeCorrect` | `TypeOK` |
| `StagesInOrder` | `StageOrder` |
| `ReportIsTruthful` | `TruthfulReport` |
| `VerdictIsTruthful` | `TruthfulVerdict` |
| `SequentialFailsFast` | `FailFast` |
| `QuietAfterReturn` | `NothingAfterReturn` |
| `CancelIsFinalHolds` | `CancelIsFinal` |
| `PoolKeepsContract` | `KeepsContract`: every step is a step of `StageContract` or changes nothing it sees |

None of these is inductive. The report at the end is right because `synced` is right after
every stage, which needs that earlier stages are complete and later ones untouched
(`StagesInv`), that the collected calls are exactly those sorted into successes and
failure (`CollectInv`), and, where the caller stops early, that in the sequential path at
most one call is made and not yet collected (`SequentialInv`). That nothing runs after
the return needs to know from where one returns (`RaiseInv`, `DoneInv`). `IInv` is their
conjunction; `CancelInv` says that behind the cancel loop no call waits. There is one
lemma per group of actions, with one step per conjunct.

`SyncRunProofs` proves for every number of zones and workers (`RunAssumption`):

| theorem | states |
|---|---|
| `TypeCorrect` | `TypeOK` |
| `WritesAreGated` | `GatedWrites` |
| `ExitZeroIsTrue` | `ExitZeroMeansApplied` |
| `FailuresIsolated` | `FailuresAreIsolated` |
| `AuditIsTruthful` | `AuditTruthful` |
| `NothingAfterExit` | `QuietAtExit` |

The exit code is decided while threads may still be at work, so the properties need to know what
cannot change any more: a scope that has left `idle` passed the gates and is written in full exactly
when it ended `ok` (`ScopeInv`), exit code and log agree with scopes that have ended
(`DecisionInv`). `ExitZeroIsTrue` and `AuditIsTruthful` say as much as the code keeps: the change
was made, or its failure had no text. That the command ends quietly needs, in the sequential path,
that a scope is started only after all earlier ones were collected (`SequentialInv`): when an
exception leaves the loop no other scope is running, and those that wait have no thread. `EarlyInv`
and `LeavingInv` say what holds before and after the apply step.

`PlanFetchProofs` proves, for any number of extensions, phases, background fetches and
workers (`FetchAssumption`: finitely many, of disjoint kinds):

| theorem | states |
|---|---|
| `TypeCorrect` | `TypeOK` |
| `FetchesAccounted` | `FetchIsAccounted` |
| `PlansComplete` | `PlanIsComplete` |
| `QuietWhenReturned` | `QuietAfterReturn` |

None of the three properties is inductive: a plan is complete because of what was collected
stages earlier. `CollectedInv` keeps for every collected job what it ended as and where it was
booked, a thread's step touching only jobs not yet collected; `BehindInv` says which pools the
caller has collected in full at each place; `LeavingInv` that a pool left by an exception is
the extensions' with one of them crashed, or the phases' with every prefetch behind it.

`ZonePhasesProofs` is about any number of phases, rules, refs and bodies, any thresholds, failed
fetches and writes, outside edits and reruns (`NoRefAssumption`, `ThresholdAssumption`,
`ListAssumption`, `StateAssumption`, which say what the constants are; the phases are finitely
many):

| theorem | states |
|---|---|
| `OwnedPhasesOnly` | `OnlyOwnedPhases` |
| `PlanShowsEveryWrite` | `WritesMatchPlan` |
| `IgnoredRulesAreKept` | `IgnoredUntouched` |
| `NoSecondSync` | `Converged`, of the phases whose write did not fail unseen |
| `LossIsBounded` | `BoundedLoss` |
| `ListsAreReplacedWhole` | `ReplacesWholeLists`, the refinement of `RuleListOwner`, where nobody edits the provider (`DriftLists = {}`): the abstract owner has no action for an outside edit |
| `PlanShowsEveryRule` | of one diff: without a filter the changes show every rule with a ref that the payload drops, brings or changes |
| `ChecksumHoldsToThePlan` | `AppliedAsReviewed` |

The invariant is small: a plan is the plan of the lists that were fetched (`PlanOfFetched`),
writes start only once `unplanned_changes` found nothing and the thresholds held
(`PlanChecked`), and without outside edits a fetched list is as it was fetched or as its payload
says (`WrittenOrUntouched`). The work is in what a payload does to the list it was made for,
the lemmas about `RuleDiff`: a filtered list keeps its order (`EntriesKeepOrder`), of
duplicated refs the last is looked up (`LastEntryWins`), the payload is the file's list
(`PayloadIsTheFile`), and a stored payload differs from the file in nothing
(`StoredNeedsNothing`). They rest on `InOrder` listing the positions of a set by rank, which is
defined without recursion, so that no induction over lists is needed.

`PlanShowsEveryRule` is why `unplanned_changes` has something to find only where a filter took
changes out of a plan or a live rule has no ref. It needs that leaving the ignored rules out of
the live list looks the others up as before (`ManagedLooksUpTheSame`), duplicated refs included.
With it, the checksum's invariant is short (`ReviewInv`: what is about to be sent is the payload
of a plan with the digest reviewed), since equal digests mean that a change of the one plan has
its counterpart in the other, with the sides its type has (`DigestKeepsSides`).

`AccountSyncProofs` proves for any lists, rulesets, file and provider (`AccountAssumption`):

| theorem | states |
|---|---|
| `Invariance` | the invariant |
| `ReferencesResolve` | `NewReferencesResolve`: what the phase comes to refer to exists, or its create failed unseen in this run |
| `DeletesComeLast` | `DeletesLast`, the objects apart on which a call of this run failed unseen |
| `UnownedIsKept` | `KeepsUnowned` |
| `SuccessIsComplete` | what a run that ends `clean` or `synced` leaves to plan, of the sections it read, is of an object a call of this run failed on unseen, or an empty description for a list that declares none; whatever failed in the runs before |

That a reference resolves when the phase is written is a fact about seven earlier stages. The
invariant carries it through them: wherever the provider differs from the file while a run is
under way, the task that removes the difference is planned and still to come, or the run has
failed in its stage, or that task is among `unseen`, or it is one of `Repeats` (`ListsInv`,
`RulesetsInv`, `PhaseInv`). A create that meets a name that is
taken fails its stage, which is what keeps this true when a background fetch was lost.
`TasksInv` says what can be planned at all, `DoneInv` what success means.

`ZoneSetupProofs` proves, for every set of namespaces and members (`NamespaceAssumption`: no
namespace registers `lists` or `custom_rulesets`), theorems about the format,

| theorem | states |
|---|---|
| `DumpLoadsBack` | the loader reads back the sections dump wrote, unchanged |
| `DumpIsWellFormed` | the loader does not reject what dump wrote |
| `OneOwner` | no section of a namespace is in the views of two providers of different namespaces |
| `NothingIsLost` | when the strict check finds nothing to skip, every section is in the view of some target, and a section a namespace owns in the view of its owner |

and, for every config, directory and set of providers (`SetupAssumption`: targets are listed, one
provider class per namespace, a provider serves sections of its own namespace, and no zone is
called like the template), about the setup:

| theorem | states |
|---|---|
| `ScopesHaveTheirIdentity` | `OwnIdentity` |
| `SectionsHaveOneOwner` | `SectionOwners` |
| `StrictZonesAreCovered` | `NothingSilentlySkipped`: seen by a target that owns it, or registered and owned by no namespace, and then seen by every target |
| `DumpsLoadBack` | `DumpLoads` |

The format theorems are about sections as dump has them (`IsDumpable`): a plain `lists` only where
at most one namespace is involved, a scoped one only where several are. The argument is that
the writer nests such a section exactly when the loader takes it out again, because both
decide by the number of namespaces in the file (`SharedWhenSeveral`).
The invariant of the setup has to hold across the calls of a Manager, which keep what earlier
calls found: every id a zone holds is its target's answer to the name the zone has there, and
the zone's own id is its first target's (`ZoneInv`); every target of a zone with an id has
answered, is still to be asked or was lost (`AskInv`, with `missed`); listed zones were checked to
be separable (`Separated`). Nothing is assumed about which answers are lost, or when.

`AuditProofs` proves, for every set of networks, files, comments and crashes that
`NetsAssumption`, `AuditAssumption` and `FilesAssumption` admit:

| theorem | states |
|---|---|
| `SweepInvariant` | `SweepInv`, the inductive invariant of the sweep |
| `SweepIsComplete` | `SweepFindsAll`: the findings are exactly the overlapping pairs of different rules |
| `SweepReportsNarrower` | `NarrowerFirst`: of a reported pair the first lies within the second |
| `AcceptancesAreReached` | all that the scan of a file accepts is named by a directive that reaches it |
| `AuditInvariant` | `AuditInv`, the inductive invariant of the command |
| `CommandSweeps` | `KeepsSweep`: the command implements the sweep, in the order of `Sorted` |
| `CommandFindsAll` | so `SweepFindsAll` holds of every sweep of the command |
| `CrashIsRed` | `NeverGreenAfterCrash` |
| `ShadowedIsDead` | `ShadowedNeverMatch` |
| `NoAddressIsLost` | `EveryAddressIsAudited` |
| `WaivedAreReached` | `WaivedByItsOwnDirective` |
| `GreenIsAccounted` | `GreenMeansAccounted` |

The assumptions: CIDR networks nest or are disjoint; networks and rules are finitely many and
extracted in some order without ties (`Place`); every rule and list of a file is among `Rules`; no
rule has the empty action among the blocking ones, and no phase is called `lists`; every file has
one text, and nothing in it is named like the anchor of file-wide directives (`*`).

The sweep compares a range only with those on its stack, so completeness needs to know what
is on it: the stack holds ever narrower ranges (`StackNested`), so that when the top has not
ended nothing below has, and whatever is not on the stack ended before the next range begins
(`OffStackEnded`). Both rest on the order of the entries, broader first among those that
begin together; that `Sorted` has this order (`SortedIsInOrder`) follows from the order being
linear (`PrecedesIsLinear`). `HitsSoFar` is the result for the entries visited.

The scan is a recursive function. That it exists (`ScanExists`) and what is known after any number of
lines (`Knows`: whatever waits was named above, with nothing in between that would have taken
it) are shown by the least line at which they would fail.

The invariant of the command says at each place what the findings account for: the files
behind it are extracted in full or have a crash among the findings (`InfosInv`, `FoundInv`), the
files swept have all their overlaps reported (`OverlapInv`), and so on down the checks
(`CdnInv`, `DriftInv`). `VerdictInv` carries this to the exit code, two steps later: what is
kept is what the comments leave, and no error is ever waived.

`LintProofs` proves, for every set of files, sections, plugins, options and comments that
`LintAssumption` admits:

| theorem | states |
|---|---|
| `DisablesAreReached` | all that the scan of a file waives is named by a directive that reaches it |
| `LintInvariant` | `LintInv`, the inductive invariant of the command |
| `UnknownIsReported` | `SkippedIsReported`, of the sections on which no comment waives a plugin's report |
| `GreenIsPlannable` | `GreenMeansPlannable`: of sections that are lists; the others are section 6's |

The assumption: a file's sets are of the two there are, the rules of plugins do not bear the
core's ids (README.md:424), a file and its text are sequences, and no rule's ref looks like the
whole file. The scan is treated like that of the audit. The invariant has
to follow a result through three filters and two passes over the comments: with no filter
asked for (`Unfiltered`), what the core checks must say of the parts of a file behind them is
among the results of its context or waived by a directive that reaches the whole file
(`ContextInv`), and at the end of a file its results join the report (`ReportInv`); the exit
code is that of the report (`VerdictInv`). CORE011 keeps quiet about a
section another rule has named, so it has its own part: nothing has its id before
`CheckSections`, since plugins have ids of their own, and from then on every unknown section is
named by another rule or by an error no comment waives.

Model-checked only:

* liveness (`Terminates`, `EventuallySettled`), which is out of reach of the proof system, as is
  ENABLED;
* the three sentences that are violated (section 6).

What a recursive definition returns for every input would need induction over data, for which
the library's theorems cannot be used; where it was needed, for the scan, it is replaced by
the least number that refutes the claim.

## 6. Where code and documentation part

| run | the documentation says | the code does |
|---|---|---|
| `zone_hidden` | sync refuses writes that "would add, remove, change or reorder a rule the plan does not show" (README.md:744) | live rules without a ref are seen neither by the diff nor by `unplanned_changes`, and the write deletes them |
| `lint_disagrees` | the section check of plan "is the same rule `octorules lint` reports, so the two cannot disagree about what counts as skipped" (`planner.py:483`) | lint leaves a section alone that any finding has named, a mere warning included (`_lint.py:215`), and sections of an installed namespace the zone does not target; plan refuses the zone and lint exits 0 |
| `lint_suppressed` | "A plugin finding the user suppressed is treated as claimed too; suppress CORE011 alongside it if the section is deliberate" (`_lint.py:212-214`) | only findings that stand claim their section (`_lint.py:215`; `linter/engine.py:154-173` keeps suppressed ones elsewhere), so CORE011 is reported, and CORE011 cannot be suppressed |

Seen in the models without a run of its own, sync first:

* An error with an empty text counts as success and its call is reported as synced
  (`provider/utils.py:252`, `270`, against the contract at line 228). The exit code is 0, the audit
  log says `ok`, later stages go on: a phase is written with a reference to a list whose create
  failed, and lists are deleted although a put before failed. `FailUnseen` and the outcome
  `unseen` model it, and the properties name what is excepted: `unseen`, `Overlooked`,
  `CreatedBlindly`.
* A list without a description is planned again after every sync: `None` is sent as an empty text
  and compared with it (`planner.py:1359`, `_sync.py:231`, `283`).
* A list or rule changed by somebody else between the fetch and the write is overwritten; only a
  checksum compares with what was reviewed, and that at plan time.
* An account whose plan fails is left out, and the exit code is 0 (`_plan.py:331`; README.md:600
  gives 1 for errors).
* After an auth error there is no audit log, whatever was written before (`_sync.py:500`;
  README.md:458).
* The checksum does not cover positions: added rules may trade places (`planner.py:1007`;
  README.md:745).
* Lists that leave the file are deleted before the phase drops its references (`_sync.py:291`);
  a create that answers without an id makes later stages skip the list silently (`_sync.py:233`),
  which is one of `FailUnseen`'s cases.
* README.md:752 speaks of thresholds "in any phase"; `check_safety` sums over the zone, so a
  phase may be emptied when the others are large.
* README.md:746 says that auth errors fail immediately; scopes already submitted to the
  shared executor are not cancelled (`_helpers.py:259`) and are applied during shutdown.
* Lists come before phases within a scope only; the lists of an account are applied beside
  the zones that may refer to them (`_plan.py:487-504`, `_sync.py:493`).
* `fetch_parallel` documents a per-future timeout (`provider/utils.py`); it is applied to
  futures that are done, and a fetch that hangs hangs the plan.

Configuration, providers and dump:

* The targets are checked before the template is expanded (`_providers.py:204`): a discovered
  zone with targets of different classes, one of them without a namespace, is planned by both
  on the first call, and refused on a Manager's second, when it is in the Config (README.md:100
  promises the check). `SectionOwners` therefore speaks of listed zones.
* A flat section registered by a loaded package without a namespace, of a provider the zone does
  not target, passes the strict check (`planner.py:511`, `545-559`) and is planned at every target
  (`planner.py:798-806`). `NothingSilentlySkipped` counts it as managed by all.
* A lost answer of a target other than the first gives it the first target's id, and since only
  zones without an id are asked for, a Manager keeps it for good (`config.py:1196`, `1225`;
  `manager.py:25` calls the Manager stateless between calls).
* A discovered zone whose first target does not know it ends the whole command.
* Two listed zones may name one resource of a target (`config.py:490`); only the template is
  checked for this. `OwnIdentity` speaks of each zone alone.
* In a file of one namespace block `lists` is plain and every target of the zone sees it: a
  strict zone of two classes, one without lists, is refused. And `<namespace>.lists` reaches no
  target without a namespace: `NothingSilentlySkipped` asks that every target have one.
* A dump file that cannot be written is logged and the exit code is 0 (`dumper.py:210`). When
  the lists of an account cannot be fetched, its file is written without them (`_dump.py:134`).

Lint and audit:

* A phase section that is no list lints green (`_lint.py:156` skips it) and ends plan in an error
  (`planner.py:753`, `798-806`), although README.md:407 promises that "a file that lints clean cannot
  die in `prepare` at plan time"; so do `lists` and `custom_rulesets` that are no lists
  (`_lint.py:182`, `planner.py:933`, `1382`). `GreenMeansPlannable` is therefore about lists.
* CORE008 and CORE009 are said to be "the same validators plan runs" (`_lint.py:177`); plan calls
  neither, and a malformed entry fails it, if at all, where the field it lacks is read.
* CORE002 cannot fire: every file the check could name has been gone through (`_lint.py:301`;
  README.md:396).
* Of the published ranges a rule's range meets only the last is looked at, so a range of the
  own edge may stand behind another provider's (`audit.py:737`; README.md:528).
* When some sources answer and others do not, the ranges of the others are not taken from the
  packaged data, and no warning says so (`audit.py:428`).
* An acceptance above a rule of a custom ruleset waives nothing: the finding's ref is
  `label/ref` (`audit.py:1077`). With several namespaces in a file custom rulesets are not
  audited (`audit.py:1055`).
* A drift is reported for the first of its files, so only comments there accept it
  (`audit.py:848`).
* In an included list file a directive above `kind:` is file-wide, and a directive on the line
  of the first rule itself is, too, since such a line is no rule for the audit's scan.

## 7. What is not modelled

* Text: YAML parsing, expression normalisation, rendering, logging, argument parsing. They
  have no state; RuleDiff abstracts the one that matters as two forms of a body.
* Extensions (for example Page Shield policies) as a stage of sync: the stage has the same
  shape as lists and rulesets, its content lives in provider packages.
* `PhaseFilter` and `RefFilter`: they change the desired rules before the diff.
* Item-level list diffs, list kinds, ruleset capacity.
* Thresholds over lists and rulesets.
* The time limit on planning an account beside the zones, and failures of several accounts
  at once: `SyncRun` has one account.
* Signals: an interrupt in the middle of a run is covered as a failure followed by a rerun.
* Retry: `retry_with_backoff` is one loop whose delays are random real numbers; only provider
  packages call it.
* Configuration: includes, secrets, safety numbers, plan outputs and list files: parsing
  without state of its own.
* Lint: `--file`, `--list-rules`, the reports, the plan tier a zone is looked up with. Audit:
  formats, HTTP and the parsing of published ranges.
* Dump: accounts, the cleaning of rules, list files. Manager: calls other than plan and dump,
  which differ in what they do with the same scopes.
* Unregistering phases, API field lists, spelling suggestions.

`PROJECT.json` lists every component with its status and, under `hazards`, what is hardest to
test with the properties that cover it, or why none does.

## 8. The plan

Done: the order was the write path first (`RuleDiff`, `ZonePhases`), then what applies it
(`TaskPool`), then what surrounds it (`AccountSync`, `SyncRun`, `PlanFetch`, `PlanChecksum`),
then the commands that read (`AuditSweep`, `AuditRun`, `LintRun`) and the setup all commands
share (`ZoneFile`, `ZoneSetup`); the proofs in much the same order.

What would come next:

1. `ListDiff`: item identity, duplicate items and kinds, as operators against a
   reference definition; thresholds over lists and rulesets joined to `AccountSync`.
2. `ExtensionHooks`: dispatch by section and scope, apply with failing extensions;
   `SettingsPlan` with partial failure.
3. The account dump, with background fetches that fail, and dump followed by plan.
4. Composition of the account with the zones that refer to its lists, across scopes.

Proofs to come: every safety property a run checks is proved; what is left is to relate the
proved components, and the proofs of the models above.
