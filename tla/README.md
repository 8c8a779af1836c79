# Skilled: a verification development

Skilled is a terminal application and command line, in Rust, that installs
agent skills from Git checkouts as symbolic links into the skill roots of
several coding agents, and keeps metadata about what it did in SQLite. This
directory holds TLA+ specifications translated from that code, the TLC
configurations that check them on small instances, and proofs, checked by the
TLA+ proof system, that the most important properties hold for every instance.

Paths below are relative to the crate: `operations.rs` is `src/operations.rs`.
`PROJECT.json` gives, for every definition, the lines it translates.

## Inventory

| Component | State it keeps | Operations | Hard behaviour | What makes it correct |
| --- | --- | --- | --- | --- |
| Installed-link operations (`operations.rs`) | a plan per run; the links themselves | probe, plan, apply, verify, report: install, repair, uninstall, forget | several processes and other programs change registry, receipts, links and directories between preview, confirmation and write; a write and its record are not atomic; three roots shadow each other for OpenCode | links written name the selected variant; evidence neither outlives its source nor is deleted under a live link; a plan nothing interferes with is carried out and verified; success is true; a change for OpenCode is stated before it is made |
| Atomic link replacement (`operations.rs` 3580-4267) | two entries of a pinned directory | stage, exchange, inspect, discard, revert | every system call may fail or be raced; the process may die between two | nothing of anybody else's is destroyed; the path is never vacated; the report is true |
| Metadata store (`store.rs`) | registrations, catalogs, receipts, baselines, checks, settings | open, create, migrate, back up, register, load, record, forget, guard | several processes and other builds open one file; a start may stop between any two steps; checkouts are replaced at a registered path | schema steps happen once and behind a true backup; no database is made in the place of one its maker could have known of; a baseline stays with a checkout the user registered; generations are never shared |
| Origin cache (`git/origin/cache.rs`) | one directory with a repository, a record and two locks | acquire, lend to Git, finish, reclaim | crashes, orphaned children, directories replaced under it | no repository reclaimed under Git; at most one retained; nothing foreign removed |
| Origin fetch (`git/origin.rs`) | a bounded snapshot of one commit | fetch, walk, collect notices | cancellation while a child runs; names that collide | the pinned files and every applicable notice, or a refusal |
| Cancellable child (`git/cancellable.rs`) | a child in a shared slot | spawn, cancel, collect | a signal racing the reaping, pipes held by descendants | no signal to a recycled group, no child left behind |
| Update checks (`app.rs`, `updates.rs`, `store.rs`) | one cached check per source, ordered by generation | check, plan, apply, verify, cache | concurrent processes record out of order; a worker races its cancellation | a later observation is never hidden by an earlier one |
| Repository update (`updates.rs`, `git.rs`) | a checkout's HEAD, index and worktree | analyse, guard, fast-forward, verify | hooks and concurrent Git between guard and write; what a tree change does to installed links | the plan predicts every installation; what changed was stated; a raced merge is not verified |
| Vendored replacement (`vendored.rs`, `vendored/`) | a skill directory, a staging directory, the origin record | check, preview, stage, replace file by file, verify, record, report | the checkout, links and metadata change during the fetch; crash and interference between proofs and renames | the preview is of what stood; the proposed tree keeps every notice; nothing is destroyed or left unreported |
| Adoption and provenance (`adoption.rs`, `provenance.rs`) | immutable origin baselines | read evidence, preview, adopt, verify | baseline taken from a changing tree, one read at a time | the baseline and its evidence stood when it was committed; the verdict on it is true |
| Resolution (`resolution.rs`) | none | narrow, select, resolve for OpenCode | unknown and unread roots | unknown is never reported as known |
| Inventory and Doctor (`inventory.rs`) | a snapshot | index, scan, classify, count, offer repairs | entries change during the walk; budgets end; sources cannot be read | partial reads are stated, labels are proven, offers match plans |
| Source registration (`source.rs`) | a preview | preview, revalidate, register | checkout replaced after the preview | what was confirmed is what is stored |
| Application (`app.rs`, `runner.rs`, `input.rs`) | view, prompts, worker handles | reducer, effects, drain, degrade, quit | workers answer after the dialog changed; keys, reducer and screen each order the dialogs; the store fails under an open dialog | no confirmation of what was not shown; answers meet their question; a write is always reported |
| Terminal (`terminal.rs`) | raw mode, panic and signal handlers | enter, restore | panics on either thread | restored once, after workers end |
| Command line (`cli.rs`, `main.rs`) | none | one operation per run | - | exit status matches the report |
| Rendering (`tui.rs`, `components.rs`, `theme.rs`, `viewport.rs`) | none | draw, measure | a frame too small to draw | what is measured is what was drawn |
| Small helpers (`paths.rs`, `agents.rs`, `validation.rs`, `error.rs`, `lib.rs`) | none | pure functions | - | - |

The components interact as follows. The application and the command line call
plan, apply and verify of the operations, which read and write links with
plain system calls and read and write the store. Every process opens its own
connection to one shared SQLite file; its immediate transactions (the mutation
guard) are the only lock between processes over metadata, and there is none
over links. Update and origin checks run in one worker thread at a time, which
talks to the application through a channel, an atomic flag and a mutex holding
the Git child; the origin cache is shared by the workers of all processes
through two `flock`s.

## Modules

| Module | Models | Instances |
| --- | --- | --- |
| `LinkReplacement` | what a repair promises about the entry it replaces (abstract) | refined by `LinkExchange` |
| `LinkExchange` | `replace_directory_symlink_with` and the tail of `apply_repair_target`, by system call | `MCLinkExchange` |
| `LinkLifecycle` | install, repair, uninstall, forget, register, adopt: processes over one store and one set of links | `MCLinkLifecycle` |
| `Diagnosis` | one scan: the index of registered variants, three roots, what is said of each entry and of the name | extended by `LinkPlanning` |
| `LinkPlanning` | probes, plans and predictions of install, repair and uninstall, their application and their verification by a scan; Doctor's offers | `MCLinkPlanning` |
| `MetadataStore` | opening, creating, migrating and backing up the store; registering, loading, adopting and forgetting one source | `MCMetadataStore` |
| `OriginCache` | the origin cache, by system call | `MCOriginCache` |
| `CheckRuns` | the event loop, its check workers and their Git children: start, drain, cancel, retire, quit, drop | `MCCheckRuns` |
| `Shell` | the interactive session: keys, dialogs, frames, drains, degraded metadata, leaving | `MCShell` |
| `UpdateCache` | the cached check of one source: check, plan, apply, verify and record, by several processes | `MCUpdateCache` |
| `RepositoryProbe` | what a check and a preview read of a checkout, Git command by Git command: the refusals, the fetch and its publication | extended by `RepositoryUpdate` |
| `RepositoryUpdate` | one confirmed fast-forward: probe, analysis, guards, merge, the two inventories and their verdict | `MCRepositoryUpdate` |
| `OriginEvidence` | the attribution files read into hints and problems, and what they support | extended by `OriginTracking` |
| `VendoredTree` | snapshot, notices, candidate, final manifest and the list of changes | extended by `OriginTracking` |
| `OriginTracking` | adopting and checking a skill's origin, entry by entry, while others write | `MCOriginTracking` |
| `SkillReplacement` | the confirmed replacement of a vendored skill's files, by rename, and of its origin record | `MCSkillReplacement` |
| `InstalledLinks_proofs` | theorems about `LinkExchange`, and about `Diagnosis` and `LinkPlanning` | |
| `RepositoryChecks_proofs` | theorems about `CheckRuns`, and about `RepositoryProbe` and `RepositoryUpdate` | |
| `VendoredReplacement_proofs` | theorems about `SkillReplacement`, and about `OriginEvidence`, `VendoredTree` and `OriginTracking` | |
| `LinkLifecycle_proofs`, `MetadataStore_proofs`, `OriginCache_proofs`, `UpdateCache_proofs`, `Shell_proofs` | theorems about the modules they are named after | |

### LinkExchange and LinkReplacement

`dest` and `temp` are the two directory entries, `planned` says whether the
planned pathname still names the pinned directory, `pc` is the place in the
function, `residue`, `outcome` and `receipt` what it reports and records.
`arrived` and `lost` remember what other programs put there and took away, so
that the properties can tell their doing from the repair's. Every read is two
alternatives (the expected text, or anything else including an error), every
write is two (done, or failed without effect, which is what `renameat2` with
`RENAME_EXCHANGE`, `symlinkat` and `unlinkat` guarantee). `Arrive`, `Remove`
and `MoveRoot` are the environment. `LinkReplacement` says the same without
the temporary name: a slot, a set of objects held aside, and a receipt; only an
object whose text is one of the two links' is ever discarded. The refinement
maps the temporary name to the set held aside.

### LinkLifecycle

The store is `registry` (per checkout: the id of its registration and the
variants it offers), `nextId`, `baselines` and `receipts`; the disk is `slot`
with two observers, `author` (who wrote what is there) and `excused` (a write
that reported itself unrecorded, or was cut short). `guard` is the process in
SQLite's immediate transaction. Each process has a place, the plan it confirmed
and its progress. A plan is frozen at the preview, as in the code, and each
`apply` re-establishes under the guard exactly what the code re-reads: the
registration, the whole registry fingerprint and the destination for install
and repair; the receipts and the link, without a guard, for uninstall; the
receipts, registration, baselines and every link for forget. `Refuse` is the
failure branch of each of these checks and of each system call. The exchange of
`LinkExchange` is one step here. `OtherWriter` changes any path at any time
and `Crash` ends any process at any step.

Abstracted: a registration is an id and a set of offered variants, so that
"the fingerprint changed" means that some id or offer did; the columns refreshed
by rescans are not part of it, in the code either. Receipts are a set, because
nothing reads their order except to pick one among equal ones.

### OriginCache

`root`, `repo`, `retired`, `disposal` and `receipt` are the names in the cache
directory; a repository is its generation, `marked` the generations whose
marker is still inside and `data` what else is. `gate` is who holds the gate
lock, `activity` the processes and children holding a descriptor of the one
locked description, which is how a `flock` inherited by Git children behaves:
the lock is free when the set is empty. `Fail` is the error branch of every step
(a lock busy past 100 ms, a proof that fails, a system call that fails), and
drops the locks in the order in which the struct's fields are dropped.

### CheckRuns

One application and every worker thread it ever starts. The event loop is
`step` (drain the origin check, drain the update check, take a key, or a place
inside a cancellation or the end) and `goal` (go on, close, or drop);
`run`, `origin` and `retired` are the three handles of `SkilledApp`, `dialog`,
`error` and `saved` what the drained messages leave behind. A worker is `pc`
and `outcome`; `cancelled` and `terminal` are the two atomics it shares,
`channel` its last message, and `child`, `slot` and `reaped` the Git process,
whether `SlotOwner` has it in the shared slot, and `CancellableChild`'s own
note that it was waited for. The slot's lock is `SlotFree`: it is held across
several steps only while a dropped child is waited for. A cancellation is as
many steps as the code has accesses to shared state: the channel, the terminal
state, the flag, the slot. A signal is a `kill` of the group; `zombie` is a
leader that has ended and not been waited for, `gone` one whose number is free
to be reused.

Abstracted: what the Git commands say (`Judge` is any number of findings), the
number of sources and of commands per source, progress messages, the polling
interval, and the pipes, whose only trace is that reading them ends in bounded
time. A panic of the event loop and an error returned by it take the same way
out.

### UpdateCache

The store is `setting` (the high-water mark of generations), `row` and
`registered`; the checkout is `head`, `previous` (what the branch's log says HEAD
came from) and `tracking`; `remote` is the upstream. A process is a screen, which
keeps the rows and sources it has read (`seen`, `known`) from one operation to the
next, or a command, which checks, plans from its own probe and applies. `gen` is
the generation it has reserved and not yet written under, `basis` that of the check
its plan comes from, `from` and `to` the plan. An operation is a step per access to
anything shared: reserve, read the checkout, transfer, publish the tracking
reference by compare-and-swap, record, read back, preview, guard, merge, load the
sources, verify, reserve again, record the result, read back. In between any other
Git may move HEAD or fetch, another process may forget the source, and a process may
die. `Upsert` and `UpsertIfNewer` are the two conditional statements of the store.

Abstracted: history is a line; a row keeps its revisions where they are read again,
on an offered update; whatever else can block a check, a plan or a verification is a
free choice of the failing branch; a batch's other sources only take generations.

### SkillReplacement

`dest`, `staged` and `backup` are the skill directory, the staged new tree and the
reserved names in the staging directory where removed files are kept; an entry is an
object (an original, the candidate that `materialize` wrote, or a stranger another
program put down) with a text, a folder, or nothing. Two objects may have one text,
which is why the code compares identities, and the model does. `record` is the origin
record, `completed`, `failed`, `residue` and `wrote` the `ReplacementReport`, `status`
the `ApplyStatus`. The places of `pc` follow `apply_inner`: compare under the guard,
stage, compare again, then for each operation prove, write (one exchange, one rename
that replaces nothing, or one `mkdirat`), prove again, and after the last one walk the
directory entry by entry, record, commit, read the record back and walk once more.
`Ops` is what `planned_operation_paths` lists, and `Ready` their order: files that make
way for folders, folders from the top, the other files. Whoever is not Skilled may
change an entry of either directory, the repository or a link between any two steps,
and after the commit, which ends the guard, the record too.

Abstracted: the comparisons of whole trees before the first write are one step each,
since every file is proved again at its operation; files among themselves are taken in
any order; bytes and the executable bit are one text; folders are only made, never
removed by others; unchanged files, and paths that neither version has, are left out.
So is the last loop over restrictive folder modes, which no platform with these
renames enters: a preview's folders are always searchable. Once a run has ended others
leave its staging directory alone in the model, because nothing reads it again.

### Diagnosis and LinkPlanning

`Diagnosis` is one scan for one skill name: `slot` is what stands in each of the
three roots (nothing, a file, something unreadable, the root's own directory, or a
link to a place), `content` what a place holds, `root` how far each root can be
read, `catalog`, `readable` and `metadata` the registered side, `budget` the
inspections left. The pass builds the index, then opens, observes, validates and
settles each root in turn, and `Swap` may change a link between any two of these.
Rows, counts, findings and the resolution are operators of what the pass holds.

`LinkPlanning` extends it: `request` is what is asked, `plan` what was stated (a
disposition per agent, the outlook for OpenCode and whether a concern was said),
`steps` what became of each target. Planning reads the slots with its own probe,
which is not the scan's, as in the code; writing rechecks each target, and the same
scan runs afterwards and is held against the plan. `Interfere` swaps links and
withdraws a variant's directory, also between the check of a directory and the write
of the link to it.

Abstracted: one skill name; a manifest is valid, invalid or opaque; the registry a
plan is made from is the current one (that it may change is `LinkLifecycle`'s
subject); whether the content an uninstalled link led to survives, and scan errors of
catalogs, are left out. Two details are kept because they matter: an install's probe
calls any link that cannot be resolved "nowhere", where a scan says "unknown"; and only
a repair's probe asks whether a root can be listed. The comment above
`selection_findings` (`inventory.rs` 1309-1314) speaks of an agent that loads the
name; the code asks `is_installation`, which an unreadable entry satisfies too.

### MetadataStore

`directory` and `database` are the application-data directory and its file, a database
being its schema version, the steps it went through, and one source row with its
baseline. `lock` is SQLite's write lock; reads, Git and the backup go on beside it.
`opening` is a process on its way to a session (was the directory fresh, did it find no
database there and may make one, was there anything of a database it could have known of,
what was pending, its backup), `session` what it holds afterwards: the source it loaded and the
work in hand. `standing` is the checkout at the registered path, which others may
`Replace`; `EarlierBuildRegisters` and `LaterBuildMigrates` are processes of other
builds, `Substitute` gives a backup's name to another file, `Lose` takes the database
away while nobody has it open, starts under way being anywhere before `Connect`, and `Stop`
ends a process at any step, rolling back what it had not committed.

`Store::open` decides in three steps: it looks for the directory and makes it
if there is none (`create_dir_all` is content with one that came to be meanwhile), it looks
for the file, and only a start that found neither passes `SQLITE_OPEN_CREATE`. A file that
vanishes after any other start has looked is therefore not made again. A start that found
neither is a first launch by all it can know; if another process makes a database and that
is lost before the first one opens, the first makes it anew. The code allows this, so
`DatabaseIsMadeOnce` asks that the maker could not have known better: no database was there,
and none had been lost, when its start began, and none was there when it looked. The loss
of a file that a process has open (unlinked under SQLite) and of the whole directory are
not modelled.

Abstracted: one source path; of a checkout only which one it is and whose commits it
holds; the catalogs a source offers, the settings and the configured agents, and the
branch that loads a source without inspecting its checkout.

### Shell

An action is one turn of `run_app`'s body: a drain of the three workers, a frame
(`Draw`), or a key with all the effects it has. `view`, `pane` and the input regions are
what of the session decides where a key goes; `dialog` has a phase per kind, a number of
rows and how many of them ask the question; `window` is the scroll state of the one
scrollable region, `seen` and `blind` observe what a reader has had on screen, and `owed`
the kinds of which a write began whose report was not dismissed. The three orders of
dialogs, of the keyboard (`input.rs`), of the reducer (`app.rs`) and of the screen
(`tui.rs`), are three sequences, as there are three in the code. `SetDegraded` is what
the loss of the metadata does to a session, and may happen in any operation.

Abstracted: lists, selections, typed text and the width of the terminal; the height
changes from frame to frame, down to a terminal too small to draw in.

### RepositoryProbe and RepositoryUpdate

`probe` is a question that is being answered: for a check (`fetch`, then publish) or for a
preview (read again, without the network, what a check recorded), the place it is at, and
what it has read. Each place is one Git command or one proof about the path, in the order
of `probe_existing`, `probe_existing_against` and `fetch_upstream`: pin the directory,
prove its identity, ask for promisor remotes, for transports, read HEAD, the filters, the
status, the upstream, its URL, ask for transports again, ask whether the tracking reference is
symbolic, read its object, fetch, ask both again, publish by compare-and-swap. Any of them
may fail, and `Configure` and `Advance` change the configuration, the reference and the upstream
between any two. `settings` are the kinds of programs that the checkout's configuration names,
`Suppressed` and `Settled` those that every command, or the fetch, is told to do without;
`done` is what ran all the same, `since` what was put there after the last command that
could have seen it. The gap that remains before the fetch is known to the code
(`skilled-88j`, `updates.rs` 1124); so are the gaps behind the last look at the filters and at
the reference, each between two commands. A preview's checkout configures no programs in
the model, and its upstream does not advance.

Abstracted: Git's output is an answer, the values of settings and their scopes are whether
the checkout names a program, allowlists of protocols are whether a helper may run;
detached heads and diverged histories are left out (a line of commits has neither), so is
`core.unsetenvvars`, which only Windows asks for, what `failed_probe` reads for display, and
cancellation between the commands, which is in `CheckRuns`.

In `RepositoryUpdate`, a preview loads the sources, scans and then probes, and a command
probes, which takes as long as its fetch, and then scans; both plan from what was probed. A
tree is what each candidate of the one included catalog holds; `base` and `tip` are the
trees before and after, on a line of four commits. `head`, `previous`, `tracking`,
`dirty`, `untracked`, `named` and `promisor` are the checkout as the guards read it,
`links` and `alias` the installed links and a link of the user's that others go through.
The run then analyses (`Plan`: updated, dangling, unloadable, invalidated and
revived installations), is confirmed, scans and guards again, merges, decides what the
merge did, and compares the inventory before with the one after. `Relink`, `Litter`,
`MoveHead` and `Disturb` are other programs and the merge's own hooks.

`UpdateInit`, `UpdateNext` and `UpdateSpec` are the run's, whose place is `stage`.

Two consequences of the code are kept and excluded from the properties by name: a
broken link that leads to no candidate, aimed at a path to which the update gives
something else that is no skill, gets a finding that no statement predicts, so verification
fails (`AimsAreStated`; the analysis looks for links that added skills revive, and for
installations of candidates it changes, and such a link is neither); and the rescan at
confirmation reads the links again but not the catalogs, so a candidate that changes on
disk before it counts as late interference. An update planned over sources that could not
all be read is verified as far as the code goes, and then withheld (`before.complete`).
Abstracted: what Git's commands compute, ignored files, modes, submodules, and more than
one catalog.

### OriginEvidence, VendoredTree and OriginTracking

`OriginEvidence` reads three documents (the root table, the skill's notes, the lock
file) into hints, problems and fingerprints, and says which origin they support; a
document is the hints its matching rows give. `VendoredTree` has no state: from a pinned
commit and a local manifest it computes the candidate, the notices above and beside it,
the final tree with its limits and refusals, its manifest in traversal order, and the
changes. `OriginTracking` is a session that adopts (form, plan, preview, confirmation,
record, verification) or checks (prepare, recheck, fetch, recheck, build), reading the
directory by a walk of single steps: open a directory, list it, open a file, read it in
two halves between two `fstat`s, close. `stood` remembers every value anything had
since the last mark, so that the properties can say that what was recorded stood at some
moment, and `touched` whether anything changed at all.

Assumed or abstracted: a write changes a file's ctime, listing a directory is one step,
the store reads of one recheck are one step and so are those of `begin`; parsing of the
documents, path and depth limits, the budget of tree listings and the digest are left
out; ASCII and full case folding are one `Fold`; whatever Git's configuration and
transport checks refuse is a fetch that fails; `UnsafeNames` is empty in the run, since a
name either refuses a commit or plays no part. Two traits of the code show in the model: a
directory beside the skill whose name looks like a notice makes the check refuse the
commit, and a proposal may hold two directories whose names differ in case only (files
and directories are compared, directories among themselves are not).

## Runs

| Run | Asks | Properties | Bounds |
| --- | --- | --- | --- |
| `link_exchange` | is anything destroyed, is the report true, does it refine the promise | `ArrivalsSurvive`, `ResidueIsReported`, `Refines` | four arrivals, one of each text class the code can tell apart; 6645 states |
| `lifecycle_races` | do concurrent operations keep ownership evidence and the selection | `OwnedLinksReceipted`, `WritesFollowTheRegistry` | two processes, one path, two competing variants in two checkouts, two ids; 2.65 million states modulo symmetry |
| `lifecycle_live` | is the guard given back, and is a reported success durable | `GuardIsReleased`, `SuccessIsDurable` | one process, two paths, two variants; 1.12 million states |
| `origin_cache` | are repositories safe from crashes, orphans and substitutes, and does a check ever wait outside its fetch | `ActiveRepositoryIntact`, `CrashResidueReclaimable`, `NeverWaits` | two processes, two children, two entries, three generations: a check, a crash and two recoveries; 35951 states |
| `check_runs` | are signals, reaping and cancellation right in every interleaving, is the terminal handed back after the last child, does a cancelled run end | `SignalsReachOwnChild`, `NoChildOutlivesItsWorker`, `CancellationWins`, `CancelledRunsEnd` | two workers, each run once; 283812 states |
| `update_cache` | is a later answer ever lost, is a generation ever shared, does a screen's apply yield to a later check | `LaterAnswersStay` | one screen, one command, two revisions, four generations, batches of two; 6.7 million states |
| `skill_replacement` | is a file ever destroyed, the report ever false, the record advanced for files that were not there | `NothingDestroyed`, `ReportIsTrue`, `RecordFollowsFiles` | three paths (a file exchanged, one that makes way for a folder, one added in it), two strangers, with the old text and with the new; 2.0 million states |
| `repository_update` | does an undisturbed update end as its plan said, did a verified one change only what was stated, and does a check run anything of the checkout's | `PlansAreKept`, `WhatChangedWasStated`, `ChecksKeepToTheirWord` | two candidates, two links, an alias, 26 pairs of trees (changed, renamed, swapped, added, removed, replaced by a file or a link) after a preview, one pair after a check with every upstream and tracking reference, eight more with links at a file or a link in a candidate's place, five kinds of programs, two interferences; 6.43 million states |
| `link_planning` | is what is reported, offered, planned, predicted and verified true of the files | `ScanIsTrue`, `LabelsAreTrue`, `PlansAreTrue`, `SuccessIsTrue`, `OffersMatchPlans` | three roots, two variants in two sources, ten families of worlds, requests for every set of agents; 3.30 million states |
| `shell` | does what has the keyboard show, was what is confirmed shown, does every answer and every report arrive | `KeyboardIsOnScreen`, `WritesAreReported`, `ConfirmedWasShown`, `AnswersMeetTheirQuestion`, `AppliesEnd` | dialogs of one, two and four rows, frames of none to three; 74464 states |
| `metadata_store` | are schema steps done once and behind a backup, is a database made in the place of one its maker could have known of, does a baseline stay with its checkout | `DatabaseIsMadeOnce`, `AdoptedCheckoutsWereRegistered`, `BackupPrecedesDestruction`, `BaselinesAreNotTransferred` | two processes, three schema steps of which one rebuilds and one adds identities, a checkout and its clone, two ids; 1086922 states |
| `origin_tracking` | is what is recorded, proposed and reported true of what stood | `ManifestIsWhole`, `PreviewStandsAfterFetch`, `ProposalIsSound`, `VerdictIsTrue`, `AdoptionIsFounded` | four families: every small tree against every small commit, a check and an adoption with two changes by others and one failed read, every set of documents against every origin; 2.10 million states |

Why these bounds are enough: all races in `LinkLifecycle` are about one path, or
about one registry read by two operations, and two processes already give every
order of preview, guard, write and record; the properties about several paths
concern one run's loop. Two ids suffice to forget a source, register it again
under a new id and compare. In `OriginCache` a third repository is the first one
allocated after a recovery that itself was cut short. In `CheckRuns` two workers give
every overlap there is, an update check with an origin check that was retired, and
both orders of two checks of one kind. In `UpdateCache` every property relates two
processes or a process and the row, and four generations are a check, an apply's
result and another process's check, with a row already there; the clock is always
behind what is stored, which is the case the mark exists for. In `SkillReplacement` the
three paths give every kind of write (a removal differs from making way only in what
follows it), and the two strangers a second arrival where a first was taken away; a
stranger with neither text is treated as one with the wrong text. In `Diagnosis` three
roots are all there are, and two variants give every pair that can compete; each family
of `MCLinkPlanning` lets one group of things go wrong together, because all of them at
once is out of reach, and the products between groups that share a decision (contents with
sources, roots with selections, budgets with both) are inside a family. In `RepositoryUpdate`
two candidates give a rename, a swap and an invalidation by the other; two interferences
are a change and its reversal, or one before and one after the guard; of a probe,
two settings, or a setting and a reference, on either side of any command. In `Shell` a dialog
of four rows in a frame of one to three has a middle that is neither first nor last. In
`MetadataStore` two processes race each lock, and a third schema step lets a destructive
one stand in the middle. In `OriginTracking` a change and its reversal within one walk is
two interferences, and the trees have every pair of kinds at one name.

### Fairness

`LinkLifecycle`'s `LiveSpec` is weak fairness of each process's own steps: a
confirmed operation cannot be cancelled, both front ends run it to completion,
and SQLite's busy timeout makes waiting for the guard end (`Refuse`). Nothing is
assumed of previews, of other programs or of crashes. `OriginCache`'s
`LiveSpec` is weak fairness of a check's own system calls. Ending the fetch is
excluded, because no timeout ends it, and so is the exit of a child.
`CheckRuns`' `LiveSpec` is weak fairness of the event loop, of each worker and of
the end of a killed process: threads are scheduled and `SIGKILL` works. A Git
child that nobody signals may run for ever, a panic or a set-up failure need never
happen, and since fairness is of the loop as a whole, no key need ever be pressed.
`Shell`'s `FairShell` is weak fairness of the drain, of the frame, of the turn that
follows it and of a running worker: `run_app` polls for a key with a timeout of 100 ms,
so the loop turns without keys, and a replacement's worker, which nothing can cancel,
ends or is lost with its thread. No particular key is assumed.

## Where the code and its documentation differ

The runs above all pass. While modelling, these statements of the documentation were
found not to hold of the code. Each has a configuration of its own that is no part of the
runs; TLC ends each with a counterexample.

- `MCShellDegraded` (`DegradedIsReadOnly`). `docs/usage.md` 243-244: "Mutation actions are
  unavailable in this session"; `docs/safety.md` 191: metadata failures degrade the
  session to read-only operation. `apply_pending_repository_update` (`app.rs` 2968) does not
  ask whether the metadata is ready: a preview that was open when it was lost can still be
  confirmed, and the merge runs.
- `MCShellUnread` (`ConfirmedWasRead`). The comment on `operation_preview_fully_seen`
  (`app.rs` 3520-3527) has a plan confirmable only after it was read to its end. A frame
  too small to draw the dialog keeps its last extent (`note_detail_max_scroll`), so a reader
  who scrolls while nothing is drawn comes to the end unseen. `ConfirmedWasShown` holds
  for everyone else.
- `MCLinkLifecycleUninstall` (`UninstallDisagreementReported`). `apply_uninstall_target`
  reads the link and then unlinks by name. What replaced it in between is removed, the
  rescan sees an empty path and the report is Uninstalled; the documentation of
  `apply_uninstall` says that the rescan makes any disagreement non-silent.
- `MCLinkLifecycleRepair` (`RepairReplacesReceiptedLink`). Under the guard a repair
  compares the link with its plan and not with the receipts. If another process retires
  the receipt and somebody puts the same link back by hand, the repair replaces a link no
  receipt proves any more; `docs/safety.md` says it replaces a link only when it is
  byte-identical to a receipt for that path.
- `MCLinkPlanningOutlook` (`PredictionsAreKept`). An install's probe calls a link it
  could not resolve nowhere and predicts from that what OpenCode will be offered; the
  verification's scan resolves the link, finds something else offered (`operations.rs` 6003)
  and reports a failure nobody caused.
- `MCUpdateCacheLater` (`LaterChecksWin`). `plan_repository_update_for` probes, records,
  and reads the row back. If another process has recorded a later check meanwhile,
  `plan_check_generation` dates the plan by that row. A check a third process reserved
  between the two is then declined when it lands after the verified row; the documentation
  of `repository_verification_check` says it carries a later generation whenever it lands.
  For screens the statement holds, and is proved (`ScreensYield`).
- `MCUpdateCachePanic` (`PlansKeepTheirSource`). After a refused apply the sources are
  loaded again and `superseded_repository_check` expects the plan's among them. If another
  process forgot it since the preview, the process panics.
- `MCMetadataStoreAdoption` (`BaselinesKeepTheirCheckout`). `docs/usage.md` 73-74 and
  `docs/safety.md` 173-175: changed registration invalidates a confirmation. What the guard
  compares (`variant_registration_matches`, `store.rs` 1231-1274) is the number, the label
  and the path, and not the identity the row records: if another session registers another
  checkout at that path after the plan was made, and the planned checkout then stands there
  again, its baseline is recorded on a row that is the other's.
- `MCMetadataStoreEarlier` (`BackupIsWhole`). The comment at `store.rs` 2704-2708 has no
  migration applied over an unknown state; an earlier build that writes after the backup
  took its image has its writes rebuilt without being in it.
- `MCMetadataStoreRefresh` (`RefreshKeepsRegistration`). `load_sources_on` writes what it
  read of a checkout to the row by its id alone, so a load that began before a
  re-registration writes the head of the former checkout into the row of the new one.

## Proofs

Every listed theorem is `Spec => []P`, or `Spec => [][A]_vars`, for arbitrary
constants subject to the named assumptions (`SuccessReceipted` alone has a premise of its own): any number of processes, paths,
checkouts, variants, strangers, children, entries, generations and schema steps. Each inductive
invariant was checked by TLC before it was proved.

- `InstalledLinks_proofs`, of `LinkExchange`. The invariant says where the three kinds of
  objects are at each place: the temporary name is empty before staging and after clean-up,
  it holds the replacement before the exchange, and what it holds after a failed
  revert is never discarded unread. The refinement follows by mapping every
  action to one abstract step or a stutter.
- `InstalledLinks_proofs`, of `Diagnosis` and `LinkPlanning`, for any variants, sources,
  catalogs, contents and requests. `ScanInv` is the invariant of a pass. `Indexed` and
  `Visited` say that, as long as nobody swaps an entry, the index is what is registered and
  readable now and each root that was taken got the status and the observation
  (`Expected`) that its state calls for; `Inspected` says it of the entry under inspection.
  `Labelled` is what is left of that when others do come between: the entry was resolved to
  one place, which the reading names, and was validated there only if it is still there. It
  is what `LabelsAreTrue`, the one statement that holds of raced scans too, rests on.
  From `Visited` at the end of a pass follow the three parts of `ScanIsTrue`: the roots the
  pass could read offer what was sighted, the winner of `resolve_opencode` is the first of
  them in OpenCode's own order, and a row names a source only if each installation was seen
  to come from it. `PlanInv` is the invariant of plans. `TargetsStand` says of each target,
  before and after it was written, what stands in its slot and its root, as long as nobody
  interferes; `ContentStands` that the variant can still be read; `Stated` holds what
  was said of OpenCode to a forecast (`Foresight`) that can be told at every step, of the
  roots that the plan leaves alone and of its own links in the others. Without the forecast
  the invariant is not inductive, because the roots a plan was computed from are the ones
  that it changes. Planning establishes it, one lemma per operation; the recheck and
  the write keep it, and `PlansAreTrue` and `OffersMatchPlans` then compare two readings of
  one set of roots, the probe's and the scan's. `SuccessIsTrue` needs no part of what
  an undisturbed plan has: what a scan verified is there.
- `LinkLifecycle_proofs`. Two strengthenings make the invariant inductive.
  `Placed(p)` ties a process's plan and remaining work to its place (a process in
  the middle of a write has a current slot, and its plan is well formed).
  `Frozen(p)` says what a process that passed its checks under the guard may rely
  on until it releases it: the registry is still the planned one, the receipt set
  is still the previewed one. It is inductive because everything that changes the
  store needs the guard. Of links nothing can be frozen; `OwnedLinksReceipted`
  holds because a receipt is deleted only for a link read absent under the guard,
  while any link Skilled writes is written under it. It excuses a link left
  by a crash or a failed commit, which the code cannot prevent; what a run that reports
  success owes is `SuccessIsDurable`, which rests on a third part, `Honest(p)`: what a run has changed and what it still has to do are together its plan,
  or it says that it stopped; what it wrote has its receipt and what it is through with has
  none, or it says so. Another Skilled process could retire the receipts it speaks of, so
  the theorem assumes there is one (`Alone`); other programs may do what they like.
- `OriginCache_proofs`. The invariant relates the locks to the places: whoever is
  reclaiming holds the activity alone, so no child has a repository open; the
  record names the generation at the repository or quarantine name, and only the
  named places leave anything else.

- `RepositoryChecks_proofs`, of `CheckRuns`. The invariant says, for each place of a worker, what it may
  have in its slot and whether that was reaped (`SignalsReachOwnChild` and
  the reaping in `NoChildOutlivesItsWorker` follow), what a message says about the terminal state
  (`CancellationWins`), and that whatever is at work is the run, the origin check or
  retired, the last of which is cancelled or past its work
  (`ChecksDoNotOverlap`, and `ScreenReturnedLast`, which is the other half of
  `NoChildOutlivesItsWorker`).
- `RepositoryChecks_proofs`, of `RepositoryProbe` and `RepositoryUpdate`, for any trees, links,
  slots and number of interferences. `Asking` says, for each place of a probe, which of
  the checkout's programs it can still come to run: those that the last command which
  looked for them did not see, which is what `since` holds, and those only if nothing
  suppresses or settles them. `ChecksKeepToTheirWord` follows from it. `UpdateInv` has four
  parts. `Typed` is the type invariant with what probes and plans are made of. `Written` says
  of each place what has come about of the merge, of the branch and its log, and of the verdict,
  whoever moved them, and what rows are. `WhatChangedWasStated` follows from it and from the
  comparison, except that an installation the plan is silent about, and that nobody interfered
  with, may not become better either, which is part of `Foreseen`.
  `Guarded` says that, as long as nobody interfered late, what the second scan and the guard
  read still is so: the inventory `before` is of the links and the worktree that stand, the
  statement is `Affected` of them, and no untracked file is in the way. `Kept` says that after
  the merge every slot is as the plan foresees (`Foreseen`), first of what stands (`Sight`),
  then of what the scan wrote down. Between the two lies lemma `MergeForeseen`: for every pair
  of trees and every slot, what a scan will see there once the tree is replaced is what
  `Affected` said of the slot, or what was there before if it was silent. It is proved by what
  becomes of the slot's candidate (untouched, retained, renamed, added, or left, and then
  vacated or replaced by a file), each of which has a lemma that finds the one part of the statement it
  falls under, and that no other part speaks of the slot (`Unsaid`, `SaidOfSlot`).
  `PlansAreKept` is then that the verification of a foreseen slot finds nothing.
- `UpdateCache_proofs`. Once the mark has been written it is at or above every
  generation in a hand, on the row or remembered, and before that nothing is in a
  hand (`Ordered`); no pending generation is on a remembered row (`Apart`), under
  whose generation a verified apply may still write; each place says which of the
  generations, the plan and the answer are set (`Placed`); and what a fetch may
  publish lies between its reading of the tracking reference and the upstream
  (`Fetching`). A legacy store, with a row and no mark, is an initial state.
- `VendoredReplacement_proofs`, of `SkillReplacement`. `Accounted` says that whatever came out of the skill
  directory is in the report already or is the entry of the operation whose proof is
  still to come, and `Untouched` that a run which reports no write has at most such an
  entry in its hands; only the two together say that a blocked run left nothing.
  `Seen` relates the walk to the record: before the commit every path is still to be
  read, as it should be, or changed by somebody else since it was read. `Progress`
  ties the status and the first failure to the place of the run.
- `VendoredReplacement_proofs`, of `OriginEvidence`, `VendoredTree` and `OriginTracking`, for any
  trees, documents, commits, limits and writes of others. `TInv` has three parts. `Covered` is
  what makes a walk that takes many steps whole: of every path of the directory, since the
  operation last marked what stands (the begin of a plan or a check, the end of a fetch, a commit,
  each at or before the walk's first entry, and so `ManifestIsWhole` is a little weaker
  than "during the walk"), an entry was recorded with a value the path had at some moment, or it is listed and still to
  come, or below something that is, or nothing stood there at some moment. It survives
  other programs because the stamp of a file or of a listed directory changes with its
  content, so that a second reading that agrees was of the same writing. `Saw` and its kin say
  the same of the directories and of the documents that were read; and each phase says what
  the session keeps from one observation to the next, which is what a preview, a record
  and a verdict go by. `ManifestIsWhole`, `PreviewStandsAfterFetch` and `AdoptionIsFounded`
  follow, the last by a lemma that evidence which resolves to an origin, read from documents,
  leaves no document that says otherwise (`EvidenceSupports`). `ShapeInv` says that a
  manifest lists its entries in the order of the walk, each directory before what it holds,
  and each path once, and that a pinned commit that is read passed its checks. From it
  follows `ProposalIsSound`: the final manifest lists the final files, with their
  directories, and nothing else (`FinalManifestLists`), every notice is among them
  (`EveryNoticeHeld`), and two manifests with the same entries in this order are the same
  manifest (`SameEntriesSameOrder`), so that a check that finds nothing to change
  proposes the baseline it began from.
  `VerdictInv` is what a verdict of failure rests on, which the others do not reach because
  they speak of what was recorded and not of what would have been. `OfStill` says that while
  nothing is written what has stood is what stands, and that what a walk has open would be
  found as it was; `OfFailure` that a look that ends in "changed" has met a deviation from
  what was saved. `ChangedDeviates` proves that of each step of the walk: a limit is passed only
  by a tree with more than was saved (`LimitsOfLess`), and a document that is withheld or
  unreadable is not one that stood otherwise (`WithheldIsUnavailable`).
  With `TInv`, which has the verified and the incomplete verdicts, `VerdictIsTrue` follows.

- `MetadataStore_proofs`. `Control` ties SQLite's write lock to the place of whoever
  holds it, and says that a process past `Store::open` has a database before it. Three
  invariants rest on that. `Gone`: a start that
  could have known of a database is never one that may create it, which is the second half of
  `DatabaseIsMadeOnce`. `Migrating`: from the reading of the version under the lock to the
  commit what is pending does not change, and a backup held then is complete and of what will
  be rebuilt. `Owned`: numbers are not used twice, so an identity a session holds with the
  row's number is one the user registered; a process about to commit an adoption still has
  its row before it, and no baseline on it. A fourth, `StepsCounted`, gives its first half: what was applied
  to a database is what its version says, because what is pending was computed under the lock from
  the version that the commit finds.
- `Shell_proofs`. `Single`, at most one thing is open, is what makes the three orders of dialogs
  agree: whichever comes first in an order is the only one there. With it each action is one of a few
  kinds (a turn that opens or closes one dialog, a move between screens, a frame, a scroll, a step of a
  worker), and the other parts are proved of the kinds: `Waits` ties the two workers to the
  dialog that waits for them, `Owing` a write to its dialog, and `Seeing` says that a reader
  who scrolls by what is drawn has seen everything above the window, and to the end of it what the last
  frame drew, for frames and dialogs of any size.

These theorems state properties no run lists, which TLC checked while they were proved:
`TypeCorrect` of each module; `FailureIsClean`, `ReceiptIsTrue` and `PathNeverVacated` of a
repair; `MetadataKept`, `EvidenceKept` and `ForgetExact` of the links; `OneRepository`,
`SubstitutesPreserved` and `NothingRetained` of the cache; `TerminalLast`, `RunsReport`,
`NoOverlap` and `PreviewCurrent` of the checks; `GenerationsApart`, `RowsOwned`, `ScreensGiveWay`
and `TrackingAdvances` of their rows; `StopsAtFailure` of a replacement; and
`LostIsNotMadeAgain`, that once the database is gone and no start under way had found the
directory missing, it is gone for good, whatever other starts are between their look and their open.

Assumptions on constants: no process called nobody, at least one registration, finite
numbered slots, checkouts of variants, disjoint model values, finitely many variants
whose names are no labels, catalogued alike, worlds and requests of their kinds, trees whose files lie in
folders, trees in which a path is a file or a directory and no untracked file stands at a tracked
name, names of distinct ranks, skills that are trees, documents and associations of their
kinds, pinned commits whose blobs have contents, a missing value that is none of these,
screens that are not commands, and natural bounds; all are evaluated by TLC in
the runs.

Only model-checked: the liveness properties `GuardIsReleased`, `NeverWaits`,
`CancelledRunsEnd` and `AppliesEnd` (temporal reasoning with fairness and ENABLED is beyond
the prover here).

Several things came of proving. `OpenCodeChangesAreSaid` was false of the model: an uninstallation
of OpenCode's own link alone can leave the other two roots in conflict, which is said by the
conflict that stood before it and by nothing else, as it is in the code. No run had asked for an
uninstallation of some of the links; one does now, and the property speaks of links put into
OpenCode's root. And several choices of `Diagnosis` and `LinkPlanning` were written as CASE with
conditions that overlap, of which TLA+ does not say that the first one is taken; they are
conditionals now, in the order of the code. `PlansAreKept` was false outside TLC's bounds in
two ways. Its exception for links aimed at what the update puts there spoke of dangling links
only, and not of a link at a file in a candidate's place that the update changes, or deletes;
the runs have such trees now. And the property did not say that sources which could not all be
read leave an update withheld. `WhatChangedWasStated` had to allow what others do meanwhile: an
installation that was broken may have been mended by them, which the verification lets pass
(`AsDisclosed` asks that health be no worse). And two unions in the analysis of a fast-forward
lacked parentheses, without which the prover's grammar groups them otherwise than TLC's.
`VerdictIsTrue` had to allow one more case of a failed verification: a `SKILL.md` that is changed
between its validation and the walk is recorded as the walk read it, portable or not, and
verification then refuses it although nothing has changed since. Sizes and sorted listings of
`VendoredTree` are written with cardinalities and an order on names, and not with folds, so
that they could be reasoned about.

## Not modelled

Inside modelled components: creation of a missing skill root, the Windows link
type, timestamps and operation columns of receipts, columns refreshed by rescans,
residue paths and wording. In `OriginCache`, other programs of the same user
writing inside the private quarantine, which the code documents as outside its
boundary. In `RepositoryProbe`, what is abstracted above. In
`OriginTracking`, the grammar of the attribution files, limits on depth and path
length, and a read of the stored record that fails in `verify_saved` (reported as incomplete). In `MetadataStore`, settings, configured agents and the validation of stored
values. Of forgetting, the report that `verify_forget` gives.

Not modelled at all: the walk that finds a checkout's catalogs and its bounds; the parsing
of Git's output (`git.rs`); raw mode, the alternate
screen and the panic hook (`terminal.rs`), whose order with the workers is in `CheckRuns`;
argument parsing and output of the command line; theming and drawing, of which only what the
frame shows of a dialog is in `Shell`; Windows code paths; and the small helpers.

## Plan

What is left, in order: the catalog walk of `source.rs` with its bounds, against a reference
definition; `verify_forget` and the postconditions of a forget as a report; the terminal's
modes across panics on either thread; `OriginTracking` composed with `SkillReplacement`, so that what is
replaced is what was proposed.
