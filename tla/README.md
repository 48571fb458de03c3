# PatchNest in TLA+

PatchNest is a root-manager module for Android. Its shell scripts patch the
kernel of the boot partition with KernelPatch, keep backups, count failed
boots and load kernel modules (KPMs) at boot; a WebUI drives the scripts and
the kernel through a small command line tool. These modules specify the parts
that keep state across steps, failures and reboots; TLC checks them on small
instances, and TLAPS proves every invariant that a run checks for all instances.

## The system

| Component | State | Operations | Talks to | What is hard | What makes it correct |
|---|---|---|---|---|---|
| Boot scripts: `boot_patch.sh`, `boot_unpatch.sh`, `flash_image` | boot partition; backups and manifests named by the minute; working directory `${modDir}/tmp` | unpack, draft manifest, decide, copy, validate, promote, embed, kptools, repack, dd | started by the patch page; `magiskboot`, `kptools`, block device | power failure between any two steps, files not yet synced, commands that fail unseen, two runs in one minute, files of an earlier run | a stock image is never overwritten without a whole backup; a verified manifest tells the truth; success means flashed; each but for exceptions that are named |
| Patch page: `patch.js`, `route.js`, `index.js`, `boot_extract.sh` | boot device, button, shown kernel, the working directory | open, prepare, locate, extract, embed, start, exit handler, cleanup | starts the scripts; shares its directory with the KPM pages | every `await` lets the user go on; cleanup after the exit | each script starts in a fresh directory that matches the partition |
| Bootloop counter: `post-fs-data.sh`, `service.sh` | `boot_count`, `autorecovery_active`, `auto_unpatch_requested` | count, signal, unsignal, reset | each boot runs both scripts | a boot may die between any two writes | never over-counts; the files agree; a bootloop is signalled for good |
| Chunked upload: `kpm.js` | part files, target, worker pool, child processes | take, read, write, time out, cancel, merge, clean | KPM pages; `base64`, `cat` | workers that outlive a failed upload, killed writes that survive, a retry on the same name | a resolved upload left the whole file; every upload ends |
| KPM store and loader: `install_kpm.sh`, `service.sh`, `kpm_verify.sh`, `kpm.js` | `kpm/`, `kpm/failed/`, `kpm_events/`, loaded modules | install, upload and load, unload, boot load loop, quarantine | counter (a panic ends the boot), upload | reinstalls, un-awaited copy and remove, shared signature files | what is loaded is what was installed; strict loads only what is signed |
| Backup page and recovery plan: `backup.js`, `boot_unpatch.js` | backup directory, list of cards, one shared dialog | list, delete, preview, purge, plan | the scripts' backups | previews, refreshes and `rm`s that overlap; manifests without image | the preview is what the purge does; the newest images stay; the plan is true |
| Exclusions: `exclude.js`, `kpextension.c`, `service.sh` | list in memory, switches, `package_config`, kernel flags, KernelSU's allowlist | flip, debounced save, refresh, import, profile, replay at boot | `kpatch exclude_set`, `ksuctl` | saves, timers and processes that nothing orders; entries of several users under one uid | file, kernel and screen agree when all is quiet |
| Repositories: `kpm_repo.js` | saved list, system list, fetches, catalogue, filter | migrate, fetch, merge, search, edit the list | `curl` | parallel requests that fail or overtake each other | the list survives; the first repository wins; the message is true |
| KPM page: `kpm.js`, `kpm_stats.js`, `kpm-update.js` | cards kept in a map, cached statistics, badges | refresh, load, unload, search, tick, annotate | `kpatch kpm`, catalogue | rounds of statistics over a cache, cards that outlive their KPM | the page shows what is loaded; statistics catch up; badges are newer |
| Settings: `index.js`, `stealth.js`, `update-check.js` | a line of `config`, a line per stealth KPM, the update dialog | read, edit in place, check for updates | `service.sh`, KPMs, network | reads and writes that fail, noticed or not; a page drawn anew during a write; two writers of one button | what is shown is what was saved; only newer releases are opened |
| Command line tool: `cli/src` | none of its own; kernel flags | hello, kpm, rehook, exclude, event | supercalls | get, set and verify are separate calls | reports success only for what the kernel has |

The hazards, each at its line, are listed in `PROJECT.json`.

## The modules

| Module | Models | Checked by |
|---|---|---|
| `RecoverableFlash` | what the scripts promise about the partition, nothing else | implemented by `BootScripts` |
| `BootScripts` | both boot scripts and `flash_image`, one action per step; page and power as environment | `MC_BootScripts` with `BootScripts.cfg` |
| `BootScripts_proofs` | theorems about `BootScripts` and `PatchSession` | TLAPS |
| `PatchSession` | the WebUI around the scripts, on the same variables; EXTENDS `BootScripts` | `MC_PatchSession` with `PatchSession.cfg` |
| `BootRecovery` | `post-fs-data.sh` and `service.sh`'s reset, one action per write | `BootRecovery.cfg`, `BootRecoveryPanic.cfg` |
| `KpmUpload` | `uploadFile`: attempts, workers, part files, child processes | `KpmUpload.cfg` |
| `KpmUpload_proofs` | theorems about `KpmUpload` | TLAPS |
| `KpmStore` | `install_kpm.sh`, `compile_kpm.sh`, `service.sh`'s module loop, `kpm_verify.sh`, unload and forget | `KpmStore.cfg` |
| `Boot_proofs` | theorems about `BootRecovery` and `KpmStore` | TLAPS |
| `ExcludeSync` | the exclusion list in its four places, from a flip to the replay at boot | `MC_ExcludeSync` with `ExcludeSync.cfg` |
| `ExcludeSync_proofs` | theorems about `ExcludeSync` | TLAPS |
| `BackupPages` | list, deletion and purge of backups, and the plan shown before an unpatch | `MC_BackupPages` with `BackupPages.cfg`, `BackupPlan.cfg` |
| `BackupPages_proofs` | theorems about `BackupPages` | TLAPS |
| `RepoCatalog` | the list of repositories, the fetches and the merged catalogue | `MC_RepoCatalog` with `RepoCatalog.cfg` |
| `RepoCatalog_proofs` | theorems about `RepoCatalog` | TLAPS |
| `KpmCards` | the cards of the loaded KPMs, their statistics and badges | `MC_KpmCards` with `KpmCards.cfg` |
| `KpmCards_proofs` | theorems about `KpmCards` | TLAPS |
| `Settings` | signature policy, stealth switches, update dialog | `MC_Settings` with `Settings.cfg` |
| `Settings_proofs` | theorems about `Settings` | TLAPS |

### BootScripts

`boot` is the partition, `bak` and `man` the backup directory by minute, `wd`
the working directory (which files are in it, and of which image), `pc`, `job`
and `rc` the running script. An image is its release and whether KernelPatch is
in it; `Torn` is a file or partition that is not whole. `Unpack`, `Draft`,
`Decide`, `Copy`, `Validate`, `Promote`, `Embed`, `Kptools`, `Repack`, `Flash`
and `Written` are the steps of `boot_patch.sh` in order; `boot_unpatch.sh`
shares the first and the last three and has `Inspect` and `Unpatch` of its own.
Every early return of the scripts is a disjunct with `Exit(1)`. `Flash` starts
the dd and makes the partition torn, `Written` ends it. `Crash` may come between
any two steps. `owed` is a ghost variable: the release whose stock image a
script has overwritten and must be able to give back.

What another tool flashes is not the scripts' to recover: `ExternalFlash` clears
`owed`. The device can boot only from a whole image (`PowerOn`).

*Commands whose status is not read.* The scripts go on after them, and so does the
model, with each outcome the command can leave: the write of the draft (171) leaves
the draft, a torn file or the file that was there; `kptools -l` and `sha256sum` print
nothing, which counts as "no backup needed" (266) or "no need unpatch"
(`boot_unpatch.sh:103`); `cp` (294) leaves the copy, a torn file or the older file of
the same minute; `sed` and `mv` (321-322) leave the draft or a torn file; the `cat`
before the dd (`util_functions.sh:334`) leaves a torn partition and status 0. Two
ghosts remember what matters later: `job.missed` that the running script acts
without the backup, or reports a flash, it should have made, and `doubt` the minutes
whose files are not of the run they claim. The properties name these as their
exceptions and allow no other; findings quote the lines.

*What survives a power failure.* `bak` and `man` are the files as the page cache has
them, `bakDisk` and `manDisk` what has reached the storage for certain. The only
`sync` is after the dd (`Sync`, 337). `PowerLoss` may take each file back to what the
storage has, which is an older file, a part of the new one or none; and between the
end of the dd and the sync the partition may be found whole. So a backup can be lost
with a torn partition: this is the second exception of `OverwrittenIsRecoverable`,
and once the sync is done there is none.

Assumed: `rm -f`, `mv` within the working directory and `mkdir` do what they say
(a removal in the backup directory is undone by a power failure if it has not reached
the storage); `magiskboot unpack` refuses an incomplete image; the target is a block
device. The branches
of `flash_image` for character devices and plain files, and the exit 0 without a flash
for a target that is no device (405-422), are not modelled: the page only offers the
block devices that `find_boot_image` finds.

### RecoverableFlash

The abstract partition: `kept` are the stock images of which a whole copy is kept,
`safe` those whose copy is on the storage, `owed` the one overwritten last. A stock
image may be overwritten only while it is kept (`BeginWrite`), the copies may change
but never the one that counts (`Rearrange`), and the end of a write makes them safe.
`Forfeit` is the script that has missed a failure, `Outage` the power failure: it
spares what is safe, and ends the promise only in the middle of a write.

### PatchSession

The same variables with the page around them: `Navigate`, `Prepare`, `Locate`,
`Extract` are `extractAndParseBootimg` split at its awaits, `Click` the two
buttons, `Exited` and `Remove` the exit handler before and after its await,
`BeginUpload` and `EndUpload` the KPM pages' use of the directory.
`session = "open"` is `bootDev` being set. The refinement mapping to
`BootScripts` counts a directory nobody shows as none and the cleanup as a part
of the script's exit.

A *patient* user waits until the kernel is shown before a start and until what
runs has ended before going elsewhere. The code has no lock that makes the user
wait. The run assumes patience. With `Patient = FALSE` the first thing that goes
wrong is `NoStartWhileCleaning`, the sentence of `patch.js:474-476`; a retry that
races with the cleanup of a failed flash in the same minute violates
`OverwrittenIsRecoverable`, and an unpatch whose kernel was removed says "no need
unpatch".

### BootRecovery

`count` and `signal` are the files, `stage` the next write of the boot. `begun` and
`outcome` are ghosts that count what really happened. Everything `service.sh`
does after the reset is the single step `LoadKpms`. Its specification is
`RecoverySpec`: `Boot_proofs` extends this module and `KpmStore`, which has the
plain names.

### KpmUpload

`at` and `chunk` are the workers, `taken` is `nextChunkIdx`, `child` the `base64`
processes that can still write, `part` the part files. Attempts are numbered;
a part remembers the attempt that wrote it. A patient user starts a retry when
the workers, the processes and the un-awaited `rm -rf` of the failed attempt
have gone. Without patience a worker of the failed attempt truncates a part of
the retry and `WholeWhenDone` fails.

### KpmStore

`bin`, `sig` and `args` are `<id>.kpm` (and a sibling `<id>.ko` put there by
hand), `<id>.kpm.sig` and `<id>.args`: what is in each file is the package it
came from, so that a file that outlives its package shows. `Install`, `Copy` or
`Compile`, `Sign`, `WriteArgs` and `LoadNow` are `install_kpm.sh` in order; the
statuses of its writes are not looked at, so each may leave the old file, the new
one or a torn one. `Boot`, `Pick`, `Verify`, `Unsign`, `Load` and `EndLoop` are
`service.sh`: `cur` holds the shell variables of the loop, `todo` the expanded
patterns. `Unload` starts the un-awaited `rm -f`, `Forget` is its end. A
signature is valid when it is of the same package as the binary; `Verify` may
also refuse a valid one, as it does where openssl has no Ed25519.

A module's name in the kernel is taken to be its id. The user does nothing until
the loop has ended, and the kernel is patched. The script is run from a shell:
it refuses the absolute paths that the WebUI passes, and `loadKpmFile` asks for
a file that does not exist (both are findings), so that neither writes into the
store. Archives, events and `.autoload` files are left out: the loop does not
read them.

### ExcludeSync

`list` is `excludedApps`, `shown` the switches that are on, `file`
`package_config`, `excl` the kernel's flags and `allow` KernelSU's allowlist. An
entry is a package, its uid within a user and the user; the file and the kernel
know the first two only (`Main`). `Toggle` is the change handler, with the other
users' switches that follow, the timer of the item and the process for the
kernel; `TimerFires`, `SaveLands` and `CallLands` are the ends of what it starts.
A refresh is `StartRefresh`, `ReadList` and `Render`, which rewrites the file
without waiting when a line matches none or several of the installed entries;
an import or a profile is `Apply` and `Applied`. `Reboot` takes page and flags
away and starts service.sh's `Replay`. `Detect` is `ksu.js`'s detection.

Saves and processes end in any order. A timer that was set while a write was
under way fires after it, because a write takes less than 500 ms (`after`). A
patient user does not flip a switch whose process has not ended, and asks for a
refresh when the last switch has been saved; without patience an old refresh
undoes a switch, and two processes of one uid leave the older value in the
kernel. An import or a profile tells the kernel nothing (a finding): `byList`
holds the entries for which the switch and the kernel may differ until a boot.

### BackupPages

A backup's name is a number, the minute it was taken in. `fetches` are the
refreshes of the list, `dlg` the dialog that deletion and purge share, `previews`
the calls of `updatePreview`, `purge` the confirmed purge with what it has still
to remove, `plan` the recovery plan from its button on. `Patch` is the whole of
`BootScripts` in one step. Manifests outlive their images. A patient user waits
for what a click has started and does not type into the dialog that asks about
one backup. Previews are answered in the order in which they were asked for.
`PurgeKeepsNewest` lets the user go on typing while the purge runs.

### RepoCatalog

A repository is its URL, a module its id. `Saved` and `GetRepos` are `getRepos`
with its migration, `Normal` is `normalizeStoredRepos`: the places of the first of
equal URLs (`Firsts`), read in their order (`Pick`). The catalogue is the set of
its entries, each a module and the repository it was taken from. The code makes
these with loops; `MC_RepoCatalog` writes the loops down and TLC finds them equal to
the definitions for all lists of up to four texts (`ListLoops`, `CatalogLoop`). `FetchRepo`, `Answer` and
`Land` are `fetchRepo` split at its `Promise.all`, `Merged` is its merge, `Filter`
the end of `renderRepoList`. The fields of the manager are free text, so `Typed`
lists what they may hold when they are saved. `Open` is the start of the WebUI,
which asks for the catalogue while `repos.json` is still being read. The older of
two fetches may land last; `CatalogIsOfList` and `SystemListRules` state the two
comments that this and the unawaited read contradict (findings); no run has them.

### KpmCards

A KPM is its name and the build that is loaded. `refreshes` are `refreshKpmList`
before and after its awaits, `dom` the cards on the page, `cached` those that
`kpmItemMap` holds, `passes` the rounds of `refreshKpmDashboard`. `world` is a
number for all that a card's statistics are computed from: `dash`, `cache` and a
round's `val` say of which state they are. `TooOld` is the end of the four seconds
of the cache. `Annotate` puts the badges on the cards that are there when the
first catalogue has come; `Newer` is `compareVersions` on versions it can read.
`Latest` says which entry of a catalogue `diffInstalledVsRepo` ends with: the one
none is newer than, unless the first cannot be read, which then stays. `MC_KpmCards` has the
loop, and TLC finds both equal for all catalogues of up to four entries (`LatestIsLoop`).
The user waits for the list between two loads or unloads: a KPM that is unloaded
and loaded again in another build between two reads of the list keeps its old
card, which nothing in the page would do.

### Settings

A line of a file is how it is written and what it says. `Written` is grep and sed:
a line with a space before its sign is found but not replaced (a finding). `Says` is
what the page reads from a line, `Boots` what `service.sh` makes of it, which does not
trim the value (a finding): they differ for such lines only. `ReadPolicy` and
`ReadEnabled` may fail: the select then shows off and the switch enabled
(`index.js:280-292`, `stealth.js:65-70`). `SelectPolicy` and `PolicySaved`, `Toggle` and
`ToggleSaved` are the two handlers around their await. The policy's write has three
ends: it lands; it fails and `|| true` hides it; or no command could be run and the
select goes back to what was read first. `ShownIsSaved` says where what is shown may
differ from what is saved; the ghosts `stale`, `doubt` and a card's `sure` are exactly
these cases, so that any other way of showing the wrong value violates it.

A refresh of the stealth page may begin while a switch is being written: the cards
are gone then (`Gone`) and the write ends without one, and a card that was read before
it landed is not `sure`. The user waits for the page before he opens it again, and
for a write before he changes the same setting: two refreshes at once show each card
twice, and of two commands on one file the last to end wins.

The two update checks fill one dialog: `onclick` is what the check at the start sets,
`once` the listeners that the settings page's adds. That page begins a check at every
click, although a comment says it debounces (a finding). `OfferIsSafe` claims less when
it has checked: an older listener may then open what the dialog does not show, or a
release without its hash.

## What the runs show

| Run | Instance | Shows |
|---|---|---|
| `BootScripts` | 2 releases; the first minute in full, the second with one release and at most one fault; no forced re-backup | types; `OverwrittenIsRecoverable`; `VerifiedMeansWhole`; implements `RecoverableFlash` |
| `PatchSession` | 1 release; the first minute in full, the second without faults of the first; other tools flash while the page is open, patient user | types; `ScriptFindsFreshDir`; `SuccessMeansFlashed`; implements `BootScripts` |
| `BootRecovery` | threshold 3 | types; `CountIsHonest`; `SignalIsExact`; `LoopIsSignalled` |
| `KpmUpload` | 3 chunks, 2 workers, 2 attempts, patient user | types; `WholeWhenDone`; `Settles` |
| `KpmStore` | 1 id with a `.kpm` and a `.ko`; a signed, an unsigned and a source package | types; `StrictLoadsSigned`; `DoneMatchesStore` |
| `ExcludeSync` | a package of two users and two packages of one uid, two foreign lines; 2 flips, 3 refreshes, 1 reboot; with and without KernelSU | types; `FileFollowsList`; `SwitchesTellTheTruth`; `TogglesAreSaved` |
| `BackupPages` | 3 old backups with manifests or none, a 4th to come; 0, 1 or 3 typed; 2 previews and 2 refreshes at once | types; `PreviewIsTrue`; `ListIsCurrent`; `PurgeKeepsNewest`; `PurgeEnds` |
| `RepoCatalog` | default, retired and third-party URL that share a module; a system list that names one twice; 2 fetches at once, the WebUI opened twice | types; `AskedListIsClean`; `FirstRepositoryWins`; `MessageIsTrue`; `SavedListSurvives`; `LoadingEnds` |
| `KpmCards` | 1 KPM in 2 builds; a catalogue with an unreadable entry, one without an update; 2 loads, unloads or refreshes, 2 rounds at once | types; `CardsAreTrue`; `BadgeIsNewer`; `StatsCatchUp` |
| `Settings` | 2 stealth KPMs; tight and spaced lines; an equal release and a newer one with or without hash; 5 clicks, on one of the three pages | types; `ShownIsSaved`; `OfferIsSafe` |
| `BootRecoveryPanic` | threshold 3 | violated: a KPM that panics in every boot is never signalled |
| `BackupPlan` | as `BackupPages` | violated: the plan for the unpatch of a patched image says that nothing is lost |

The two violated properties are sentences of the code's own comments. The
findings in `PROJECT.json` quote them, together with disagreements found while
modelling that no run shows; for some of these a module states the comment as a
property (`RecoveryHasManifest`, `NoStartWhileCleaning`, `SignalMeansFailure`,
`WarnLoadsUnsigned`, `ProfileReachesKernel`, `CatalogIsOfList`, `SystemListRules`, `CardsHaveBadges`), which
no run checks because the code does not keep it.

**Bounds.** Two releases let a backup of one be in the way of the other; with
two minutes two runs share a file name or do not, and more minutes only repeat
these cases. Releases are interchangeable, hence the symmetry; runs with
liveness use none. A fault is a torn file, a file in doubt or a failure not noticed. The
first minute has all combinations of them with both releases; a second minute is
followed from states with one release and at most one fault (`SecondMinute`), or none
in `PatchSession` (`SoundMinute`), because the product of two faulty minutes is too
large for TLC. Two faults in different minutes are covered by the theorems only. `PatchSession` has one release because the mapping has
already been checked with two in `BootScripts`, and its properties compare an
image with the partition only. Three chunks and two workers let a worker take
a second chunk while the other one fails; two attempts are the least that share
part files. In `KpmStore` files of different ids share nothing, so one id with two
files has every conflict there is: two binaries under one signature and one name
in the kernel; the three packages differ in all that the scripts look at. The
threshold is the code's.

In `ExcludeSync` entries meet in three ways, by package, by uid and by line of the
file, and the four installed entries have each of these; two flips let two timers,
two writes and two processes overlap, and three refreshes or imports with one
reboot let each of these come before, between and after them. In `BackupPages`
a purge that keeps the default of three removes something only from four backups
on; two previews and two refreshes are the least that can overtake each other. In
`RepoCatalog` two catalogues share a module, so that the order matters, and two
fetches of up to two requests each can land in any order; opening the WebUI twice
reads what the first time has migrated. In `KpmCards` KPMs share only the list and
the search, so one that is there or not, in two builds, has all cases but those of
the list's order; two rounds are the least that use one cache. In `Settings` the
two KPMs' switches share only the refresh, and three releases are all that the
check tells apart: not newer, newer with a hash and newer without. The three pages share nothing but the number
of clicks, so a behaviour is followed while it is about one of them (`OnePage`). The theorems
below are for all bounds, so that the small instances matter for the rest only.

`CHECK_DEADLOCK FALSE` stands where the system may stop: a partition that is torn
does not boot, and attempts and clicks are bounded.

**`RebackupFlags = {FALSE}`.** With `KP_REBACKUP=1` a second run in the minute of
a first patch copies the patched image over the stock backup. No caller in the
repository sets the variable; a run that has `TRUE` in the set violates
`OverwrittenIsRecoverable`.

**Fairness.** `BootRecovery`: init runs a script it has started, so weak fairness
on the scripts' steps; booting again is an assumption of the liveness property,
not of the specification. `KpmUpload`: JavaScript's event loop runs what is
ready and timers fire, so weak fairness on taking a chunk, on spawning, on the
timers, on the join and on the cleanup; nothing is assumed of the write and the
merge, which may hang. `ExcludeSync`: timers fire, processes end and `await`s go
on, so weak fairness on `System`, whose steps each shorten what is under way; the
user's are free. `BackupPages`: commands are answered, and those of a purge too while the
user goes on typing and each key asks for another answer, hence the second conjunct. `RepoCatalog`:
every request has `--max-time 10`, so weak fairness on answers and on their join;
nothing is assumed of the read of `repos.json`. `KpmCards`: the commands of a refresh and of a
round end, the five-second timer ticks and the four seconds of the cache pass, each
for itself. Nothing is assumed of the WebUI's user anywhere. `BootScripts`, `PatchSession`,
`KpmStore` and `Settings` are safety only: a power failure or a write that fails may
end what they do.

## What is proved

For all values of the constants that satisfy the modules' assumptions:

* `BootScripts_proofs`: `TypeCorrect`; `Recoverable`, `Verified` and `Implements`, for
  callers that do not force a re-backup and users who do not flash with another tool
  while the page is open (`Careful`); `Flashed` for such users. The exceptions are in
  the properties themselves. `TypeOK` alone
  is not inductive, and neither is recoverability: what makes it so is that the
  clock is not before the running script's minute (`Clocked`), that the products
  in the directory come from the image on the partition (`FreshDir`, `Products`),
  that between copy and flash the backup of the script's minute is that image
  (`Backup`) unless the script has missed a failure, that the release owed is not the
  one a script is about to write over (`OwedHere`), that the partition is torn while
  it is written (`WritingTorn`), and that outside a dd the backup of the release owed
  is on the storage, or the partition is that release (`Durable`). One lemma per action shows that it keeps the conjunction.
  `Implements`: the scripts implement `RecoverableFlash`, where copy and validation
  are its `Rearrange`, the start and the end of the dd its two writes.
  About `PatchSession` the same module has `SessionTypeCorrect`, and for a patient
  user `StartsFresh`, `SessionFlashed` and `SessionImplements`. They rest on `SessionInv`: one thing at a time uses the directory
  (`Alone`), nothing is shown before it is extracted or started before the page is
  opened again (`Onscreen`), no product of a script is left while the page has
  the device (`Emptied`), a shown kernel is that of the partition (`KernelShown`); so a
  script starts where the invariant above holds, and the lemmas about the scripts'
  steps are used as they are.
* `Boot_proofs`, about the counter: `CounterTypes`, `Honest`, `Exact`. The invariant
  relates the pending write to the file and the two files to the step.
  About the store: `TypeCorrect`; `StrictSafe`, from: a file that comes to the
  load under strict is signed (`StrictLoad`); `DoneSafe`, from: of the files that
  the loop has passed each one that is not empty is loaded, each loaded module is
  one of them (`PassedIsLoaded`, `LoadedIsPassed`), and a file on the way to
  losing its signature is already gone (`Unsigning`). Both rest on `Alone`:
  nobody installs or removes before the loop's end.
* `KpmUpload_proofs`: `TypeCorrect` from `ChunkInFile` (a worker's index is in its
  file) and `Untouched` (attempts to come have taken nothing); `WholeFile` for a
  patient user, from: only the present attempt's workers and processes are there
  (`Alone`), no two workers have the same chunk (`Distinct`), every chunk taken is
  being worked on or written (`Owned`, `Filled`, `Finished`), and the target is
  made of all of them (`Joined`, `Made`).
* `ExcludeSync_proofs`: `TypeCorrect`; for a patient user `FileFollows` and
  `SwitchesAreTrue`. `FileFollows` rests on `Flow`: writes have different ids
  (`Unique`), one refresh or import is under way and nothing changes what it has
  read (`OneRefresh`, `Undisturbed`), a write of an older list is followed by
  a timer that waits for it (`Covered`), and with no timer and no write left the
  file is the list (`FileOfList`). `SwitchesAreTrue` rests on `Honest`: one
  process of an entry's uid at a time (`Calm`), and for each entry that shares its
  uid with no other package (`Own`) file, list and switch say what the kernel is
  told in the end (`KernelTruth`, with `Told`: what it has, unless a process or the
  replay is about to change it), or KernelSU's allowlist (`KsuTruth`).
* `BackupPages_proofs`: `TypeCorrect`; for a patient user `NewestKept`, from: what a
  purge has still to remove has enough newer images, and those are removed after
  it if at all (`Kept`); `CardsAreCurrent`, from: a refresh is alone and adds what is
  still there to an empty page (`Current`); `PreviewHolds`, from: the last preview to
  be answered is of the number in the field, counted on the images that are there
  (`Foreseen`).
* `KpmCards_proofs`: `TypeCorrect`; `PageIsTrue` for a patient user, from: of loads,
  unloads and refreshes one is under way (`OneAtATime`), what a refresh has read is
  loaded (`ReadIsTrue`), and a card that the map holds is of the loaded build
  and is hidden when the search does not select it (`HeldIsTrue`). `BadgesAreNewer`,
  for every user, from: before the catalogue has come no card has a badge, and later
  a card keeps what it has or is new and has none (`Badged`, `BadgesStay`). It rests on
  `VersionsAreOrdered`, that `compareVersions` is a strict total order on the versions
  it can read: so the entry none is newer than is one version (`LatestIsBest`), and a
  badge that was newer than the installed version is newer than whatever the order
  of the catalogue is.
* `RepoCatalog_proofs`: `TypeCorrect`, `AsksClean`, `FirstWins`, `MessageTrue`, and of
  the steps `ListSurvives` and `CleanListStays`, all for every user. The invariant adds to
  the properties that the answer of `repos.json` is read once (`ReadOnce`), that before
  the first opening nothing is fetched or edited (`Opened`) and that the catalogue's entries are of
  the list it was fetched with (`Listed`). Under it are three lemmas about lists of any
  length: the places that `Pick` reads have ranks 1, 2, ... in their order
  (`Ranks`, `Picked`); `Normal` returns a list without retired or equal URLs
  (`NormalClean`); and such a list it leaves alone (`CleanIsNormal`), so reading
  a list any number of times changes it once at most.
* `Settings_proofs`: `TypeCorrect`; `OffersSafe`, from: until the settings page has
  checked, one check alone has filled the dialog (`Offered`); `SavedIsShown` for a
  patient user, however lines are written and whatever fails, from: the tag of a sure
  card says what the file says, and a write is on its way exactly where a switch says
  otherwise (`StealthSync`); at most the shown policy is being written, and what was read
  first is what boot reads until something speaks against it (`PolicySync`).

The assumptions are those the modules name: bounds are natural numbers, flags
Boolean, `None`, `Torn`, `NoFile` and `NoProfile` differ from every value they stand
beside; in `ExcludeSync` an entry is its three fields and a CSV file names the first
user's; in `KpmCards` a refresh can be under way, and the versions that can be read
are lists of numbers, not empty and as long as each other, as `parseVersion` returns them. Where a theorem says `Patient` or `Careful`, that
is its hypothesis and not an assumption of the specification; `SessionImplements` also
needs a caller that does not force a re-backup to be allowed.

Only model-checked: all liveness (`LoopIsSignalled`, `Settles`, `TogglesAreSaved`,
`PurgeEnds`, `LoadingEnds`, `StatsCatchUp`), which is out of the prover's reach; and
that `Normal`, `Kept`, `Merged` and `Latest` are what the code's loops compute, which TLC
checks for lists of up to four elements: for every length it needs an induction over the list
whose step the prover's library cannot instantiate.

## Not modelled

* The command line tool as a component. It is one process per command, which keeps nothing; what its commands
  do to the kernel are steps of `KpmStore`, `KpmCards` and `ExcludeSync`. The
  get, set and verify of `exclude_set` are one step: no two processes of a patient
  user change one flag at once, and the verification only decides the exit status,
  which the page ignores.
* The argument list of the patch script, the list of KPMs on the patch page, and
  the framing of a KPM's arguments (`argv_v1`), which is a pure function without state
  and has tests at both of its bounds.
* The rehook switch and KernelSU's configuration dialog: one command reads a value
  and one writes it.
* Branches of modelled parts: a save of `package_config` that fails without being
  looked at (`exclude.js:106`), and a read of KernelSU's allowlist that fails
  (`ExcludeSync`); a negative number to keep (`BackupPages`), which `parseInt` lets through although
  the field says `min="1"`, and with which `slice` spares all but the oldest images; an element of the system list that is no object and throws
  outside the `try` (`RepoCatalog`).
* Two scripts, or an extraction beside a script, in one directory; impatient users.
  The code has no lock against them. The modules take `Patient = FALSE`, and the
  sections above say what goes wrong first; a property that holds for such users
  is checked where there is one (`OfferIsSafe`, all type invariants).
* `KpmStore` composed with `BootRecovery`. They share the boot and nothing else:
  `BootRecovery`'s `LoadKpms` is the loop of `KpmStore`, which may bring the kernel down,
  and the store does not read the counter.
* Archives, events and `.autoload` files of the store, control messages to loaded
  KPMs, copies to Download and to the clipboard, hashes and sizes, icons.
* Functions that nothing calls: `auto_unpatch`, `ak3-recovery.js`,
  `runUnpatchWithConfirmation`.
* Status line, installer and detection scripts, which are straight-line and keep no
  state; language, theme, log, changelog, dashboard and progress display, which only
  show; KPM prototypes and kernel probes, which would need a model of the kernel;
  build and release automation.
