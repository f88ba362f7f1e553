# vlessvmore in TLA+

vlessvmore runs a sing-box VLESS/Reality proxy for a handful of users. One Go process (`vlessvmore
serve`) keeps the users in JSON files, turns the active ones into a sing-box config, runs sing-box
as a child, reloads it on every change, drains its traffic counters, and turns off users who are
out of quota or time. This directory models that process: the modules below are checked by TLC on
small instances, and theorems about them are proved by TLAPS for every value of the constants.
Paths are under `src/internal/` unless they begin with a capital letter or `cli/`.

## 1. Inventory

| component | state | operations | source |
|---|---|---|---|
| reload loop | the installed config file, the debounce window, `lastErr`, who waits | `Start`, `Reload`, `loop`, `apply`, `render`, `Status`, `Stop` | `singbox/manager.go`, `singbox/check.go` |
| supervisor | `cmd`, `exited`, `started`, the backoff, `done` | `Start`, `spawn`, `supervise`, `Reload`, `PID`, `Stop` | `singbox/supervise.go` |
| daemon | the context, the deferred calls, the listeners | `serve` | `cli/serve.go` |
| collector and limits | the counters in flight, the users being judged | `Run`, `CollectOnce`, `enforceAndReload`, `Enforce` | `stats/stats.go` |
| usage store | hourly buckets per user (SQLite), the last backup | `Add`, `TotalSince`, `Series`, `DeleteUser`, `Prune`, `Compact`, `Import` | `store/usage.go` |
| user store | users.json and its copy in memory | `Create`, `Update`, `ResetUsageWindow`, `RotateSubToken`, `Delete`, `Replace`, `OpenUsers` | `store/users.go`, `store/jsonfile.go` |
| tokens | tokens.json and its copy in memory, the last saved use of each | `OpenTokens`, `Create`, `Lookup`, `Revoke`, `Delete`, `Replace` | `store/tokens.go` |
| identity | identity.json (the Reality key) and its copy in memory | `OpenIdentity`, `Reload`, `Replace` | `store/identity.go` |
| export, import | none of their own; they read and write all files | `Export`, `Import` | `store/transfer.go`, `cli/transfer.go` |
| backup pusher | the timer of `Run`; the last recorded copy, in stats.db | `Run`, `Once`, `Probe`, `Build`, `Push` | `backup/` |
| API | none; a goroutine per request | user, token, usage and reload endpoints | `api/api.go` |
| pages and lists | none; they show a user's state, traffic and limits | `show`, `subscription`, `user ls`, `user show` | `api/show.go`, `api/sub.go`, `cli/user.go` |
| links, config, ids | none | pure conversions | `link/`, `config/`, `ids/`, ... |

How they interact. A handler changes the user store, whose lock covers the memory copy and the
save, and then calls `Manager.Reload`; so does the collector after enforcement. `Reload` sends a
channel to the one goroutine that runs `loop`, which collects requests for a second, renders the
active users, checks the document with `sing-box check`, replaces the config file by a rename and
calls `Supervisor.Reload`, which sends SIGHUP. A second goroutine, `supervise`, waits for the
process and restarts it. `serve` ties their lives to one context, cancelled by SIGTERM or by a
deferred call. The user store and the usage store have different locks and different files: no
operation is atomic across the two. The CLI's `import`, `identity`, `export` and `render` are other
processes that open, and some of them write, the same files. The daemon reads users.json and
tokens.json once, when it starts, and identity.json before every render. The backup pusher, a
goroutine of its own, reads all the files from disk, with no lock, every few minutes.

What is hard here:

- *Interleaving*: a shared window must answer for everybody in it and for nothing saved after it
  read the users; a `Supervisor.Reload` can fall between the start of a process and its being
  recorded; enforcement judges a copy of users that operators are changing.
- *Failure*: the render, the check, the write, the signal, the start of the binary and every
  save can fail on their own; sing-box dies, or is killed by a signal it was not ready for; an
  import stops half way; the backup agent accepts an archive and its answer does not arrive.
- *Ends*: clients go away with their change saved; the context is cancelled with a window open;
  `Stop` races a restart; the daemon ends with traffic drained and not recorded.
- *Time*: a debounce, a doubling backoff, a grace period, hours, quota windows and expiry; the
  delay, the deadline and the floor of the backups.

What makes each part correct: a true answer is true of the config on disk (reload loop); one
process at a time, and it serves that config (supervisor); what was confirmed is what is served
(daemon); traffic is counted once, and whoever should be off comes off and stays off (collector); names, UUIDs
and subscription URLs stay unique, and memory and file agree (user store); a credential is good
exactly if its owner was told so (tokens); users stay with the key they came with, and links carry
the key that is installed (identity, import); what is recorded as backed up was accepted, and what
comes to rest gets backed up (pusher); what is shown is how the next config will treat the user
(pages and lists).

## 2. Modules

| module | models | state ↔ code |
|---|---|---|
| `Publication` | the promise of the reload path, with no loop or process in it | abstract |
| `Manager` | `singbox.Manager`, and its callers in `api` and `stats` | `loop` is where `Start`/`loop`/`apply`/`render` stand; `pc[c]`, `done[c]` a caller of `Reload` and its channel; `installed` the file; `started`, `lastErr` the fields |
| `Supervisor` | `singbox.Supervisor`, `serve`'s end, an external sing-box | `sup` is where `spawn`/`supervise` stand, `cmd`, `exited`, `backoff` the fields, `main` and `target` are `serve` and `Stop`; `proc`, `cfg`, `sig` belong to the child |
| `Daemon` | both together, as `serve` does | `Manager` and `Supervisor` by `INSTANCE`: Supervisor's `disk` is Manager's `installed`, and `owed` is `loop = "signalling"` |
| `Meter` | the promise of the accounting, with no counters, transactions or hours in it | abstract |
| `Collector` | `stats.Collector` with the usage store, the handlers and `Store.DeleteUser` | `at` is where `Run` stands, `acct` the stored users, `rows` the buckets, `counter` and `live` are sing-box's, `asked` a handler's pending reload |
| `Register` | the promise of a store that a daemon keeps in memory and on disk, with no list, file or save in it | abstract |
| `ByHand` | `Collector`, and who was disabled by hand | one history variable |
| `Users` | `store.Users` in the daemon, users.json, commands that open the data directory, a text editor | `list` is the daemon's copy and `file` users.json; `up` is where the daemon's `OpenUsers` stands, `cli` and `read` are another process and what it has read |
| `Reports` | what is shown of a user: `Series`, the usage summary, the lists of the CLI, the setup page, the subscription header | operators over `Collector`'s state, no state of its own |
| `BackupStore` | the promise of automatic backups, with no pass, digest or clock in it | abstract |
| `Backup` | `backup.Pusher` in a daemon that ends and starts, next to anybody who writes the files | `at` is where `Once` stands, `read` the files this phase has read, `wait` and `spent` the timer and the deadline; `last` and `age` are the row in stats.db, `kept` what the agents hold |
| `Tokens` | `store.Tokens` in the daemon, tokens.json, an import | `list` and `flushed` are the fields, `file` tokens.json |
| `Identity` | `store.IdentityStore` in the daemon, `Store.Open`, the renders, commands that open the directory, mishaps with the file | `file` and `users` are identity.json and users.json, `mem` and `memUsers` what the daemon holds, `installed` the key and users of sing-box's config, `at` and `cli` where the daemon and a command stand |
| `*_proofs` | the theorems about a module | `Collector_proofs` extends `Reports`; `Daemon_proofs` has the proofs of the two parts as instances |
| `MC*` | the constants of the runs | |

Abstractions, and why they lose nothing that the properties tell apart.

- A config is the *set of changes* it was rendered from (`Manager`), or an opaque value
  (`Supervisor`). Every change is additive in that view (disabling a user is a change too), which
  is what "the answer is about my change" needs. The template and the document are left out.
- `render` is `ReadUsers` and then `Install` or `RenderFails`: the read of the users and the
  rename are the only moments at which other goroutines can tell the difference; the identity, the
  template, the check and the write may each fail, before or after the read.
- The collector's reload, and a handler's, is one step in `Collector` (`Publish`): `Manager` is
  where its window and its failures are. There a reload fails or takes the users as they are.
- Traffic is in units, both directions together, as `UsedBytes` adds them; time is the hour, since
  `TotalSince` and `Prune` see no less. Expiry is at an hour for the same reason.
- A user who is created disabled is `Create` and then `Disable`. Renaming, UUIDs and subscription
  tokens are `Users`'. A save that fails changes nothing, in memory or on disk (`Users` checks and
  proves it: `KeepsPromise`, `MemoryIsFile`), so in `Collector` the handlers' failed operations are no step at all.
- In `Users` an operation and its save are one step, as the lock makes them, with both outcomes of
  the save. A name or an id is a string of a finite set, with `Fold` and `Lower` for the two ways
  the code compares strings and `Trim` for `TrimSpace`; UUIDs are compared as they are written, as
  in the code. Random ids and tokens are nobody's so far. Limits, note and timestamps are the one
  field `active`. An empty or malformed field refuses a file just as a duplicate does.
- In `Tokens` an id stands for its token's secret and hash, both random. `Revoke` keeps the row,
  `Delete` removes it; time is in ticks, of which `LastUsedResolution` is a few.
- In `Identity` a keypair and short id are one value, and of the users it only matters where they
  came from: made here, or from a dump that had its key or had none. Generated keys are new.
- In `Backup` a digest is what was read of each file (digests do not collide), files are read one
  at a time, and a tick is the common measure of the delay, the period and the deadline of a pass.
  Traffic is not in the digest, so stats.db is only the step that packs it and may miss the
  deadline.
- In `Reports` upload and download are one number, `disabled:quota` is `quota`, and formats,
  languages and QR codes are left out; what is shown is what the text is made from.
- sing-box is external. A signal before its `signal.Notify` kills it, after that one signal is
  queued; it reads its config when it starts and after SIGHUP, and may exit whenever it likes.
  Signals go only to the latest process, or to one that has been reaped (an error in Go).
  That the kernel refuses a signal to a process that is there is modelled where `Stop` returns
  that error (`StopRefused`), and left out of `Reload`, whose error return is reached by a reaped
  process and by a missing one: sing-box runs as the daemon's user.

History variables say what the properties need and the code does not keep: `need` (what was stored
when a call was made), `missed`, `answer`, `stopped`, `sent`, `lossy`, `byHand`, `crossed`,
`unsure`, `unread`, `dead`, `valid`, `unsaved`, `meddled`, `seen`, `calm`. No guard reads them,
except the bound on `sent`, and `dead` where a new token is to be one that never was; `drawn` and
`used` say the same of random ids and keys.

Operators introduced by "Fault:" are not part of any specification: each is a plausible mistake in
the definition below it, and shows that the properties notice it.

## 3. Runs

| run | instance | shows |
|---|---|---|
| `Manager` | a handler, a plain `POST /api/reload`, a call of the collector; one change made while the daemon was down | every answer is true, nobody taken is left, the status agrees, every call returns, and the loop implements `Publication`, by which a config never goes back |
| `Supervisor` | two configs installed in turn for ever; backoff 1, 2, 3 | one process at a time, it serves what is installed, an orderly stop ends and leaves nothing behind, a crash is restarted, a confirmed config goes live |
| `Daemon` | a handler, a plain reload, an offline change; backoff 1 | what `"reloaded": true` said is what sing-box serves, then and after every crash; no earlier run's config is ever served |
| `Collector` | one user who is created, limited, disabled, reset and deleted and sends one unit; one settled user who expires; two hours, a retention of none | traffic is counted once, and shown once however it is cut into intervals; the collector implements `Meter`; whoever is to be off gets off, stays so while over quota, and is shown so, unless a reload or check failed; nobody is turned off who has quota and time; list, page and header show how the next config treats a user; a deleted user leaves no rows unless a pass of the collector was under way |
| `Users` | two ids, five names, two UUIDs, three tokens; three dumps | no two users share an id, a UUID or a name; an id finds its user whatever others are called; every user has a subscription URL that leads to them, and a dead URL stays dead; the store implements `Register`: an operation is done to one user, and stays done, or has not happened |
| `Backup` | three files, a config of mode `relaxed`, `all` at another agent, or none; two writes by anybody; delay 1, period 2, deadline 1 | the pusher implements `BackupStore`; mode `all` keeps its floor; what comes to rest gets recorded as sent |
| `Tokens` | two tokens, the second perhaps labelled with the first one's id; three dumps; four ticks, a resolution of two | good are exactly the tokens whose owners were told so, in memory and file; the file knows the last use but for one resolution |
| `Identity` | the deployment's key, a dump's, two more to be generated or set | links carry the installed key; users of a dump never meet another key than its own; no key is used that the file does not hold |
| `SupervisorStopEnds`, `CollectorRetry`, `CollectorByHand`, `UsersImport` | as above (`CollectorRetry`: the expiring user alone) | disagreements of section 5 |

Bounds. Three calls give a window with an opener, a joiner, and a caller who comes after the users
were read, and one of each kind of caller; calls are executions, so a repeated request is another
call. Two configs are enough to tell current from stale, as a supervisor never compares more than
the loaded one with the installed one, and installs are unbounded. The backoff 1, 2, 3 doubles
once and is capped once, the cap not being a power of two. Two hours put a reset of the window, an
expiry and a prune after, or in the middle of, recorded traffic; one unit reaches the quota of
one, and is counted twice or not at all if anything goes wrong with it; for other amounts, longer
retentions and more hours there are the theorems. Hours and units are the only counters
and are bounded by `LastHour` and `MaxTraffic`. The names of `Users` are one in two spellings, one with
a space around it, one of white space only, and one that is an id in other letters; the dumps lack
a token, name a user by another's id, or are refused. Two users suffice for uniqueness, a relation
of pairs, and three tokens for one in use, one in a dump and one rotated away; `Lower` is `Fold`
there. More tokens or keys would add no case: properties speak of one token and its neighbour, and of
a key that is or is not the one it came with. Two writes put one between the probe and the archive and one
within the archive; the three files have the config first, which is what decides the next pass. The
period is two delays, so that a pass can come just too early for the floor, exactly at it or, by the
deadline, after it; `Floor` is proved for every other choice. `Users`, `Tokens` and `Identity` carry no liveness: nothing in the stores waits.
`Daemon` carries none: its parts do. The widths of `Series` are all up to the whole history.
`Collector` and `Daemon` are checked without symmetry; the users have different parts.

Deadlock is checked everywhere. `Ended` is a stutter for the state in which the daemon has ended
and so have its callers or sing-box; a run that stops anywhere else is reported.

Fairness.

- `Manager`: weak fairness of the loop and of the callers' own steps: goroutines run, and
  `sing-box check` ends (the code gives it no time limit; a check that hangs is a hazard no
  property excludes). Clients need not disconnect, so a caller left behind by a shutdown may wait
  for ever; the collector's context is the daemon's, so it withdraws.
- `Supervisor`: weak fairness of `supervise`, `Stop` and the callers of `Reload`; strong fairness
  of a spawn that succeeds and of sing-box's boot and load. The binary may fail to start any number
  of times, and sing-box may crash any number of times, but not always: "keep retrying rather than
  giving up" promises no more. sing-box need not obey SIGTERM.
- `Collector`: weak fairness of the collector and of the handlers' reloads, strong fairness of the
  expiry tick, as `select` chooses among ready tickers at random. Nothing is assumed of a
  reload: `CutOff` says what holds if they fail, `RecoveringSpec` assumes they sometimes succeed.
  `CutOff` promises moments at which nobody is wrongly served, again and again; between them
  traffic and the clock may put somebody past a limit before the next tick finds it.
- `Backup`: weak fairness of the clock and of the pusher's steps, and of the failure that ends a
  pass whose deadline has passed: the context ends, and every call of the pass heeds it. Nothing is
  assumed of the agent. `Copied` speaks of the case that the daemon stays up and failures cease.

## 4. Theorems

All are proved from the modules' named assumptions on constants (`ManagerAssumption`,
`SupervisorAssumption`, `DaemonAssumption`, `CollectorAssumption`, `UsersAssumption`,
`BackupAssumption`, `TokensAssumption`, `IdentityAssumption`) for any set of calls, configs, users,
files, keys and bounds. Each safety property that a passing run checks is one of them.

- `Manager_proofs`: `TypeCorrect`, `AnswersAreTrue` (`Committed`), `StartIsCurrent`,
  `NobodyIsForgotten`, `StatusIsRight`, `ConfigNeverGoesBack` and `Refinement` (`KeepsPromise`).
  That an answer is true is not inductive: when the loop answers, it must still be known that the
  document it installed had everything its waiters needed. `IInv` adds what a document in work holds
  (`WindowInv`), that what is rendered was stored (`StoredInv`), and who can be where (`PlaceInv`: no
  call is past the first `select` before the loop runs, and only an open window has waiters).
  One lemma per action shows that `IInv` is preserved. `Committed` also rests on the monotonicity
  of `installed`, which is `ConfigNeverGoesBack`. The refinement maps each step to `Ask`,
  `Publish`, `Confirm`, `Refuse` or a stutter.
- `Supervisor_proofs`: `TypeCorrect`, `ServingIsCurrent` (`ServesInstalled`), `RunningIsRight`,
  `StopIsClean`, `NeverTwo` (`OneAtATime`). The strengthening is `HandleInv`: at each place of
  `supervise`, what `cmd` and `exited` are and what the process can be, and `ServeInv` for `serve`.
- `Daemon_proofs`: `ConfirmedIsReal` (`ConfirmedIsServed`), `NothingStale` (`NeverStale`), and
  `Refinement`: the daemon as a whole implements `Publication`. Every
  step of the daemon is one of `Manager` or leaves it alone, so `Manager_proofs`' invariant holds in
  it; it is one of `Supervisor` too, except that the first config is installed by a step that
  `Supervisor` does not have. `Link` (there is a sing-box only once `Start` has installed its
  config) makes that step harmless, so `Supervisor_proofs`' invariant holds as well. `Kept`, the
  third part, speaks of the moment between an install and its signal, when what is served may be
  older than the file: what was confirmed is in it nevertheless, and nothing is confirmed then.
- `Collector_proofs`: `TypeCorrect`, `DeletionIsThorough` (`DeletedLeavesNothing`),
  `NobodyIsWronged` (`RightlyTurnedOff`), `ShownIsServed` (`ShownAsServed`), and `NobodyIsHalfOff`:
  no user reads as enabled and as turned off by enforcement, by following the accounts through the
  handlers and `TurnOff`, as no other step writes them. `Leftover` says where traffic of a deleted
  user can still be, `Judged` what is known of the user found: the reason that was found holds of
  the copy, and of the user unless their limits have changed since.
  `TrafficIsConserved` (`KeepsPromise`) maps each step to `Send`, `Book`, `Lose` or a stutter of
  `Meter`, with what is in the counters and the response for pending and the sum of the buckets for
  booked. It needs `MeterInv`: a response is there only while it is being recorded (or the next one
  would overwrite it), whoever is gone or going is known to lose traffic (their part of a response is
  discarded), and whoever is not there yet has none. `Balanced`, which every step of `Meter` keeps,
  then gives `TrafficIsMetered` (`Metered`), as the graph adds up to the buckets. `OverStaysOver`
  (`QuotaHolds`) rests on `BucketsGrow`. All of these sum over hours, and the sums are proved about from
  their definition alone, a fold over a set: `CountingUp` and `TakingAway` are inductions over numbers
  and finite sets in the form of a least counterexample, which is a set and no operator, and from
  them follow that the fold is there and does not depend on the order (`SumExists`, `SumWithout`), and
  the lemmas of comparison, of zeros and of parts (`SumAtMost`, `SumOfPositive`, `SumOfParts`).
- `Backup_proofs`: `TypeCorrect`, `FloorIsKept` (`Floor`), `Refinement` (`KeepsPromise`). `SentInv`
  follows a copy through the pass: what has been read of each file is something the disk has held
  since the copy was begun, and what is about to be recorded has been accepted. `FloorInv` bounds
  the age of the last copy at each moment by what the delay still has to run and the pass has
  taken; `Floor` alone says nothing of that and is not inductive. The refinement maps each step to
  `Change`, `BeginCopy`, `Keep`, `Learn` or a stutter.
- `Tokens_proofs`: `TypeCorrect`, `TokensAreGood` (`Credentials`), `LastUseIsSaved`
  (`LastUseKept`). One lemma about `Save` carries the changes of the list; the last use needs how the
  three times of a token follow each other, in memory, in the file and in `lastUsedFlushed`.
  `Refinement`: the tokens implement `Register`, as the users do; what is in force is what
  `Credentials` says was told the owners, which is how each step is seen to add or remove one.
- `Identity_proofs`: `TypeCorrect`, `LinksAreGood` (`LinksMatch`), `RestoredAsDumped`
  (`RestoredTogether`), `NoKeyIsInvented` (`KeysAreKept`). `RestoredTogether` holds at some moments only by what
  the other file still says; `Restored` says so: wherever users of a dump are, or are about to be,
  identity.json has had the dump's key since before. It rests on the order of `Import`, identity
  first, and of `Store.Open`, users first.
- `Users_proofs`: `TypeCorrect`, `UsersAreToldApart` (`ToldApart`, and `UrlsLead` in it),
  `MemoryAgrees` (`MemoryIsFile`), `UrlsStayDead` (`RotatedStaysDead`), `NamesStayApart`
  (`NamesApart`), `Refinement` (`KeepsPromise`). `IInv` says of the list that all ids, UUIDs and tokens differ, that nobody lacks a
  token once the daemon is up, and that a dead token is in neither list nor file: the file has to
  be in it, as the next start reads it. Every operation ends in `Save`, and one lemma about `Save`
  carries what the new list must satisfy to all of them. Names need that a name which somebody has
  *finds* somebody (the least of a non-empty set of positions), and one more assumption, stated in
  the theorem: strings that `EqualFold` takes as equal have the same `ToLower`, without which a
  file that the next start accepts may hold two such names. The refinement maps each step to `Edit`,
  `Complete`, `Begin`, `End`, `Replace` or a stutter of `Register`: lists become sets of users, and
  a save of a list that differs in one place is one member more, fewer or other (`SaveEdits`). That a
  daemon ends with what it has done on disk is `MemoryIsFile`; that it starts with nothing unseen
  is `Quiet`.

Also proved, of properties no run lists as they follow from others there: `StartIsCurrent`,
`NobodyIsForgotten`, `ConfigNeverGoesBack`, `RunningIsRight`, `NobodyIsHalfOff`, `MemoryAgrees`; and of
promises the runs do not ask for, the refinements of `Daemon_proofs` and `Tokens_proofs`.

Only model-checked: the liveness properties (`EveryCallReturns`, `TakenIsAnswered`,
`OrderlyStopEnds`, `Restarted`, `GoesLive`, `CutOff`, `CutOffIsShown`, `Copied`), which the prover
cannot treat.

## 5. Where code and documents disagree

With a run that finds it:

1. `SupervisorStopEnds`. When the API's listener fails, `serve` returns with the context live; its
   deferred `Stop` terminates sing-box, `supervise` restarts it, `done` never closes and the
   daemon hangs with the proxy up and no API. `OrderlyStopEnds` is what holds.
2. `CollectorRetry`. A failed reload after enforcement is not tried again, since the user it was
   for is already disabled and the next pass changes nothing. The same happens when `Enforce`
   fails for one user and has disabled another. `CutOff` is what holds.
3. `CollectorByHand`. A user disabled by an operator while `quota` is, or becomes, the recorded
   reason is enabled again by `reset-usage`.
4. `UsersImport`. `reload` is documented to apply an import (CLI.md:449; README.md:264-273, "to move
   hosts with every client still working"). `render` reads the identity again but not the users: the
   daemon renders, and by its next change saves, the list it has held since its start. Only a
   restart applies an import.

The models have these too, as behaviours that a property leaves room for:

- A `Reload` made after the loop has stopped waits for its own context; the comments on `started`
  and `ErrNotRunning` (manager.go:34-36, 89) say it fails at once. `EveryCallReturns` excepts it.
- `Supervisor.Reload` returns nil when `exited` is set, since the next process will read the new
  config (supervise.go:159-161). It may have been started, and have read the old one, before
  `spawn` takes the lock. `ServesInstalled` and `ConfirmedIsServed` except that gap (`missed`).
- A collection that listed the users before a deletion records traffic for a user who is gone
  (store.go:146-148 says that must not be), and `import` then refuses the export
  (transfer.go:119-131). `DeletedLeavesNothing` excepts it (`crossed`).
- `Create` and `Update` compare names with `EqualFold`, `validateLoaded` with `ToLower`; and the
  comparison of a rename ends at the user's own id, so that a user may take their id as name when
  another has it in other letters. Either way the daemon saves a file that its next start may
  refuse. `NamesApart` says what holds.
- "A duplicate uuid, for instance, would silently give two people the same credential"
  (users.go:107-108), but UUIDs are compared as strings, and `uuid.Parse` accepts several spellings
  of one. `ToldApart` is about the strings.
- A command that fills in tokens saves the list it has read, over whatever the daemon has saved in
  between (`unread`).
- An import does not look for duplicate tokens (`Tokens.Replace`), which the next start then refuses;
  and the tokens it brings or clears are undone by the daemon's next save, which a request is
  enough for: "old API credentials would outlive the backup" (CLI.md:445-448) until a restart.
- A command that is only to read (`export`, `render`, `identity show`) opens the directory, and so
  generates a key if identity.json is missing, with no word of it; README.md:93-95 and CLI.md:349-351 have
  `serve` log an error. `RestoredTogether` excepts it (`meddled`).
- "Identity first: if it fails, nothing else has been touched yet" (transfer.go:146), but users that
  are refused leave the directory with the new key and the old users.
- A deployment that is only polled by a client with a token is not idle: the last use is in
  tokens.json, which the digest covers, so that it makes an archive after every delay.
- A `backup_url` edited while the daemon runs is in the archive sent to the old agent; the new one
  gets its first copy, after a restart, only once something changes.

And one of the command line alone: `export --exclude-identity` (CLI.md:433) is no flag of the
command.

## 6. Not modelled

Links, the parsing of the config file, byte sizes and the QR codes are pure conversions. The
template of the renderer, the pages' locales and assets, the padding of refusals, CORS and routing
keep no state. `ParseName`, the schema migrations, `Compact` and the generated gRPC code are left
to SQLite and their libraries. Of export and import the usage rows and the encoding are left out:
rows are imported in one transaction, and belong to users of the same dump. Files are assumed to be
replaced atomically, as `writeJSONAtomic` and `writeAtomic` do with a rename; what a power loss
leaves of an unsynced directory is out of scope.

## 7. Plan

1. Conversions: `ParseName` and byte sizes, a size past 2^63 among them, against reference
   definitions; the names of section 5 as a run, with a `Lower` finer than `Fold`.
2. The usage rows of an import next to a running collector, in one composition of `Identity`,
   `Users` and `Collector`.
