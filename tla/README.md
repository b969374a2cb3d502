# KepAgent in TLA+

KepAgent is the Go agent of a game-server node: it polls a control plane over
HTTP, claims one command at a time and executes it against docker, steamcmd,
the file system and the game servers. These modules model its own logic, TLC
checks them on small instances and TLAPS proves the main results for every
value of the constants. Paths below are relative to the repository's root.

- [Inventory](#inventory)
- [Modules and what they stand for](#modules-and-what-they-stand-for)
- [Runs](#runs) - [Bounds](#bounds) - [Fairness](#fairness) - [Assumptions](#assumptions)
- [Proofs](#proofs)
- [What the checks do not say](#what-the-checks-do-not-say)
- [Plan](#plan)

## Inventory

One process, one main goroutine: `App.Run` (`internal/agent/app.go:56`) selects
among a stop, the heartbeat timer and the poll timer; a handler blocks all
three. Other goroutines: the replay-cache warmer and its background refreshes,
and the readers and the waiter of a child process. The agent persists nothing;
what survives it is the docker daemon, the disk and the control plane.

| component | state | operations | interacts by |
|---|---|---|---|
| agent loop, `internal/agent/app.go` | timers, the command in hand, the runtime's three hooks | `Run`, `processOneCommand`, `reportRuntimeState`, 20 handlers | calls the API client; binds `cancelReader`, `logEmitter`, `stateReporter` into the runtime for one command |
| control-plane client, `internal/api/client.go` | none | claim, start, fetch, finish, heartbeat, logs, replay download and upload with a rate limit | HTTP; every call may lose its request or its reply |
| live log, `internal/agent/logger.go` | `messages`, `buffer`, `lastFlush` under a mutex | `Emit`, `Flush` | sends outside the mutex; `Runtime.emit` may reach it from other goroutines |
| server actions, `internal/runtime/runtime.go:190-583`, `internal/dockerapi/client.go` | none in the agent; the containers in docker | start, stop, remove, restart of one server, a list, a group or all | docker calls with a cancellation check and a state report between servers |
| update, `runtime.go:677-818, 1085-1170` | install, steam's manifest, `gameinfo.gi` on the disk | `CheckUpdate`, `CheckValidate`, `GetLocalBuild`, `GetRemoteBuild` | removes all servers, runs steamcmd, hands over to the monitor |
| monitor, `runtime.go:820-1013` | ages and restart count of the container under watch | `MonitorCheck`, `StartAfterMonitor` | polls docker, uses the server actions |
| process runner, `runtime.go:1187-1350` | two readers, a channel of 100 events, the stop condition's flag | `runProcessWithLiveOutputUntil` | pipes and a kill |
| replay lists, `runtime.go:104-128, 1426-1712` | cache per target, slots | list, warm, refresh, invalidate | two goroutines share the cache |
| replay transfers, `runtime.go:1714-1834`, `api/client.go:184-246` | temporary files, the window of the rate limiter | import, export | disk and API client |
| configuration, `internal/config/config.go` | none after start | `.env` files, references, defaults, modes, derived values, validation | read by all |
| RCON and A2S, `internal/rcon`, `internal/query` | none | one exchange | TCP and UDP to a game server |

What is hard to test, and the property it calls for:

- **Delivery and crashes.** `ClaimCommand`, `MarkCommandStarted` and
  `FinishCommand` are called once each; systemd restarts a dead agent
  (`deploy/kepagent.service:12`). A command must be run at most once, its verdict
  must be the outcome of its run, and without faults every command must end.
- **Cancellation.** It arrives at any time, between `/start` and the handler too,
  and is seen only where `checkCancelled` asks; an unanswered question counts as
  "no". How much work may follow, what does a command do that was cancelled before
  its handler had it, what do heartbeats say meanwhile?
- **Stale hooks.** A hook left from a finished command would make later
  heartbeats ask about that command and report no servers.
- **Docker behind the agent's back.** Between inspect and the call that acts on
  it a container exits, is restarted by its policy or removed; half-made
  containers remain after failed calls; two servers may share a container name.
- **The install.** Kill, timeout, crash or a full disk between the deletion of
  the manifest and the patch of `gameinfo.gi` must not lead to servers on a
  partial install nor to "already latest" on one.
- **Monitoring.** A relapse, a restart between two polls, errors swallowed
  between profiles, a container that flaps for ever.
- **The replay list.** Walks overlap and are stored in any order; an import
  invalidates a cache that an older walk is about to fill; look and rename are two
  steps.
- **The log.** Two goroutines flush at once; failed sends; a limit per request.
- **The process runner.** Two readers, a waiter, a deadline, a stop condition and
  a child that may leave a process behind on its pipes, all ending in any order;
  a kill that reaches the child alone; a line longer than the scanner's buffer.
- **Pages.** Every request cuts the list anew; a file that comes or goes between
  two pages shifts the rest. Products of large page numbers overflow.
- **Export.** The file is looked at, hashed and uploaded in three steps while a
  game server may write it; the rate limit and the client's timeout work against
  each other.
- **Layers.** Defaults, mode and server are laid over each other in an order that
  is not their precedence; the mode must not take inherited values for own ones.

`PROJECT.json` lists each hazard at its line with the properties that cover it
or the reason why none does.

## Modules and what they stand for

| module | code | content |
|---|---|---|
| `CommandContract` | the promise of `agent/app.go` | abstract specification: a command is begun, ends, is reported or lost |
| `CommandLoop` | `agent/app.go`, `api/client.go`, `cmd/kepagent/main.go`, `deploy/kepagent.service` | one action per HTTP call and branch of `Run` and `processOneCommand`; handlers as units of work |
| `CommandLoopProofs` | | its theorems |
| `ServerActions` | `runtime.go:166-583`, `dockerapi/client.go` | one action per docker call and per cancellation check |
| `LiveLogger` | `agent/logger.go`, `runtime.go:149` | one action per critical section and per send |
| `ProcessRunner` | `runtime.go:1187-1280, 1298-1350` | readers, channel, waiter, context and kill, stop condition, verdict |
| `Update` | `runtime.go:677-818, 1085-1170` | the handler, steamcmd, the disk, crashes |
| `UpdateProofs` | | its theorems |
| `Monitor` | `runtime.go:820-980` | profiles, polls, start lists, the clock |
| `ReplayCache` | `runtime.go:104-128, 1534-1618, 1714-1779` | the list cache of one replay target: the walks of handler, warmer and refreshes, and the import |
| `ReplayPaging` | `runtime.go:1426-1532, 1620-1712` | sort order, page arithmetic with its overflow, a client that walks the pages |
| `ReplayTransfer` | `runtime.go:1781-1834`, `api/client.go:184-246` | the export: look, hash, upload through the rate limited reader, timeout |
| `ServerConfig` | `config.go` | a load of one file, stage by stage |
| `ServerActionsProofs`, `LiveLoggerProofs`, `ProcessRunnerProofs`, `MonitorProofs`, `ServerConfigProofs` | | their theorems |
| `ReplayProofs` | | the theorems of the three replay modules, which it extends; hence the prefixes of their operators (`CacheNext`, `TransferNext`) |
| `MC*` | | instances for TLC |

**CommandLoop.** `pc` is the place in `processOneCommand`: `claimed` after
`ClaimCommand`, `started` once `/start` is answered and the hooks are bound, `exec`
from the hand over to the handler on (`HandOver`, which comes after the first flush,
an HTTP call of its own), `executed` before the runtime report, `finishing` before
`FinishCommand`. `hooks` is the command that the
three closures are bound to; the deferred reset is `BackToLoop`, part of every
return. A call is one step with a delivery: answered, request lost, reply lost.
`status` is what the control plane answers; it is external and moves only by the
agent's calls, `Submit` and `Cancel`. `answered` is the status that the handler of
`/start` has left, `handedAs` the one at the hand over; they, the counters `runs`,
`work`, `late` and `missed`, and `result` are history. The heartbeat's `ListServers` asks
`checkCancelled` for every server, hence `SendBeat`: under a cancelled command
the list goes out empty.

**ServerActions.** `pc` names the next call of the handler for the server
`list[i]`; `Opening` says which checks come first in which flow: a batch asks
before every server and `StartServer` and `removeServer` ask again, `RestartServer`
removes first and asks only before its start. `stage` is removing or starting:
`restartActionList` goes through the whole list twice. A docker call is answered
or fails with or without its effect. `fresh`, `late` and `blind` are history.
`ListOf` is `serversForKeys`: the keys at their first places, written by rank
instead of as a loop so that proofs can speak of it.
`InspectServer` and the reports between servers change nothing and are left out.

**LiveLogger.** `TestHook` and `LoadHook` are the two loads of the hook in
`Runtime.emit`; one that finds nil after the test ends the process (`panicked`,
`Running`). `Emit` and `Flush` are critical sections of the mutex, `Sent` and
`SendFails` one `AppendCommandLogs`.
An entry is its index in `messages`, so order and loss can be stated without
text. `due` stands for the flush interval having passed.

**Update.** `files` and `build` are the truth about the install, `manifest` is
what the agent reads. steamcmd is a second process: `Installs` puts the files in
place, `Records` writes the manifest, `Exits`/`Dies` end it. `Drained` is the
runner's wait for both pipes: a handler never outlives a process that holds
them, even one that survived the kill of its wrapper. `gameinfo.gi` is a
sequence of lines of three kinds; `Inserted` is `insertMetamodSearchPath`.
`PatchTears` is `os.WriteFile`, which truncates first; `Fails` covers a patch that
changes nothing since the file can not be read or opened, and a manifest that can
not be read again. The runner also returns when both readers have given up on a
line beyond their buffer; `Drained` leaves that out, it is an
[assumption](#assumptions). `runProcess` (`runtime.go:1172-1185`), which asks steam
for the newest build, is no runner of this kind but one call with an output: it is
part of `Compare` and `Fails`.

**ProcessRunner.** Every goroutine of `runProcessWithLiveOutputUntil` is a process:
`Reader(s)` (`readStream`), `Waiter` (`readers.Wait`, `cmd.Wait`, the two closes),
`ContextKills` (the goroutine inside `os/exec`), `Main` (the range loop, the stop
condition, the verdict at the end). The child and a helper it may have started
write; a kill reaches the child alone, end of file needs both gone. A line is one
of six kinds, as the readers, `stripANSI` and
`buildSteamcmdValidateStopCondition` tell them apart; pipe, channel and output
hold it by its stream and number in `written` (number 0 is a scanner's error).
`watcher = "fired"` is the context's error that `cmd.Wait` returns after its kill. `written` and `begun` are
history. `EndsInOrder` is what `Update`'s `Drained` rests on: the runner returns only
when nobody holds its pipes any more, or both its readers have failed, which
`Drained` leaves out.

**Monitor.** Time is counted in polls. `running`, `failing` and `total` are the
differences to `runningSince`, `nonRunningSince` and `startedAt`; `Wait` lets any
number of intervals pass: a ticker drops ticks, and a poll may take as long as its
calls to docker and the control plane do. Every `checkCancelled` is a
step (`Asking`); any error of a profile, a cancellation included, makes it a
failed profile and the next one has its turn (`ProfileFails`), except between
profiles (`PassesOn`). `single` is a configuration without profiles, where
`monitorCheckSingle` runs once and its error is the command's, save what the
`RemoveServer` of a failed monitor finds, which is dropped; `asked` is what the
handler is asked to stop by, and after a SIGTERM no call is answered.
`StartServer` and its kind are one step, their calls are in
`ServerActions`.

**ReplayCache.** A walk (`walk`, `found`) reads the names of the directory, then
the files, then stores its list over whatever the cache holds; `Main` is the
handler, `Warm` the warmer, a member of `Refreshers` the goroutine behind a list
that has expired. An import is one step per access to the disk. `imported`,
`overtaken` and `unseen` are history: what imports have added, which of it an
older walk may still hide, and what the import's look cannot have seen.

**ReplayPaging.** Paths are numbers, as their place in the alphabet; `NameOf` may
be equal for two of them (two directories), times may be too. `Before` is
`sortReplayFileEntries`, an answer uses any of the `Orders` that `slices.SortFunc`
may return under it. `Slice` is the arithmetic of `ListReplayFiles` on integers
from `-Half` to `Half - 1`; `Parsed` is `requiredInt` as it reads a JSON number.
`BeginWalk` and `NextPage` are a client of the control plane that goes on while
`hasMore` says so; `steady` and `closedUp` are history of what moved meanwhile.

**ReplayTransfer.** A file is the sequence of bytes written to it, each with a
number of its own, so equal digests are equal contents. `Stat`, `Open`/`Hash` and
`Upload` are the three accesses to the path, `Enter`, `Wake`, `Read`, `EndOfBody`
one call of `rateLimitedReader.Read` each way, with its window and allowance.
`TimesOut` is `http.Client.Timeout`, which counts the body. `sentBy` (how much was
sent before each tick) and `change` are history.

**ServerConfig.** One load, one action per stage of `Load` and `normalize`, one
`Expand` per server. A value is modelled by the layer it comes from. Settings
that the code treats alike are one member of `Scalars`, `Flags` or `Vars`.
`LeftOpen` is the test against the server's own YAML node: by the time the mode is
laid on, the server's fields already hold the defaults. `WithoutTrailing` is
`mergeModePorts`, which takes the server's ports off the end first.

## Runs

| run | asks | finds |
|---|---|---|
| `loop_safety` | two commands, two units of work, two faults anywhere | late work is bounded by failed checks (`CancelLatency`); nothing is orphaned without a fault (`NoOrphanWithoutFault`); a command that `/start` did not answer with `RUNNING` never runs, one cancelled after that and before its handler works only on unanswered checks (`EarlyCancelBinds`); types and the inductive invariant (`LoopInv`); the loop implements `CommandContract` (`KeepsContract`) |
| `loop_live` | one fault, fair | the empty server list that a cancelled command makes heartbeats send is always replaced (`EmptyBeatIsTemporary`); in every run without the fault every queued command gets a verdict or is cancelled (`EveryCommandSettles`) |
| `server_actions` | three servers on two container names, 13 requests, two faults, two events | success means running, gone or recreated, whatever was found (`SuccessMeansDone`); a list restart takes all down before it starts the first (`AllDownBeforeUp`); only listed containers are touched (`OnlyListedTouched`); a start interrupts no running server (`StartKeepsRunning`); a cancelled request touches at most one more container (`CancelTouchesOne`) |
| `live_log` | two goroutines, two faults, a hook reset between test and call | each entry is in one place (`EachEntryOnce`); the buffer is a queue (`OldestFirst`) that stays short (`LoggerInv`); the executing goroutine's entries arrive (`MainsLogArrives`) |
| `process_runner` | three lines of six kinds on two pipes of one line, a child and a helper | the goroutines end in order and nobody who holds the pipes outlives a reader that did not fail (`RunnerInv`); success means that steamcmd finished and that all it wrote was seen, in order (`OkMeansComplete`); the runner returns unless a helper lives on (`RunnerEnds`) |
| `process_hang` | a child, a helper that may live on, two kinds of line | **violated**: a run does not end at its timeout (`TimeoutEnds`), see [the finding](#a-finding) |
| `update` | two servers, three builds, crash, kill and failure anywhere | no server while steamcmd works (`NoServerWhileInstalling`); "already latest" is true (`SkipsOnlyWhole`); a validate repairs (`ValidateRepairs`); the update starts servers only on a whole and patched install (`UpdateStartsPatched`) |
| `monitor` | two profiles that share a server, or none; one fault, one counted restart | success needs an unbroken stable time (`SuccessMeansStable`); "ok" needs every profile (`OkMeansAllProven`); a seen cancellation or SIGTERM begins no further profile (`SeenCancelStops`); the command ends (`MonitorEnds`) |
| `replay_cache` | two files, one background refresh, one fault, two events | only a walk that began before an import can hide its file (`ImportVisible`); an import replaces no file it could have seen (`ImportKeepsTheirs`); the list catches up though nobody asks (`ListCatchesUp`) |
| `replay_paging` | every list of four files, five sorts, pages of one and two, three events, 98 odd requests | a walk to the last page shows every file that stayed in place (`NoneSkipped`); a page is a part of the list, and `hasMore` agrees with the page count, and only a page that ends beyond the integers may panic (`PagingInv`) |
| `replay_transfer` | a file of three bytes that changes twice, no limit or one or two bytes a second | the digest and the size are those of the body unless the file changed (`DigestTrue`); no second carries more than two limits, the average no more than one (`TransferInv`); an export ends though the network stalls (`TransferEnds`) |
| `server_config` | six families of files | the most specific layer that speaks decides, ports add up once per layer, the process's environment comes first (`ConfigInv`) |

Every property has a variant of the code that breaks it (the operators defined
just before the mapped one, such as `HooksKept` before `BackToLoop`, listed under
`mutants`): a property that held for all variants would say nothing.

`SuccessMeansDone` holds although two servers share a
container name: the second start finds the first one's container running and
leaves it. The configuration of the second is then never applied; the module
has one state per container and does not tell configurations apart.

### A finding

`runProcessWithLiveOutputUntil` says of a run that is over its time that it "timed
out after %s" (`runtime.go:1271`). In `process_hang` the child has started a
helper. The timeout kills the child alone (`runtime.go:1201`); the helper lives on
with the pipes it has inherited, both readers wait for an end of file that it holds
back, and the waiter waits for the readers (`runtime.go:1235`) before anything looks
at the child or the deadline. The executing goroutine, and with it heartbeat and
poll, hangs as long as the helper lives: no `WaitDelay` is set and no process group
is killed. A helper that survives is all it takes; steamcmd, which its shell script
starts, is one. A line longer than the scanner's MiB is one more way to keep it
alive: its reader gives up and it blocks on the full pipe for ever.

### Bounds

- Two commands suffice for the loop: its steps speak of the command in hand and
  at most one other; hooks or results of the former must be able to leak into
  the latter. Two units of work let a check fall between two units. Two faults
  are one lost message and one crash, or a lost claim and a lost finish.
- Three servers on two names contain a pair that is distinct and a pair that is
  not. Faults and events are counted per request and reset by the next one, so
  a later request meets every half-made state an earlier one left.
- `BatchSize = 3` and `MaxBatch = 2` instead of 10 and 200 make a flush take two
  turns; four messages fill the buffer and leave one over.
- Three builds: installed, released before, and released during an update. The
  stock file has two `Game csgo` lines so that "the first" means something.
- A stable time of two polls and a recover time and a slack of one are the smallest
  that let a relapse fall inside each; `Horizon` cuts ages, and the gap between two
  polls, off where no comparison tells them apart. One counted restart reaches the
  threshold of one.
- Three walks at a time (handler, warmer, one refresh) overlap in every order of
  beginning and storing; a second refresh only repeats the first. Two names: the
  import's and one it must leave alone. Two events write and delete a file.
- A pipe and a channel of one line make every writer and reader block; three
  lines are enough for progress, a state and one line that is in the way, or for
  a line too long and two that fill the pipe behind it. 100 events and 64 KiB only
  make the blocked states longer to reach.
- Four paths, one outside the search, two with one name: pages of one and two
  have a middle, a last full and a last half page. `Half = 16` and `Exponent = 8`
  stand for 2^63 and 10^6; the largest product asked for overflows.
- Two ticks to a second and a timeout of two seconds let reads fall at the start
  and the end of a window; limits of none, one and two bytes.
- The families of `server_config` vary what can interact: three layers of values,
  of ports and environments, of switches; names, keys, modes and groups of two
  servers; two replay targets; two names in three environments with unreadable
  `.env` files. Across the families nothing meets but the last validation.

`CHECK_DEADLOCK FALSE` is said where the modelled thing is over at some point: a
logger lives for one command, `ProcessRunner` is one run, `ServerConfig` one load,
`ReplayPaging` one walk, `ReplayTransfer` one export.

### Fairness

- `CommandLoop`: Go's `select` chooses at random among ready cases, so a timer
  that is ready again and again is served: strong fairness of heartbeat and
  poll, weak fairness of the timers. Handlers iterate over finite lists and all
  their calls have timeouts: they return. The one exception is steamcmd's runner
  under update and validate, which may hang ([the finding](#a-finding)):
  `EveryCommandSettles` is about nodes where it does not. systemd has
  `Restart=always`: `Boot`.
  No fairness for the environment: nobody must submit, cancel or fail.
- `LiveLogger`: a goroutine inside `Emit` or `Flush` goes on (the HTTP client
  has a timeout); the handler returns in the end, so the last flush is called.
- `Monitor`: weak fairness of the handler; calls time out and the ticker ticks.
- `ReplayCache`: a walk over a finite directory ends, the warmer's ticker never
  stops. No fairness for list commands, imports or game servers.
- `ProcessRunner`: goroutines that can go on do so, and the timeout comes. None for
  the processes: neither the child nor its helper need ever write or end.
- `ReplayTransfer`: the clocks, and the handler where only the disk can hold it up.
  None for the network, which may take and answer nothing.
- `ServerActions`, `Update`, `ReplayPaging` and `ServerConfig` claim safety only.

### Assumptions

- The control plane offers a command only while it is `PENDING`; one it has
  marked `CLAIMED` it does not offer again. This is its behaviour as the agent
  uses it; at-most-once rests on it.
- A docker call that is answered has had its effect, a failed one has or has not
  had it by the time the next call is made.
- steamcmd writes the build id of its manifest last, its success messages are
  true, and it restores a changed `gameinfo.gi` or leaves one that is patched.
  It keeps its output on the pipes it was given, in lines of at most a MiB:
  otherwise both readers may give up, the runner returns while steamcmd lives
  (`NobodyOutlives` allows it) and `Drained` does not hold. What `Update` says of the
  time after a kill (`NoServerWhileInstalling`, `SkipsOnlyWhole`) rests on this.
- systemd ends the whole control group of the agent, steamcmd included.
- Each of the two loads of the hook in `Runtime.emit` sees a whole closure or nil,
  and the warmer reads no hook of a later command between them.
- The control plane accepts an asset only when it has the whole body.
- A list of replays is shorter than the largest integer.
- `slices.SortFunc` may return equal elements in any order.
- The settings of a configuration are not blank, and it uses no YAML merge keys.
- The clock that ages are taken from is monotonic, as Go's is.

## Proofs

`CommandLoopProofs` (for any set of commands, any `Cancellable`, any bounds):

- `TypeCorrect`, one lemma per group of variables.
- `LoopInvariant`: `LoopInv` is inductive together with the types. At-most-once
  alone is not: a step that starts a command must know it has not run, which
  only the control plane's status can tell (`StatusBoundsRuns`: up to `CLAIMED`
  no run, and `pc` says how far the one run is). The latency bound is not: a
  check that has passed is a unit of late work still to come (`LateIsPaidFor`
  counts it). Both need the hooks to be those of the command in hand
  (`HooksFollow`).
- `NoOrphan` needs to know besides that without a fault there is no cancelled
  context either (`Faultless`): under one every call fails free of charge.
- `EarlyCancelHolds` needs the way from `/start` to the handler (`EarlyInv`): only an
  answer `RUNNING` leads on, a command handed over as cancelled stays cancelled, and a
  check that let it pass is paid for before the work that it allows.
- From these `RunsAtMostOnce`, `CancelIsTimely`, `EarlyCancelHolds`,
  `VerdictStays`, `VerdictsAreOwn` (a verdict is that of the command's one run, which
  is over), and `LoopKeepsContract`: every step of the loop is a step of
  `CommandContract` or a stutter under `phase <- Phase`, `outcome <- result`,
  `verdict <- report`.

`UpdateProofs` (for any servers, any number of builds and any stock file that has
a `Game csgo` line and no metamod line):

- `InstallInvariant`: `NobodyHome` (from the end of the removals to the return of
  the runner no container exists, and steamcmd lives only then), `ManifestIsTrue`
  (a manifest with a build id means a whole install of that build; it is gone
  before steamcmd starts and back only after the files) and `GameinfoInPlace`
  (what steamcmd delivers reaches the patch as stock or patched, and leaves it
  patched). None of them is inductive alone: that steamcmd can be dead when the
  handler returns is `Drained`, that it was not started under a server is
  `NobodyHome`, and that a kill leaves no lie needs both.
- `InsertedIs` and the lemmas before it: `insertMetamodSearchPath` puts exactly
  one line before the first search path, for every file.
- From it `UpdateTypeCorrect`, `InstallsAlone`, `SkipIsSafe`, `ValidateIsRepair`,
  `StartsArePatched`.

`ServerActionsProofs` (for any servers and container names, shared or not, any
requests, any number of failed calls, crashes and events):

- `ActionInvariant`: success is a statement about the whole list, so the invariant
  says what the first `Finished` servers of it have come to (`Reached`): gone
  while a restart removes, new while it starts, running as long as nothing
  happens behind the request's back. With shared names a later server could
  undo an earlier one; that it does not is `Aimed`: the container a call is about
  to change does not run. `Flow` is the way through the list, `Prompt` says that
  between two checks only one container is touched.
- From it `ActionTypes`, `DoneIsDone`, `RestartGoesDownFirst`, `CancelIsPrompt` and
  the action property `StartInterruptsNone`.
- `ListsEachKeyOnce`: `ListOf` holds exactly the request's keys, each once, in the
  order of their first places, for every sequence of keys (`RanksAreTaken`: finitely
  many places have the ranks from 1 on, `FirstPlaceOf`: the least place of a key).
  With it `OthersAreLeft`, an action property: the list stays within the keys of an
  accepted request (`Requested`), and every docker call aims into the list.

`LiveLoggerProofs` (for any finite set of goroutines, any sizes, any number of
messages and failed sends):

- `BufferInvariant`: the buffer holds the newest messages without a gap
  (`NewestWait`), which makes `OldestFirst` inductive; its length is bounded by the
  number of goroutines about to flush, counted by `FlushCount`.
- `OnceInvariant`: where the entries are that have left the buffer. `EachEntryOnce`
  counts places and says nothing of a batch that holds an entry twice; inductive is
  that what was received, what was dropped and the batches are apart (`Apart`), hold
  together all that has left (`Covered`), repeat nothing (`NotRepeated`), and that
  only a goroutine that sends has a batch (`IdleHoldNone`).
- From them `BufferIsShort`, `BufferIsQueue` and `OnceIsOnce`.

`ProcessRunnerProofs` (for any set of streams, any lines of every kind, pipes and
channel of any size, any number of helpers' lines):

- `RunnerInvariant`: `RunnerInv` is inductive as it stands. Its middle part,
  `EndsInOrder`, says in which order the readers, the child and its helper, the
  waiter and the channel come to their ends; that nobody outlives a peaceful end
  (`NobodyOutlives`) follows from it (`NobodyLeft`).
- `OkIsComplete`: `Flow` follows every line from the child to the output: what is
  still in the pipe is the end of what was written (`Pipes`), of the lines a reader
  has passed on each is blank, in the channel or in the output (`Covered`) and in
  order (`Ordered`), and a reader that gave up has said so (`Reported`). `Judged` is
  what the verdict rests on: the exit status, the stop condition's sight of the
  output, the readers' errors, and that the channel is empty once it is closed.

`MonitorProofs` (for any list of profiles and servers, any times, thresholds and
numbers of restarts and failed calls):

- `MonitorInvariant`: what the checked invariants lack is the account behind the
  report (`Counted`: before the current profile each one is proven or counted as
  failed, after its verdict it is proven itself), what a noticed stop leaves
  behind (`Noticed`: it is still asked, and has failed a profile, so that "ok" can
  no more be said), and that the age a verdict is taken from is never more than
  the unbroken run of the container (`Unbroken`). The daemon's variables and the
  handler's are proved apart (`DaemonStep`, `ControlStep`), the latter by the few
  ways a step can leave a profile: it fails, it is done, or it goes on.
- From it `MonitorTypes`, `OkIsProven`, `NoticedStops` and `StableIsSteady`, an
  action property: only `Poll` adds a profile to `proven`.

`ReplayProofs`, `ReplayPaging` (for every finite list, every search, sort, page and
size, and integers of every width that a list's length and the largest page size
fit into):

- `PagingInvariant`: `PagingInv` is inductive once the arithmetic is known:
  `LastPage` (the ceiling division of the page count: a page is before the last
  one exactly if its end is before the list's), `WrappedSmall` (a product that
  fits is not changed), and that the length of the list is a natural number below
  `Half`.
- `OrderHasRanks`: every sort is a comparison of numbers with the path as tie-break
  (`KeyOfSort`), so it has one result, with each file at its `Rank`.
- `NoneIsSkipped`: as long as nothing has left the pages already sent, each steady
  file whose rank lies within them has been shown (`Shown`). Its steps are the
  changes of a rank by a file that comes or moves (`RankGrows`, `RankBehind`) and
  that a page begins where the last one ended (`PageFollows`).

`ReplayProofs`, `ReplayCache` (for any files, refreshes, failures and events):

- `CacheTypeCorrect`: the handler's place, its walk and the file in its hands fit
  together.
- `ImportIsVisible`: an imported file that no older walk may hide is on the disk,
  among the names of every walk that has read the directory, and in the cache if
  there is one (`Overtaking`); the property is only its last part.
- `ImportsKeepTheirs`, an action property: between look and rename a game server's
  file under that name is one the look has not seen (`LookHeld`).

`ReplayProofs`, `ReplayTransfer` (for files of every length, every limit, buffer and
timeout):

- `RateIsHeld`: `Windows` compares the window with what was sent before each tick
  (`sentBy`). The window before this one opened a second earlier at least, so what
  was sent since then and before this window is at most one limit, and a second
  that ends now meets no third window. `DivStep` is the count of whole seconds.
- `DigestIsTrue`: as long as the file has at most grown since the look, it is the
  one that is hashed and sent, and both have read a beginning of it; when the body
  is over, what was sent no longer depends on the file (`Following`).

`ServerConfigProofs` (for every file, any servers, modes, settings, ports, names):

- `LayersDecide`: `ConfigInv` needs how far the load has come (`Progress`: which
  environments have been read at which stage; no server before its stage). Its
  heart is `TrailingComesOff`: what `mergeModePorts` takes off the end of the
  merged ports is exactly the server's own, so that no layer's ports are lost or
  doubled.

Only the named assumptions on the constants are used (`LoopAssumption`,
`ServerAssumption`, `RequestAssumption`, `LoggerAssumption`, `UpdateAssumption`,
`RunnerAssumption`, `MonitorAssumption`, `PagingAssumption`, `ReplayAssumption`,
`TransferAssumption`, `ConfigAssumption`).

Model-checked only: the liveness properties, `EmptyBeatIsTemporary`,
`EveryCommandSettles`, `MainsLogArrives`, `MonitorEnds`, `ListCatchesUp`, `RunnerEnds`,
`TransferEnds`, since liveness under fairness is out of the prover's reach. Every
invariant and action property of a passing run is the statement of a theorem.

## What the checks do not say

Known behaviours that no property rules out, since the code promises nothing
else; the models show those of them that they have the state for.

- A lost claim reply, start reply or finish leaves the command `CLAIMED` or
  `RUNNING` for ever: the agent never asks again. `NoOrphanWithoutFault` says
  that only faults do this.
- The agent dies after steamcmd wrote its manifest and before the metamod line
  is in: every later `CheckUpdate` says "already latest" and the line stays
  missing until a validate.
- A manifest without a build id makes update and validate fail before the
  cleanup that would delete it.
- A cancellation that lands between the answer of `/start` and the hand over does not
  keep the handler from being called; its own first check stops it, if it has one
  and the check is answered.
- A cancellation seen by the removal of a failed monitor is dropped: without
  profiles the command ends with "restart threshold reached" or "monitor timeout".
- The end of a command resets the log hook while the warmer may be between its two
  loads of it: the nil call ends the agent. A late `Emit` goes into the log of a
  command that is over, and may still be sent.
- A start by hand resets docker's restart count and is not counted itself.
- A cancelled or failed batch restart leaves the servers down that it has removed.
- A cancellation seen inside the last profile of a monitor is reported as a
  failed profile, not as cancelled.
- Restarts between the monitor's launch and its first inspect do not count
  (`base`).
- A list walked before an import and stored after it hides the new replay until
  the next walk.
- A file deleted during a walk fails the whole list.
- `normalize` enables every replay target that has a path, one that says
  `enabled: false` too; the answer "is disabled" (`runtime.go:1430`) is not reached.
- `defaults.restart_policy` never counts: `UnmarshalYAML` has given each server a
  policy before the defaults are looked at.
- A `command` of any layer is used before a `command_template`, a more specific
  layer's too.
- A page number from 10^6 on that comes as a JSON number is printed with an
  exponent, does not parse and becomes page 1; one whose product with the page size
  overflows an int makes the slice expression panic.
- A file written to while it is exported is sent with the digest of a beginning
  of it; a file larger than the limit times the timeout can not be exported.
- A failed import leaves its `.part` file behind.
- `countMonitorProfileStartServerKeys` counts the start keys of failed profiles
  too; only a message depends on it.

Not modelled, and why:

- RCON (`internal/rcon`) and A2S (`internal/query`): one exchange each over a
  connection of its own with a deadline. They are parsers over bytes and change no
  state of the node; a model would restate the wire format.
- Entrypoint, packaging, constants and data types: nothing happens there that
  `Boot` and the modules do not stand for.
- The slot of a replay target (`runtime.go:1447`): transfers run on the one
  executing goroutine, so nobody ever waits for it.
- The fields of an answer and the words of a message.

## Plan

What is left, in this order:

1. The handler as `CommandLoop` sees it (a check, then a unit of work) as an abstract
   specification of `ServerActions`, with the theorem that a batch of server actions
   keeps it; so far only `CancelIsPrompt` says what follows from it.
2. `Node`: `CommandLoop` composed with `ServerActions`, one unit of work being one
   server's docker calls.
