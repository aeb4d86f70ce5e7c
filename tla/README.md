# A TLA+ development for `sbx` (ops-cli)

`sbx` runs a program in a cage on a developer's machine. What the cage may reach
on the network is decided by an egress proxy that runs as a process of its own,
under a supervisor that holds the policy, the operators' control socket and the
connections to the outside. This directory holds TLA+ modules that model the
core of that arrangement, TLC configurations that check small instances, and
proofs checked by TLAPS. Paths below are relative to the repository.

## The system

| Part | State | Operations | Interacts through |
|---|---|---|---|
| Ask queue, `src/sandbox/control/mod.rs` (`PendingState`) | ids, parked entries, one answer channel per entry | enqueue, wait, withdraw, forget, answer by id, drain | one mutex; the link's reader, waiting threads, control connections |
| Session rules, same file (`ManualRules`) | allow, deny and mute lists, a version | remember, change, confirm | a mutex held across the push; the link |
| Link, `src/sandbox/proxy/link.rs` | overlay and version at both ends, what was confirmed, waiting replies | push, flush, close, park, check, connect, refresh, identify | a socket between two processes, a reader at each end |
| Judge, `src/sandbox/proxy/link/judge.rs` | its overlay, the operators' allows, what checks found, a count of questions | sent, grant, enter, check, connect | a thread per question, one answer thread |
| Proxy, `src/sandbox/proxy/` | relays, pool, resolver, credentials, CA | decide, relay, pool checkout and park, refresh | the link; upstream sockets |
| Control socket, `src/sandbox/control/mod.rs` | log ring, followers, flows, capture | LIST, ALLOW, DENY, REMEMBER, LOG, FLOWS | one thread per connection |
| Exec enforcement, `src/sandbox/proc_enforce/` | parked execs | park, answer, sweep | seccomp notifications, an operator, a clock |
| Sessions, `src/session.rs` | records of pids and start times | register, housekeep, stop | the file system, other processes |
| Stores and collection, `src/store.rs`, `src/sandbox/gc.rs`, `projectstore.rs` | projects, locks, volumes | lock, reap, publish | file locks, renames, crashes |
| Tasks, `src/sandbox/task*.rs`, `taskpool.rs` | a pool of cages | ensure, call | sockets, locks |

The rest (cage construction, packages, plugins, configuration, the command line,
desktop relays) is sequential or is parsing and I/O; `PROJECT.json` lists every
part with the reason.

What is hard in it, and what makes each part right:

* **Ask queue.** Commands read the queue, run `first` with the queue unlocked
  (up to `CONFIRM_WAIT`), and then act on it. A request times out, is answered
  by somebody else, or is withdrawn in between. Right: nothing passes without an
  operator's allow, nobody waits for ever, each request is answered once, an
  answer frees what it was meant for, and what operators are told is true.
* **Session rules.** A confirmation may be late, lost, repeated or invented.
  Right: `ok` means the rule is deciding requests, rules are never lost, and no
  command blocks the others for ever.
* **Judge.** The proxy reads what the cage sends and is not trusted. Right: a
  connection is one the supervisor's own policy and operators permit, and an
  honest proxy is not contradicted.
* **Link.** Requests register, send, wait and give up while either process ends
  the link. Right: an answer reaches its own question, and nobody waits on a
  link that ended.
* **Credentials.** A refresh runs on a thread of its own and changes two copies,
  one on each side. Right: one refresh at a time, no spinning on a hopeless
  credential, secrets masked before they are used, both copies alike at rest.
* **Events and log.** Events cross a bounded queue and a socket; what is logged
  is amended later, and read by position. Right: a flush means applied, an
  amendment reaches its own event, a reader is told what it missed.
* **Lookups, connections.** Shared between requests that may differ in
  credentials and in what they may reach. Right: no lookup is joined that will
  not answer, no connection is reused across either difference, and a request
  that changes something upstream is sent once.
* **Execs.** A caged process is stopped in the kernel until somebody answers.
  Right: every one is let go, and operators are told what happened.
* **Sessions, stores, files.** Pids are reused, processes die and machines stop
  between two steps. Right: a signal reaches what was found and nothing that took
  its number since, a running session keeps its record, nothing in use is
  collected, no file is half written.

`PROJECT.json` lists the hazards at the lines where they bite.

## Modules

### `AskQueue` - the queue under `mode = "ask"`

A step is one critical section of the queue's mutex or one operation on a
request's channel.

| Module | Code |
|---|---|
| `entries`, `seq`, `nextSeq`, `dest` | `Inner::entries`, its keys, `next_seq`, host, port and path of an `Entry` |
| `chan` | the `mpsc` channel of a request; `SenderAlive` says who holds its sender |
| `thread` | the waiting thread of `serve_park` |
| `pc`, `cmd`, `seen`, `ran`, `taken`, `told` | the locals of `answer_like_after` and `answer_all_after`, and what the reply counts |
| `Enqueue`, `DenyAtOnce`, `StartWaiter`, `WithdrawForget`, `WithdrawRecv` | `serve_park`, `enqueue`, `withdraw` |
| `WaitRecv`, `WaitTimeout`, `WaitForget` | `wait`: `recv_timeout` and the later `forget` are two steps |
| `LookUp`, `LookUpMissing`, `FirstDone`, `FirstFails`, `AnswerLike` | ALLOW/DENY by id |
| `DrainSee`, `DrainTake`, `DrainSend` | ALLOW/DENY `*`, and the reader's drain (`LinkEnds`) |

The reader serves one message at a time, so `ReaderFree` holds back the next
one while it is starting or withdrawing a waiter. `first` is a step whose
outcome is free: what it does is `SessionRules`. Requests that the queue's
filter makes equal are one destination here, as they are in the code. A drain
sends in id order in the code and in any order here. `told` and `ran` are the
values the code computes; no variable was added only for a property.

### `AskPromise` - what the queue promises

A request that is let in is decided once and hears what was decided; with an
`ask_timeout` it may give up first and hears a deny. `AskQueue` implements it
with `decided` read off where the sender is (`Decided`) and `heard` the verdict
the thread returns.

### `SessionRules` - `--session` rules coming into force

`held`, `version` are `ManualInner`; `lock` is `ManualRules::proxy`; `sent`,
`installed`, `closed` are `Heard`; `judge` and `proxy` are the overlays at the
two ends; `down` and `up` the messages on the socket. A command is `Change`,
`Lock`, `Edit`, then `Confirmed`, or `CountAsSent`, `NoteForJudge`, `Send` and
`Awaited`/`AwaitFails`. The link fails at any step (`SendFails`, `ShutDown`,
`ReaderEnds`). A proxy whose `nature` is lying confirms any version (`Claim`)
and drops overlays (`Ignore`). The three lists are one set of rules, each
carrying its list: `change` treats them alike. `attach` runs before the control
socket is served, with nothing held, and is the initial state.

### `UpstreamJudge` - the supervisor judges the proxy's connections

A request is decided by the proxy (`Clear`, `Refuse`, `Park`), answered by an
operator (`AnswerDeny`, `NoteGrant`, `AnswerAllow`), checked and connected. A
question takes a place (`Ask`, `AskBusy`, `NoThread`), is judged step by step
(`CheckDecide`, `CheckTake`, `Resolve`, `CheckKeep`; `ConnectLookup`,
`ConnectDecide`, `Dial`), and its answer gives the place back before it is
written (`GiveBack`, `Write`). `Decision` is `EgressPolicy::explain` over
`folded`; `Policy` stands for what the launch's rules and default action say of
a destination, `"default"` for a request the default never lets through, such as
a WebSocket without a rule. `GRANT_TTL` is `GrantLapses`/`CheckLapses`: both
lists are in time order, so what lapses first is the head. It assumes of the
overlays what `SessionRules` shows: they only grow, and the proxy's are among
the judge's. `given` and `used` count for `GrantsConserved`; `since` is what the
judge held when the question came.

### `LinkReplies` - questions waiting for replies on the link

`replies` is the proxy's table of waiting replies, `id` and `chan` a question's
number and channel, `timed` the questions asked with a deadline (`identify`).
`Register`, `Send`, `Receive`, `TimeOut`, `Forget` are `ask_within`; `HandOver`,
`ReadEnd`, `EndStep` are `read_supervisor`, whose end shuts the socket down
first and lets the waiting go after; `Serve`, `ServeIdentify`, `Answer`,
`WalkPanics`, `WalkEnds` are the supervisor's side, with the walks counted in
`naming`.

### `CredRefresh` - credentials refused upstream and resolved again

`Ask` is a request whose credential was refused; `Decline`, `Admit`,
`AdmitUnqueued` are `serve_refresh` with `start`; `TakeJob`, `ResolveAnew`,
`ResolveInVain`, `ResolvePanics`, `Publish`, `CannotCross`, `Replace`, `Answer`
are the refresh thread and `finish`. `super` and `proxy` are the two copies,
`published` what is masked. A set crosses in two ways that fail apart: one of
`Garbled` does not survive its encoding, which `finish` tries before it installs
it (`CannotCross`); one of `TooMany` encodes, is installed, and is refused when
its answer is sent, so that the proxy hears of no set (`Answered`). `prompt` says whether the proxy installs a set it
was handed before the gap between two refreshes has passed; where it does not,
two sets may be installed out of order, so `CopiesAgree` is stated where it
does (the gap is 30 s, the installation the next statement of the request).

### `EventStream` - the proxy's reports

A request reports by `Reserve` (room under the byte bound), `Compose` and
`Queue` (one critical section, in which an id is drawn); `Write`, `ReadAck` are
the proxy's writer and reader, `ApplyLogged`, `ApplyStatus`, `Acknowledge` the
supervisor's applier, `LockForBarrier`, `QueueBarrier`, `AwaitAck` a flush.
`OtherPushes` is another producer of the ring. `ring` is every event pushed;
muted refusals are kept apart in the code and take the place of no decision, so
an entry carries the number of decisions pushed by then, and `Retained` is one
of the last `RingCap` of these. The event that logs and the one
that amends what was logged stand for the other kinds.

### `EventLog` and `LogLinger` - the ring and its readers

`EventLog` is `LogRing`: `Push`, `PushMuted`, the amendments (`SetStatus`,
`ExpectCapture`, `CaptureSettled`, `CaptureGrew`, `SetCaller`, `SecretSeen`) and
a reader's `Read` from its cursor, with the count of what it missed. `LogLinger`
is the wait at a session's end for the readers in `followers`, on a clock
(`Tick`) against which readers poll.

### `ExecAsk` - execs waiting for an operator

`LoopStep` is the receive loop of the supervision: the sweep of what waited too
long, a notification decided or parked, the stop. `Take` and `Answer` are an
operator's. `Raise`, `Die`, `CageEnds`, `Unsupervised` are the kernel's. What
the policy says of an exec is a free choice.

### `Lookups` - names resolved once for all who ask

A step is a critical section of the table of names in flight or a step of a
lookup's thread: `Ask`, `Lock`, `Join`, `New`, `Refuse`, `Spawn`, `Insert`,
`Read`, `GiveUp`, `Store` for a caller; `Resolve`, `Panic`, `Unlist`, `Publish`
for the thread, whose last two are the drop of `Settle`.

### `ConnPool` - parked connections

A request reads its credential set (`Snapshot`), makes its key, pops or opens a
connection, sends, and is answered, replayed on a fresh connection or lost
(`Replay`, `Lose`); then the connection is parked, which sweeps what waited too
long in the same critical section (`Park`). Upstreams apply, answer and
close (`Apply`, `CloseUp`), and a refresh changes the credentials (`Replace`).

### `SessionStop` - stopping a session by its record

Processes are started under reused pids by running ones (`Fork`), and may be
reparented; launchers register, and all end and are reaped. A scan judges a
record (`Judge`, `PidIsLive`, `StartMatches`) and removes it by name (`Remove`);
a stop reads the record, opens a pidfd, confirms it (`Confirm`), looks for the
cage's processes by the launcher's number and signals each. It finds them as the
code does: `ReadStat` reads one stat of `/proc` at a time, `WalkDescendants`
walks down from the number, `ListScope` lists the scopes whose name ends on it,
and `ReadStart` reads each listed start time later. Every read may fail:
`ConfirmUnread` and `StartUnread` count as gone, as they do in the code, a record
that cannot be parsed as dead, a stat or a start time that cannot be read leaves
its process out (`ReadStat`, `LeaveOut`), a scope may be absent or unreadable,
and a member that cannot be opened or read is let be (`MissMember`). The start
time of a process is its number in the order of starts. A pidfd refers to its
process and reserves no number. `freed` and `slipped` are history: the numbers
given up while a stop looks for members, and whether one of them went to
another process.

### `AtomicFile` - replacing a file

`Create`, `Write`, `Flush`, `Rename`, `Return` and the failures at each, for
several writers of one target. `Crash` keeps the synced and any part of the
rest: of the data, the renames, and the directory's entries.

### `DurableFile` - what replacing a file promises

The name leads to one finished file after another (`versions`), none of which is
written again; a machine that stops keeps the first `durable` of them, and never
fewer than a write that flushed the directory has reported (`promised`).
`AtomicFile` implements it (`KeepsPromise`): a version is what a rename
installed with what it holds now, so a writer that touched an installed file
would change a version.

### `ProjectStore` - the store lock of a project

`held` are the locks on lock *files*, which a removal may unlink; `Open`,
`Granted` are `flock_at`. Launches mark, provision, record themselves and run;
verbs collect, purge (several projects), remove and sweep.

### Proof and MC modules

Each `Proofs` module extends the component whose theorems it holds, or the MC
module that names the instances of several: `AskQueueProofs`,
`SessionRulesProofs` (with `ExecAsk`), `UpstreamJudgeProofs`,
`ProjectStoreProofs`, `LinkProofs` (`LinkReplies`, `CredRefresh`), `ProxyProofs`
(`EventStream`, `Lookups`), `KeptProofs`
(`EventLog`, `LogLinger`, `ConnPool`) and `HostProofs` (`SessionStop`,
`AtomicFile`). What an MC module chooses (its `.cfg`, its `MCInit`) is no part
of a theorem: the theorems are about the components' own specifications.
Definitions marked *Faulty* are plausible bugs the properties are tried against.

An MC module gives a small instance. Where it instantiates several components
(`MCOperator`, `MCLink`, `MCProxy`, `MCKept`, `MCWaits`, `MCAdversity`) these share no state,
so that a behaviour of all is a behaviour of each: `part` says which one takes
steps, all of them start in their initial states, and every property is about
one component's variables only. The fairness conditions of the others ask for
nothing there, as nothing fair is enabled in their initial states, or are
stated for the chosen part. A conjunction in an MC module gathers properties
that say one thing of its components, each of which is stated in its own module
and has a faulty form of its own.

## Runs

| Run | Components and instance | Shows |
|---|---|---|
| `ask_races` | 2 requests to 2 paths of one endpoint, or refused at the door, 2 operators, timeout | `NoOrphanWaiter`, `AllowNeedsOperator`, `SparesOthers`, `FreedWhereFirstRan` |
| `waits` | `AskQueue`: 2 requests to 2 endpoints, one possibly refused at the door, 1 operator, no timeout, fairness. `ProjectStore`: 1 launch beside 2 of collect, purge, remove and sweep, 2 projects where no tree is removed, fairness | `ToldIsTrue`, `KeepsPromise`, `RequestsLetGo`, `NothingTakenInUse`, `VerbsEnd` |
| `ask_told` | 2 requests, 1 operator, timeout | `ToldIsTrue` is **violated** |
| `operator` | `SessionRules`: 2 commands, 2 rules, an honest or a lying proxy. `ExecAsk`: 2 execs, 2 operators, cap 1 | `ConfirmedInForce`, `ConfirmedIsJudged`, `JudgeNotBehind`, `ExecsAnsweredTruly`, `NobodyHeldUp` |
| `judge_honest` | 2 requests; room for both, or for one with threads that fail; fairness | `WithinCaps`, `VerdictHeld`, `NeverBusyWithRoom`, `QuestionsAnswered` |
| `link` | `LinkReplies`: 2 questions, any of them timed, 1 naming slot. `CredRefresh`: 2 requests, 4 sets, of which one does not encode and one encodes and cannot be sent | `RepliesFindTheirs`, `AdmittedWithinLimits`, `InUseIsMasked`, `CopiesAgree`, `NobodyWaitsForGood` |
| `proxy` | `EventStream`: 2 requests, one perhaps too heavy, or 1 and another producer, 1 flush. `Lookups`: 2 callers, 2 names, 1 in flight | `WithinBounds`, `FlushedMeansApplied`, `AmendsItsOwn`, `LookupsAreLive`, `NobodyWaitsForGood` |
| `kept` | `EventLog`: ring of 2, 4 events, 2 amendments. `LogLinger`: 3 readers of 2 paces, table of 2. `ConnPool`: 3 requests, 2 connections, 1 change of credentials | `TypesOK`, `GapIsTrue`, `ShownOrComing`, `ReusedRightly`, `AppliedOnce`, `LastReadNoted` |
| `adversity` | `UpstreamJudge`: 2 requests, one allow waiting at most, allows lapse, a proxy that lies. `SessionStop`: 3 processes on 3 pids. `AtomicFile`: 2 writers, 3 writes, 2 crashes | `ConnectedIsPermitted`, `GrantsConserved`, `SignalsWhatItFound`, `MembersKilled`, `RunningIsRecorded`, `FilesAreSound` |
| `store_remove` | 2 launches, 2 removals, 1 project | `NothingRemovedInUse` is **violated** |
| `refresh_cross` | `CredRefresh`: 1 request, 2 sets, of which one cannot be sent | `InstalledInBothOrNeither` is **violated** |
| `stop_own` | `SessionStop`: 3 processes on 2 pids | `SignalsItsOwn` is **violated** |

What they say, beyond their names:

* `SparesOthers`: an answer by id frees one destination, path included, although
  the queue is read again after `first` ran. `FreedWhereFirstRan`: a request is
  freed only where `first` ran for its endpoint.
* `RequestsLetGo`: the link's end frees every request, one reported as answered
  stops waiting, and one that was decided hears of it (the fairness of
  `AskPromise`).
* `ConfirmedInForce` for an honest proxy, `ConfirmedIsJudged` for any.
  `JudgeNotBehind`: an overlay the proxy decides by is one the judge has, since
  `push` tells the judge before it sends.
* `CopiesAgree`: with nothing under way both ends hold one credential set, or the
  supervisor's is one that could not be sent.
* `VerdictHeld`: what an honest proxy was told is allowed is connected, unless
  a deny was loaded since. `GrantsConserved`: an allow serves once.
* `AppliedOnce`: an upstream takes a request that is not idempotent once at
  most, any other twice at most, over parked connections that close as the
  request goes out.
* `LastReadNoted`: when the wait at a session's end is over, each reader that
  still polls and is due in time was noted reading the last change.
* `SignalsWhatItFound`: a stop signals its process and the very processes whose
  start time it read as it looked, never who has their number now; and these
  belong to a launcher of the number it stops unless a number given up while it
  looked went to another process.
* `MembersKilled`: a forced stop that ended has killed every process its two
  lists named, except where the host refused a descriptor or the read of a start
  time. Of a process neither list named, as an unreadable stat or an absent scope
  leaves it, nothing is said.
* `RunningIsRecorded`: neither a scan nor a stop takes the record of a running
  session because of its number. What could not be read is excepted: the code
  judges it dead.
* `NothingTakenInUse`: nothing is collected, or purged, from a tree the verb set
  out to lock while a launch provisions it or a session recorded there runs. A
  purge lists the trees again once it has its locks, and takes from those that
  came meanwhile without a lock, under a launch's hold if need be; a comment of
  `purge_app_homes` says so, and the property leaves them out.

**Bounds.** Every count is bounded by the finite sets of the configuration or
by a named `Max` constant. Two operators and the reader's drain are three
parties over one request: one to read, another to act, a third to find the
result. In the rules, a rule is loaded again after its push failed while another
one has been confirmed. Two requests at one endpoint compete for one allow, and
a cap of one makes the second's check push out the first's. Caps and rings of
one or two are full with something waiting; a ring of two overflows twice in
four events (of decisions and muted refusals together; that both rings evict at
once, a first read and a cursor past the head are covered by the theorem
`GapsAreTrue`). Three processes on three pids are a launcher, a member and a
stranger, in any order on one pid or several; there the pids come into use in
order, being interchangeable, and a pruning walk and a stop take turns, where the
proof has them overlap. `MCAdversity` and `MCWaits` choose at the start which of
their components goes on. Two crashes hit a write that began after
the first. Symmetry is used in safety runs only, over requests and operators
that no definition tells apart.

**Deadlock** is checked in the `ask_` runs and in `judge_honest`, which end only
in `Finished`. The others are switched off: their components come to rest when
the requests, commands or processes of the instance are used up.

**Fairness.** Threads that can take a step take it; nothing makes the outside
act. `AskQueue`: a thread that can leave its wait does, a command under way goes
on (`first` ends within `CONFIRM_WAIT`), the reader finishes its message;
nothing makes an operator answer, a timeout pass or the link end.
`SessionRules`: a command takes its next step, its waits having deadlines
(`SEND_WAIT`, `CONFIRM_WAIT`); neither the proxy nor the readers need to run.
`UpstreamJudge`: the supervisor's threads run, lookups and dials being bounded
by their timeouts. `LinkReplies`: both readers, the walks and the threads of
questions under way run, and a deadline passes. `CredRefresh`: the refresh thread runs and the
proxy reads what it was sent. `EventStream`: writer, acknowledgements' reader,
applier, flusher and requests run, any of which may end instead. `Lookups`:
callers and settling threads run, and a mutex that is free again and again is
got in the end (strong fairness of taking it); the resolver need not return. `ExecAsk`: the
receive loop, operators' commands and the clock go on, and the kernel lets an
unsupervised exec go. `ProjectStore`: launches and verbs go on, a lock that is free is granted to
one that waits for it, and sessions end.

### What `ask_told` shows

`wait` leaves `recv_timeout` in one step and takes the mutex to `forget` in
another. An answer in between removes the entry, sends into a channel nobody
reads, and counts the request: the operator reads `ok ... count=1` for a request
that was denied. The comments on `answer_like` ("`None` if `seq` is not parked
(already answered, or timed out)") and `answer_all_after` ("one that timed out
meanwhile is not reported") say it is not. It fails closed: the request stays
denied. `withdraw` meets the same window and closes it by leaving the queue
first and then waiting for the answer; without a timeout the reports are true,
which `ReportsAreTrue` proves.

### What `store_remove` shows

The lock file lies in the tree that `projects rm` removes, and `flock_at` does
not look at the name again once its lock is granted. A launch that comes when
the file is unlinked and the rest is not makes a new one and is granted it at
once; one that was waiting is granted a lock on an unlinked file, which excludes
nobody who comes later. Both then provision a tree that is being removed, where
`projects.rs` says that "a launch that comes later waits for the removal".
`NothingTakenInUse` says what does hold: with no removal or sweep begun,
collection and purges take nothing a launch or a session uses.

### What `refresh_cross` shows

`finish` encodes a re-resolved set before it installs it, so that "a set that
cannot cross is installed in neither copy" (`proxy/inject.rs`). What a message
hands over besides its bytes, one descriptor for each plugin, is counted only as
the answer is sent: past `MAX_FDS` the send refuses it, the proxy is answered
with nothing and keeps its set, and the supervisor has the new one already. The
link goes on, and `finish` finds a later re-resolution to the same value
unchanged, which stops the mechanism for good.

### What `stop_own` shows

`Session::stop` pins the launcher it confirmed with a pidfd, and its comment has
it that "from then on the kernel cannot reuse that pid behind our back, so a stop
can never signal an unrelated process". The pidfd keeps a signal from going
astray; the number is free once the launcher has ended and was reaped, and the
members are looked for by number after that: the children of the number under
`/proc`, and the scopes named after it. In the run the number goes to a stranger
with a child, which is read as a member with its own start time, and signalled.
`SignalsWhatItFound` says what does hold.

### Remarks

Seen while modelling, and left without a run:

* `linger` returns when the last read is *noted*, which is before its answer is
  written; the process can end between the two (`LogLinger`: `Followed`,
  `Return`, `Exit` before `Answer`).
* A `/proc/<pid>/stat` or a record that exists and cannot be read (descriptors
  exhausted, say) counts as gone: a stop or a prune then removes the record of a
  running session. The comment in `stop` accepts it for the confirmation, as a
  window one syscall wide.
* The sweep of dead trees in `projects rm` judges by a reading of the registry
  older than the removals before it, without locks: a session recorded since,
  whose directory was deleted since, loses its tree (`ProjectStore`: `Judge`).

## Proofs

Each theorem is of the form `Spec => []P` and holds for any sets of requests,
destinations, operators, processes or readers and for any caps and rings, under
the named assumptions of the modules, which TLC evaluates for each instance:
the sets an argument counts are finite, caps are natural numbers, flags are
Boolean, and a name that stands for nobody is nobody's. Most properties are not
inductive; each module states the invariant that is, `Inv`, as a conjunction of
named parts, and TLC checked it on the module's run before it was proved. A
proof has a lemma for each action.

**`AskQueueProofs`.** `Inv` is proved inductive action by action (`InitInv`,
`NextInv`):

* `OneSender` is the heart: a request's sender is in the queue, or in the hands
  of the one command that reports it, or used up. `NoOrphanWaiter` and
  `AnsweredOnce` rest on it.
* `IdsAreUnique` and `CommandsInOrder` make an id read before `first` name the
  same request after it, so `RanOnWhatItNames` carries the endpoint across the
  unlocked stretch to `FreedWhereFirstRan`.
* `AnswersAreTold` links what is in a channel to the command that sent it, and
  gives `AllowNeedsOperator`.
* `HeardOnce` and `HearsTheAnswer` give `ToldIsTrue` without a timeout, and what
  the refinement needs; `QueueBounded` gives `WaitersBounded`.
* `SparesOthers` is a part of `Inv` itself: what a command by id has taken so far
  is of one destination, since it takes by the filter of the request it named.

`QueueKeepsPromise` maps each action to an action of `AskPromise` or to a
stuttering step, using `Inv` on both sides of the step.

**`SessionRulesProofs`.** The invariant says that all overlays, wherever they
are, were taken from one growing list (`OneHistory`), that one command at a time
holds the mutex (`OneAtATime`), that the judge is told before the proxy
(`JudgeToldFirst`), and that an honest proxy has what it confirmed
(`ConfirmsWhatItHas`). `OkMeansInForce`, `OkMeansJudged`, `JudgeAhead` and the
action property `RulesStay` follow; the last two are what `UpstreamJudge`
assumes of the overlays. `MutexIsGivenBack`: the holder of the mutex is at a step
of its command, and each of those steps can be taken.

**`UpstreamJudgeProofs`.** For a proxy that asks anything at all:
`ConnectedIsPermitted` is about the rules held when a question came in, while
the judge decides on those it holds later, so `Inv` relates the two: rules only
grow (`RulesGrow`), an allow came from an operator wherever it is
(`AllowsAreGiven`), and what a connection goes on with is permitted
(`JudgedAgain`). `PlacesCounted` equates the counter with the number of
questions that have a place, and gives `CapsAreKept` and `RoomMeansNeverBusy`.
These two are stated for `RoomySpec`, which is `Spec` with the run's label for
it; its cap is any number, so it covers the tight instance too. `VerdictsHold`
has a second invariant, for an honest proxy while nothing lapses and each
request's allow has room (`Patient`), a condition `VerdictHeld` itself carries.

**`LinkProofs`.** `AnswersFindTheirs` needs that an id is drawn once
(`IdsAreTheirOwn`), that a reply names the id its question was sent under
(`SentUnderItsId`, `SentOnce`), that a waiter is handed over once
(`HandedOverOnce`) and that the table is closed before it is emptied
(`ShutFirst`). `SlotsHeld` counts the walks. Of the refreshes: a set is masked
before it is in use at either end (`MaskedBefore`), one set is on its way at a
time (`OneAtATime`), and a re-resolution is begun only while none was in vain
(`StopsHard`), which gives `NoSpinning`.
`CopiesAgreeAtRest` holds for any `Garbled` and `TooMany`: `CopiesAgree` itself
excepts a supervisor's set that cannot be sent.
`QuestionsAreKept` and `RefreshesAreKept` are the safety under
`NobodyWaitsForGood`: on a link that is up, a waiting question is in the table
and somewhere on its way (`InTheTable`, `SentAndKept`), because only a walk may
end unanswered (`WalksAreTimed`) and the supervisor's reader shuts the link as it
ends (`ReadWhileUp`); the question of a refused credential is with the reader,
the refresh thread or in an answer, panics included (`AskedIsKept`).

**`ProxyProofs`.** `EventStream` is a pipe: `Pipe` is what was queued and not
applied, the socket's frames before the queue's. While the applier runs,
decisions are in it in the order of their numbers and before their amendments
(`Sorted`), each past all that were applied (`Framed`, `AppliedUpTo`), and
nothing reported is outside it and the ring (`NothingLost`). It takes the mutex
that is held from the number to the queue (`HeldToQueue`, `Numbered`).
`FlushedMeansApplied` follows from `Behind`: a barrier is behind what its flush
covers until it is acknowledged, and no acknowledgement names a newer one.
`AmendsItsOwn` follows from `Remembered`: a number leads to the ring's entry of
its own request, and one that was trimmed is of an entry the ring has lost too,
as the numbers kept after it stand for as many decisions pushed since.
`BoundsAreKept` needs an account of the weight in flight: it is a sum, but each
unit of an event's weight can be told apart, so the sum is compared with the
number of units held by requests (`HeldUnits`) and by the queue (`QueuedUnits`).
`Accounted` says it is never below their number, closed or not, and a step adds
or removes the units of one event, which takes no induction over the queue.
`StreamNeverStuck`: while a request has something to report or a flush is not
answered, one of the threads can go on. The mutex is held only on the way to the
queue (`HolderQueues`), and the barrier a flush waits for is in the pipe or in an
acknowledgement (`AckIsComing`); the weight in flight is held by somebody, or
there is room for what waits, an event heavier than all the room included.

`Lookups`: `MadeUnderLock` and `RunningIsUnanswered` give `InFlightIsLive`; the
caps of the table and the cache are `LookupsWithinCaps`. `WaitersAreServed`: a
waiting caller's lookup runs or has answered, as a thread leaves only with a
result in hand (`ResultInHand`), one that panicked included.

**`KeptProofs`.** `EventLog`: numbers are given in order and what the cap took
is older than what is held and is counted (`OldestFirst`, `EvictedCounted`,
`MutedCounted`), which gives `GapsAreTrue` for every cursor; `ShownOrWaiting`
gives `ReadersMissNothing`. `LogLinger`: the table is as recent as each reader's
last poll that was noted (`NotedAtItsPoll`), so none that polls in time is given
up (`NotGivenUp`), and `LastReadsAreNoted` follows as an action property.
`ConnPool`: a connection is one request's or is parked in one place
(`RidesAlone`, `ParkedOrRidden`, `ParkedInOnePlace`) under the key of the
credentials it carried (`CarriesItsKey`), which gives `ReusedAsOpened`;
`TakenOnce` counts by what was sent and is awaited (`SentIsAwaited`,
`AnswerIsRead`, `TakenCounted`).

**`HostProofs`.** `SessionStop`: a number is one living process's
(`OneNumberEach`), a record is kept under the name of what it records
(`RecordsAreNamed`), and a descriptor whose start time was confirmed is of the
process recorded (`PinnedIsNamed`). `NoneLeftOut` follows each process the lists
named from the listing to its signal, past the reads that fail, and
`ForgetsTheDead` says whose record a stop removes. `StopSignalsWhatItFound` takes
a second invariant, `OwnInv`: a parent runs and what it starts in a session is of
that session (`ParentsRun`); so while no number given up went to another process,
the stats read one at a time join as one picture (`ReadAsOne`), and the walk down
from the number finds nobody else's (`MembersAreItsOwn`). None of the four
theorems assumes anything of the host's reads. `AtomicFile`: what was flushed is whole, and only that
is renamed (`FlushedIsWhole`), because a file holds what its writer is past
(`WrittenInOrder`). `WritersKeepPromise` maps each step to one of `DurableFile`
or to a stuttering step: a rename installs a file that was never installed
(`InstalledOnce`), no write reaches a file that was, and a crash cuts `renamed`
at or after what is on the disk.

**`ExecAsk`** (in `SessionRulesProofs`, from `Exec!Spec`). An exec waits in one
place: once in the kernel's queue (`QueuedOnce`), in the registry, or with one
thread that took it out (`InOneHand`), and none that waits was told of
(`UntoldIfHeld`). `OperatorsHearTheTruth` states `ExecsAnsweredTruly`: the answer
an operator reports is the first one the kernel got. `StoppedExecsAreInHand`: a
stopped exec that was read is parked or with a thread about to answer it, and
nothing is left parked once the loop drains, which no sweep would reach.

**`ProjectStoreProofs`.** `CollectedOnlyUnused` states `NothingTakenInUse`: of the
trees a verb set out to lock, not of those that came after a purge chose. A
lock holds on a file, not a name, so `Inv` says that all who opened a project's
lock have the file its name leads to (`OneFileEach`); then a verb's hold is the
only one (`Excludes`), a launch keeps its own until it is recorded
(`HoldsWhatItUses`), and a verb that read the registry with its locks held has
no session under them (`NoneRecorded`); whoever takes from a tree it set out to
lock has its lock (`HasItsLocks`). All of it is so until a verb that takes
whole trees begins, which takes the lock's file too: past that point a
removal can take a tree in use, which is what the run `store_remove` shows.
`NobodyLocksOut` states `NoCircularWait`, removals and sweeps included: an actor
that waits for a lock holds only those of projects before it (`LocksInOrder`), so
in any set of actors that wait for each other the one that waits for the
greatest project waits for nobody in it.

`AnsweredOnce`, `WaitersBounded`, `NeverLosesARule`, `LookupsWithinCaps` and the
`TypeOK`s are proved and no run repeats them.

The same is so of `NoCircularWait`, `NeverStuck`, `Served`, `NobodyForgotten`,
`AskedIsKept`, `MutexGivenBack`, `StoppedIsInHand` and the refinement
`AtomicFile!KeepsPromise`: TLC found each true of the instance of its component's
run, and false of a faulty form of it, before it was proved. They say what the
liveness properties rest on, without fairness.

**Model-checked only.** Every safety invariant and action property of the
passing runs is a theorem, and so is `KeepsPromise`, which is safety only. Liveness
under fairness is outside the prover: `RequestsLetGo`, `NobodyHeldUp`,
`QuestionsAnswered`, `VerbsEnd` and both `NobodyWaitsForGood`. That a guard of
`NeverStuck` (`RequestGoes`, `WriterGoes` and the others) is when its action can
be taken is about `ENABLED`, and was compared by TLC too.

## What the models leave out

* A client that disconnects while its request is parked: the code does not
  notice it either, the entry stays until it is answered.
* The end of the link in `UpstreamJudge`: what a waiting request then sees is
  `LinkReplies`.
* The clear and splice planes in the judge: they never park and never take an
  allow.
* Addresses: `Resolve` and `Dial` have free outcomes, and the address guard is
  part of them.
* In `CredRefresh`, the retirement of a signer's process.
* In `ExecAsk`, remembered exec rules and the serving of opens.
* In `ConnPool`, what is left unread of a response, and the HTTP/2 tunnels'
  pool. In `SessionStop`, attaching and detaching.
* In `AtomicFile`, `write_atomic_if_changed`, which only skips a write of what
  is there already.
* In `ProjectStore`, a purge whose first launch has no tree yet, sessions that
  could not be recorded, cages that outlive their launcher, the shared store's
  own lock, the global app home and `--markerless`.
* Text everywhere: framing, escaping, rule matching, the filter on names.

## Not modelled

The repository has some 300,000 lines of implementation in 238 files. Most of
them parse, validate, format, download, mount or relay: configuration, the
command line, packages, plugins, cage construction, TLS, HTTP and WebSocket
framing, desktop relays. They hold no state of several actors that a model
would tell more about than a test. The map covers the parts where threads,
processes and crashes meet; `PROJECT.json` gives the reason for each part left
out. Worth modelling still: the flow registry and payload capture, connection
caps and pacing (`conncap.rs`), the task pool, the storage volume, the trust
store.

## Plan

1. An abstract specification of the store's lock, implemented by `ProjectStore`
   until a removal or a sweep begins.
2. `EgressAsk`: `AskQueue`, `SessionRules` and `UpstreamJudge` composed, so that
   `first` is the push itself: a request answered with `session` is not parked
   again, and no cycle of waits joins the queue, the push and the link.
3. `ConnCap`: a place taken by the test itself and given back on every path;
   pacing and refusals.
4. The task pool's fill lock, the storage volume, the trust store, the flow
   registry.
