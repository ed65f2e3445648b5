# Teitunnel in TLA+

Teitunnel publishes what runs on a machine at a hostname of the user's Cloudflare
account. A desktop app and a command line share one Rust core (`crates/core`), which
plans and applies changes to the account, and which starts and watches the
`cloudflared` processes that carry the traffic. This directory models the parts of that
core whose mistakes a test would hardly reach: the pipeline that changes an account, the
supervisor that owns the processes, and what is built on them: Quick Shares, run modes,
inspections and pauses of a route, the webhook inbox, the check for outside edits. Paths below are
relative to the repository's root; `engine/x.rs` stands for
`crates/core/src/engine/x.rs`, `runtime/x.rs`, `inspect/x.rs`, `machine.rs`, `pause.rs` and
the like likewise.

Contents: 1 Inventory; 2 Plan; 3 Connector; 4 Account, Planner and Engine; 5 QuickShare;
6 Machine; 7 Inspect; 8 Inbox; 9 Drift; 10 What is proved; 11 What is only model-checked;
12 Findings; 13 Known divergences; 14 Not modelled.

To check one run: `tlc -config EngineAlone.cfg MCEngine`; the other runs name a module in
`PROJECT.json` in the same way. To check the proofs: `tlapm` on `ConnectorProofs.tla`,
`PlannerProofs.tla`, `EngineProofs.tla`, `QuickShareProofs.tla`, `MachineProofs.tla`,
`InspectProofs.tla`, `InboxProofs.tla` and `DriftProofs.tla`. `PlannerProofs` and
`EngineProofs` take five minutes each.

## 1. Inventory

### The parts and what they keep

| Part | State it keeps | Operations | Speaks to |
|---|---|---|---|
| `runtime/`: supervisor, connector, registry, policy | handle map, one actor task per started connector, crash tracker, pidfiles | start, stop, stop_all, nudge_all, the actor's loop, reap_orphans | processes, `<app_data>/run`, everything that shows a state |
| `engine/`: planner, observe, executor, ingress, access | a mutex per account, an observation cache (5 s), the local index in SQLite | preview, apply, drift, keep/restore, discovery of foreign tunnels | `cf-api`, the connectors (through the trait `Connectors`), the store |
| `crates/cf-api` | the HTTP client, its rate limiter | one method per Cloudflare call, retries with backoff | Cloudflare |
| `machine.rs`, `service.rs` | run mode, service and port of each tunnel | start, stop, set_always_on, restart, update of the binary | supervisor, launchd/systemd/Task Scheduler |
| `quick_share.rs`, `cli_shares.rs` | map of shares with a generation counter, reserved ports | start, restart, stop, URL poller, checks, expiry | supervisor, Lens |
| `domain_shares.rs`, `share_names.rs` | rows of temporary routes with owner and expiry | start, stop, sweep | engine |
| `inspect/` | a row per route that points at a local tap | plan_on, apply_on, plan_off, apply_off, sweep | engine, Lens |
| `pause.rs`, `schedule.rs` | rows of pauses and schedules, a lease per owner, the enforcer's memory | pause, resume, enforce | engine, inspect |
| `crates/lens` | taps, exchanges, breakpoints (at most 50 held), gates, stubs | the proxy's request path, resume, replay | the origin, the visitor |
| `crates/control`, `core/control.rs` | sessions, confirmations under way | newline-delimited JSON-RPC over a socket | the app, the CLI, agents |
| `crates/mcp`, `mcp_auth.rs` | plans kept for approval, tokens, limits | tools and resources | engine |
| `uptime`, `alerts`, `health`, `doctor_monitor` | counters, leases | periodic checks | connectors, Cloudflare |
| `inbox.rs`, `engine/inbox-worker.js` | a table of webhooks at Cloudflare | the Worker's requests; drain | Cloudflare, the local service |
| `project/` | `teitunnel.yml` | plan and apply as a list of changes | engine |
| `accounts`, `secret(s)`, `store`, `settings`, `backup` | keychain items, SQLite | CRUD | all |
| `crates/localdomains`, `local_domains.rs` | CA, leaves, name server | issue, serve, trust | Lens |
| `crates/cloudflared`, `binary.rs` | the installed binary | locate, install, build commands, read logs and endpoints | disk, GitHub |
| `apps/cli`, `apps/desktop` | nothing of their own | commands, IPC | core |

### How they interact

- A caller asks the engine for a **preview** and shows it. It then calls **apply** with
  the reviewed fingerprint. Apply takes the account's lock, observes again, compares,
  runs the steps one awaited call after another and, when one fails, awaits the undos.
- The lock is a tokio mutex in one `Engine`, so it serialises the tasks of one process.
  The app and every CLI invocation have an `Engine` each; they meet at Cloudflare and in
  SQLite only.
- A step that starts or stops a connector goes through `Connectors` to `machine.rs` and
  from there to the supervisor. The supervisor never calls back into the engine.
- A connector's actor and its callers share a stop flag, a nudge channel and the
  published state; the actor and the *next* launch of the app share the pidfile.
- `inspect`, `pause` and `domain_shares` are clients of apply that remember, in a row,
  what to put back. Their rows are written before or after the apply they belong to, so a
  crash between the two leaves one without the other.

### What is hard here, and what makes each part correct

- *Processes that outlive their owner.* A stop that has returned leaves no process; one
  process per connector id; a force-quit leaves a record that leads to the process;
  a crashed connector comes back by itself; a stop or a nudge is never lost.
- *A change made of many calls.* What runs is what was reviewed; the account's lock is
  held throughout and always released; a failure undoes what was done or lists what it
  could not undo; a route that asks for a login is not reachable without it, at no call
  and wherever the process dies; records made by hand are never replaced silently.
- *Others at the same account.* A configuration is not overwritten unseen.
- *Calls whose answer is lost.* They count as failed although they were carried out.
- *Pure planning.* Applying a plan reaches what was asked for, asking again changes
  nothing, and the other routes stay as they are.
- *Rows and leases around an apply* (inspect, pause, shares): what the row says and where
  the route points must not come apart for good.
- *Two ways to run one tunnel.* A switch between them over several awaits leaves no gap, no
  second connector, no port nobody releases, and nothing that the next launch cannot find.
- *A copy of what others may change* (drift): the local copy of a configuration is compared
  and rewritten over several awaits; what others did is shown, and what Teitunnel did is not.
- *Deliveries without a transaction* (inbox): what was promised to a sender is delivered, in
  order, and twice only when something went wrong in between.

`PROJECT.json` lists every hazard at its line, with the properties that cover it.

## 2. Plan

Done in this order, each module with its runs, mutants and map:

1. `Connector`: one connector id, its actors, its processes, its pidfile. **Done.**
2. `Account`: what each step does to an account and what undoes it. **Done.**
3. `Planner`: observation and plan, pure, over `Account`. **Done.**
4. `Engine`: review, lock, second observation, steps, rollback; `EXTENDS Planner`. **Done.**
5. `QuickShare`, on what `Connector` shows of the supervisor: restarts, generations and
   the poller for the address. **Done**, but for checks and Host headers.
6. `AtomicApply`, the abstract specification of apply: from the reviewed account to the
   intended one, or back, or to a listed difference, in one step. `EngineRefinement` maps
   `Engine` to it. **Done.**
7. `Machine`: session and always-on, ports. **Done** for one tunnel.
8. `Inspect`: a route pointed at a tap and back, the row, the crash, the sweep, and the
   enforcer of pauses on top; it uses the engine as `AtomicApply` promises it. **Done** but
   for the lease between hosts and the schedule.
9. `Inbox`: the Worker, its table, the delivery rounds. **Done.**
10. `Drift`: what Teitunnel last wrote, the check against it, keep and restore. **Done** for
    one tunnel.
11. `ConnectorProofs`, `PlannerProofs` with `EngineProofs`, `QuickShareProofs`,
    `MachineProofs`, `InspectProofs`, `InboxProofs`, `DriftProofs`: section 10. **Done** for
    what is listed there.

Left, most important first:

12. `Inspect` with the lease, the schedule and a second host; temporary domain shares, which
    are the same pattern with an expiry.
13. `Drift` with several tunnels, of which one is created and removed.

Each component has one run that carries its safety and its liveness together, on an
instance small enough for both, and a second one only where the question is another.

## 3. Connector

`Connector.tla` is one connector id of `runtime/`. The supervisor may be asked to start
and stop it by several tasks (`Callers`); every start spawns a new actor (`Actors`), and
an actor spawns processes (`Pids`).

| In the model | In the code |
|---|---|
| `handle` | the id's entry in `Supervisor::connectors` (`supervisor.rs`) |
| `call` | the task a caller's `stop()` awaits after it took the entry out |
| `pc`, `state`, `stop`, `outcome`, `crashes`, `check` | the locals and channels of `run` and `supervise` (`connector.rs`), the `CrashTracker` (`policy.rs`) |
| `runNudge`, `watchNudge` | the two receivers of the one nudge channel, each with its own "seen" mark |
| `child`, `alive`, `connected` | the actor's `Child`; what the operating system and the edge say |
| `pidfile` | `<app_data>/run/<id>.json` (`registry.rs`) |
| `app` | the app process; "reaping" is `reap_orphans` at launch, before anything starts |

Actions follow the awaits. `Start` and `Stop` are what the supervisor does under its
mutex. `Spawn`, `Record`, `SeeExit`, `SeeStop`, `SeeNudge`, `PollRestarts`,
`PollHealthy`, `PollDegraded` are the arms of the `select!` in `supervise`, `KillChild`
and `Forget` its end, `EndStopped`, `EndRestart`, `EndCrashed` the match on the outcome,
`Settle` the `mark_unchanged` after the state was published, `WaitOver`, `WaitNudged`,
`WaitStopped` the second `select!`. `Die`, `Connect`, `Disconnect` are cloudflared's,
`Exit` and `Launch` the app's (exit, crash and force-quit alike: children are in a
process group of their own and may live on).

Abstractions. Timers are actions that may happen at any time; a backoff's length is not
modelled. `CrashTracker::record` drops the crashes that have left its window, so the
count after a crash is any number from 1 to one more. SIGTERM and SIGKILL are one step,
as nothing else reads the child between them. The window between `spawn` and the
pidfile's write is a step (`spawned`), and a crash inside it leaves an unrecorded
process, as in the code. `FreshPids` gives no process the identity of another one that
is alive, recorded or held: a pidfile holds the start time as well as the pid.

Run (module `Connector`).

- **connector_serial** (`ConnectorSerial.cfg`, 63,635 states): one caller, two actors,
  three processes, threshold 2, nudge check on, under `FairSpec`. It shows, through any
  crash of the child and of the app: `OneProcess`, `WatchedIsRecorded`, `StoppedIsGone`,
  `LetGoOnlyDead`, and the liveness properties `StopEnds`, `ComesBack`, `NudgeActs`.

What holds when callers overlap and pidfile writes fail is proved (`TypeOK`, `Accounted`,
`StoppedIsGone`, `LetGoOnlyDead`); `OneProcess` and `WatchedIsRecorded` then do not hold
(section 13).

Bounds. `Actors`: two suffice for an old and a new actor of the id; a finished one is
used again, so the number of starts is not bounded. `Pids`: one
per actor that holds a process and one orphan of an earlier launch. `Threshold` 1 or 2
reaches a crash loop and its retry. `Callers`: one, as the app's own code uses an id
(`machine.rs:730-732` stops before it starts). `crashes` needs no
bound: at the threshold the loop's retry resets it.

Fairness. tokio polls a task that can make progress and its timers fire, hence
`WF(Proceed)` and `WF(WaitOver)`. The arms `SeeStop`, `SeeNudge` and `PollRestarts` have
their own fairness because `select!` picks a random ready arm: one that stays ready is
taken in the end. Nothing is assumed of callers, of cloudflared or of the network, so a
connector may crash and come back for ever.

## 4. Account, Planner and Engine

Three modules, each extending the one before.

`Account.tla` is what Cloudflare and this machine hold for an account, as a *value*:
the tunnels with their configuration and its version, the tunnel of this machine, which
connectors run, the DNS record of each hostname, the Access application of each route.
`Accepts` says whether Cloudflare takes a step's call, `Perform` what the account is
afterwards (`Run::step`, executor.rs:1561-1780), `UndoOf` which undo the run keeps
(`Undo`), `Changes` in what two accounts differ, Teitunnel's comment on a record that had
none (`Marked`) apart from the rest. A route's key stands for its hostname
and path; `RulesOf(c, t)[k]` is the set of services the rules for k point at, so that two
rules for one route are visible.

`Planner.tla` is pure. `Observe(i, c)` is the snapshot an intent is planned against, and
at the same time its fingerprint: two snapshots are equal exactly when everything the
plan reads is. `Plan(i, s)` has one operator per intent, built of the builder's parts
under their own names (`EnsureTunnel`, `WriteRules`, `EnsureDns`, `ReleaseDns`,
`Protect`, `Unprotect`).

`Engine.tla` is the state machine. `Tasks` are calls of apply, `ProcOf` gives each its
process, and `lock` is each process's mutex for the one account modelled.

| Action | Code |
|---|---|
| `Review` | `Engine::preview`; the user agrees, or not, to what needs a confirmation |
| `TakeLock` | `lock_for(account).lock().await` |
| `Accept`, `GiveUp` | the second observation: equal fingerprints and a confirmation where it is needed, or an error |
| `Call` | one step other than PutConfig: answered, refused, failed, or carried out with its answer lost |
| `ReadConfig`, `WriteIngress` | `put_ingress`: GET and compare the version, then PUT |
| `Finish` | the end of `execute`, with `ensure_connector` after an add or a change |
| `UndoLast`, `RolledBack` | `roll_back`: the undos in reverse order, one call each |
| `Crash` | the process dies, with all its tasks |
| `Abandon` | `tokio::time::timeout` of the control connection drops the future of one change (`crates/control/src/server.rs:383-398`) |
| `EditRule`, `EditRecord` | someone else, in the dashboard or through the API |

`start`, `touched` and `unsure` are history: the account at the second
observation, whether anybody else wrote since, and what a lost answer may have changed.
`left` is what the outcome lists.

`AtomicApply.tla` is what all this promises to somebody who waits for outcomes: a change
that was asked for is made in one step (`Apply`), refused, or taken back but for what its
outcome lists (`TakeBack`), one change after another, and none leaves a protected route
open, not even when its process dies. `EngineRefinement.tla` maps `Engine` to it: while a
change is under way its account is still the one it observed, and its outcome "asked";
the step that ends it in `Engine` is the one step of `AtomicApply`, every other is a
stutter. This is what the callers of apply may assume, and what `Inspect` does assume.

Abstractions.

- An observation is one step; it is several GETs in the code. The 5 s cache is a review
  made earlier: `Review` may happen any time before `TakeLock`.
- A hostname has at most one record and a route at most one application. A record leads to
  a tunnel, is another CNAME (`Elsewhere`), or is no CNAME (`Address`), which an update
  replaces under a new id instead of changing it in place (`IdAfter`,
  `engine/executor.rs:1634`). Of its comment the model has what tells it apart: `owned` is
  `is_owned` (`engine/observe.rs:737`: Teitunnel's comment, or an entry of the local index),
  `noted` a comment that is somebody else's. `GiveBack` is the undo of an update: a PATCH in
  place sends no comment for a record that had none, so Teitunnel's stays (section 13).
- Rules carry no options; a login is who it lets in; the API's pagination, rate limits
  and retries are one call.
- A call that is dropped or whose answer is lost takes effect at once or never. The undo
  of a configuration is one step though it is a GET and a PUT.
- A tunnel whose creation was not heard of is an orphan nothing refers to, so its
  creation has no effect here.
- A crash falls between two calls. What the code writes to SQLite goes with the call
  before it.
- The batch endpoint for several new records, load balancers, private networks,
  bypasses, service tokens, reservations, sites, fronts and edge rules are left out.

Runs (module `MCEngine`). `k1` and `k2` are two paths of `h1`, `k3` is the hostname `h2`.

- **engine_alone** (1.9 million states): one change, any of the intents about `k1` (every
  other intent is one of these under another name), from 3420 accounts: no tunnel, one
  without a configuration, or one with any set of rules; the record of `h1` absent,
  Teitunnel's, made by hand, pointing elsewhere with a comment of its own or without, or no
  CNAME; logins of any kind; the connector on
  or off. Two failed calls, one lost answer, a crash or a dropped request anywhere.
  `LeftoversAccount`: what a failed change leaves is what it lists, but for the three things
  that `Unlisted` names. `AppliedConverges`: an applied change is there and asking again is
  empty; the other routes keep their rules and logins and still answer; and of the records
  but the asked hostname's only Teitunnel's have changed.
  `NeverOpen`: a protected route is never reachable without its login. `TypeOK`.
- **engine_edits** (1.45 million states): someone edits a route or a record between any two
  steps. `OnlyReviewed` and `ForeignKept`.
- **engine_shared** (161,000 states): two tasks of one process, a failure, a lost answer
  and crashes, under `FairSpec`. `Undisturbed`, `ApplyEnds`, and `Implements`: the
  refinement above.
- **engine_opened**: a violation; section 12.

Bounds. `MaxFaults` 2: a step fails and then an undo fails. `MaxLost` 1 and `MaxEdits` 1:
one such event at any point of a change is what each property is about; a second one at
the same change meets a plan that has already failed or is already refused. One task
suffices where a property is about one change against everything else, two where
tasks meet. Two tunnels: this machine's and the one a plan creates. Three keys give a
sibling on the same hostname and a stranger. Two origins and two groups of people allow
"another than the present one". The runs whose property does not need a sibling use `k1`
and `k3` only. `CHECK_DEADLOCK FALSE` because a task applies one intent and then rests.

Fairness. `ApplyEnds` assumes that an apply keeps taking steps: the HTTP client has
timeouts (`client.rs:61-62`) and a bounded number of retries (`client.rs:153-189`), so
every call ends, and tokio's mutex is fair. Weak fairness of a task's actions is enough:
the lock comes free and stays so for the one task that waits. Nothing is assumed of
users, of other editors or of crashes.

## 5. QuickShare

`QuickShare.tla` is `quick_share.rs`: shares with an anonymous address, each with its own
cloudflared. A share's connector appears through what `Connector` shows of the
supervisor: `start` is refused while the id is in the map, `stop` takes it out and
returns when its process has ended.

| In the model | In the code |
|---|---|
| `entry` | the map of `Entry`s: port, tap, generation, and of the `QuickShare` its address, status and `inspected` |
| `reserved` | `PortAllocator::taken` (`runtime/ports.rs`) |
| `op` | a call under way: its locals, and the await it is at |
| `actor`, `proc` | the supervisor's map for the id, with what the command forwards to; the process |
| `tap` | the inspector's tap of the share, by the generation that made it |
| `pollers` | the tasks of `await_url`, with their generation and what they have asked |
| `events`, `mirror` | what `watch_runtime` has not yet received; the status `apply_state` has decided on and not yet written |

The steps of a call are its awaits. `Restart` and `Stop` are what happens under the map's
lock, then come `StopConnector` and `ConnectorStopped` (`supervisor.stop`), `Untap` or
`Release`, `Target` (the new tap), `RunNew` or `RunAgain` (`supervisor.start`), `Record`;
`GiveUp` is every error path. `Stop` stands for a user's stop, a share's own timer, an
idle tap and the app's exit. The poller reads the generation (`PollGoesOn`), asks for the
host (`PollHost`), asks whether it is connected and writes (`PollReady`): between those
anything may happen, and whoever is bound to the port at that moment answers. A timeout
is a step that may come at any round. `apply_state` reads and writes under two locks.

Abstractions. An address is a share and the number of its process, as each cloudflared
gets a new one. A poller's wait for the DNS is one more round. Between `supervisor.start`
and the insertion of a new share nothing is awaited; they are one step. Left out: the
check through the edge, a Host header set on a live tap, pauses, the history, and the
wait for a port another program holds.

Runs and bounds.

| Run | Instance | Shows |
|---|---|---|
| `quick_share` | 2 shares, 1 port, 1 caller, 1 restart of each, no faults; 1.1 million states | the port is handed from the first share to the second while pollers, taps and a failing restart of the first are about; the four invariants |
| `quick_share_overlap` | 1 share, 2 callers, 1 restart, 1 fault, 1 event; 160 thousand states | `PortsAccounted` and `StartingEnds` while a stop overlaps a restart and the process dies |

With one port a second caller would find nothing to do that the first does not, as long
as operations on a share do not overlap: the port is taken until the first has released
it. `MaxEvents` is the capacity of the channel of states, from which a receiver that lags
loses the oldest; at 0 the statuses are not mirrored, and no invariant of that run is
about them. `CHECK_DEADLOCK` is off, for a share's id is used once and a finished instance stops.

`OwnPort` and `OwnAddress` are about the port. It is released last, after the process
has ended; a poller never looks at the generation again after it has asked, so an answer
from the next user of the port would be written. It cannot be: the entry keeps the port
until it goes, and then there is nothing to write to. Releasing it on a failed restart
breaks this (`GiveUpReleasing`).

Fairness. `Continue` of every caller: `supervisor.stop` ends (`StopEnds` of `Connector`),
and the rest is I/O with a timeout. The poller's steps are weakly fair, its deadline
strongly: it is looked at every round, and passes. cloudflared owes nothing.

## 6. Machine

`Machine.tla` is one tunnel of `machine.rs`. It runs as a connector of the app (a session)
or as a service of the operating system (always-on).

| In the model | In the code |
|---|---|
| `row`, `remembered` | the tunnel's row of `local_tunnels`: always-on, metrics port |
| `tokenFile` | the service's token file |
| `held`, `services`, `taken` | `MachineTunnels::held`, `services`, and `PortAllocator` (`runtime/ports.rs`) |
| `session`, `agent` | the supervisor's connector; the service. "dead" is between a crash and its restart, "alive" holds the metrics port, "up" is connected |
| `other` | a port another program listens on |
| `op` | a call under way: its kind, the await it is at, the service's port when it began |
| `odd` | history: what has happened that a property makes an exception of |

The steps of a call are its awaits. `SetAlwaysOn`, `RestartTunnel`, `StartTunnel`,
`StopTunnel` and `ResumeTunnel` are what comes before the first; then `install_service` is
`Install` and `Load`, followed by `Ready`; `uninstall_service` is `Unload`, and `Remove` at
the end of a switch off; `start_session` is `Clear` and `StartSession`, followed by
`Healthy`; `stop_session` is `HaltSession` and `DropPort`; `WriteRow` writes the mode.
`EndApp` and `Launch` are the app's; the service lives on in between, and is adopted on the
port that is remembered (`Adopt`). `CommandLine` is `teitunnel always-on` in a process of
its own, whole, as nothing of this process takes part in it.

Abstractions. The supervisor's `start` and `stop` are one step each (`Connector` has their
inside); `launchctl` and its like replace, remove or fail, before or after they did. What
the sampler last saw of a service is what it is. Two tunnels compete for ports only; that is
`OtherBinds`. A timeout of `Ready` and `Healthy` is a step that may come at any time.

Run. **machine** (`MachineSerial.cfg`, 787,000 states): three ports, one call at a time,
four calls, and two of: a failed call, a broken connector, a port taken by another program,
a command line. `NoGap`: who was served is served when the old connector is stopped.
`Adoptable`: a service that runs is one the next launch finds. `ServiceKnown`: and one the
app knows. `NotTwice`, `NoPortLost`, `StopStops`.

Bounds. Three ports: the old one, the new one, one that another program takes. Four calls
reach a switch on, its undoing, an update and a start after each other. Two troubles: one
that breaks a call, and one in the call that repairs it. Callers: the interface allows one
switch at a time; what two do is in section 13. The exceptions (`Halfway`) are named for the
failure that leads to them and are what "the next launch, start or switch puts together".

Fairness. `WF(Step)`: each wait has a deadline (`machine.rs`: 30 s). No property of the
run needs it: `EndApp` and `Begin` may always come between.

## 7. Inspect

`Inspect.tla` is one route of one hostname, inspected and paused (`inspect/routes.rs`,
`pause.rs`). Both change the route's service, through the engine, to the address of a local
tap, remember in a row what it was, and change it back later; a sweep does so for a process
that died.

| In the model | In the code |
|---|---|
| `route` | the service Cloudflare has for the route: the user's, a tap's address, or no route |
| `row` | its row of `inspected_routes`: original, address, owner |
| `pause` | its row of `paused_routes`, with `via_inspect` |
| `tap` | each process's tap for the route: port, target, whether it shows the page |
| `applied` | `Enforcer::applied` |
| `op` | what each of four tasks is at: the app's commands, `watch_pauses`, `watch_inspected_routes`, and `teitunnel inspect` |
| `own`, `odd` | history: the service the user gave the route; what a property makes an exception of |

| Actions | Code |
|---|---|
| `PlanOn`, `Review`, `Prepare`, `Record`, `Point`, `Unrecord` | `plan_on`, the user's answer, `apply_on` call by call |
| `Find`, `Look`, `Lapse`, `Back`, `Clear` | `plan_off`, `apply_off`, `revert` |
| `Sync`, `Guard`, `Mark`, `Save`, `Show`, `Check` | `Enforcer::sync_taps`, `sync`, `pause_here`, the end of `set_paused` |
| `InspectHere`, `SetPaused`, `AskOver`, `RunCli`, `Interrupt`, `Quit`, `Sweep` | who asks: commands, requests of other processes, Ctrl-C, the loops |
| `Exit`, `Crash`, `Launch`, `EditRoute` | the processes' ends; the user, in the dashboard |

`Point` and `Back` use apply as `AtomicApply` promises it: the change is made if the route
is what the review was planned against, it is refused or taken back, or it is made and its
answer lost. A reviewed plan is dropped when the route changes, as its fingerprint would.

Abstractions. One hostname and one path. The engine's view, up to 5 s old in the code, is
read as it is. A tap gets the lowest port that nothing refers to. A second host, the lease
between hosts and the schedule are left out: `AskOver` is anybody who asks.

Runs.

- **inspect** (`InspectAlone.cfg`, 439,000 states): three requests, and two of: a failed
  call, a lost answer, an edit, a crash. `WayBack`: a route that points at a tap has the row
  that leads back. `OriginalKept`: which holds the user's service. `PausedIsHidden`: a tap
  that shows the page is one the route points at. `OnlyTheirs`: no step of Teitunnel puts a
  service there that is neither a tap nor the user's. `SweptInTheEnd`, `PauseTakes`,
  `ResumeServes` under `FairSpec`.
- **inspect_cancelled** (`InspectCancelled.cfg`): a violation; section 12.

Bounds. Two ports per process: the tap that is there and one that is referred to still.
Three requests: a pause within an inspection, and the end of one of them. Two troubles: a
crash, and a failure of the sweep after it. `Overlap = FALSE` has what people do wait for
the app's own tasks; section 13 says what an overlap leads to. With four requests the
safety properties hold as well (two million states; too many for the run). `CHECK_DEADLOCK FALSE`:
requests are bounded, and a finished instance stops.

Fairness. Every call ends (the client's timeouts), and the loops go round (`bootstrap.rs`:
`watch_pauses`, `watch_inspected_routes`), hence weak fairness of each task's steps with
the start of its next round. Nobody has to answer a review, ask for anything, or launch the
app; the liveness properties end where the app does.

## 8. Inbox

`Inbox.tla` is the inbox of one route: the Worker in front of the tunnel
(`engine/inbox-worker.js`) and the delivery rounds (`inbox.rs: drain`), which share one
table at Cloudflare and no lock.

| In the model | In the code |
|---|---|
| `table` | the rows of `teitunnel_inbox`: seq, webhook, arrival, delivery |
| `request` | each webhook's request to the Worker: counting, asking the tunnel, storing, answered; `pending` is what it counted |
| `drainer` | each round: the rows it read and where it is. `Loop` is the app's own, `Others` are a person's |
| `received`, `again`, `overlap`, `trouble` | history: what the service took, whether any of it twice; why it may |

`Count`, `Fetch`, `Keep`, `Refuse`, `WorkerFails` are the awaits of `handle`; `Begin`,
`Delivered`, `NotDelivered`, `Mark`, `Sweep`, `DrainFails` those of `drain`. `Send` is the
sender, who repeats what was answered with 5xx; `Killed` ends a round anywhere.

Abstractions. A tick of the clock is one retention. Signatures, bodies that are too large
and methods that pass straight through are left out; so is the setting up of an inbox, and
the error and the attempts noted in a row, which nothing reads. The service's address is
read once per round.

Run. **inbox** (`InboxDrained.cfg`, 462,000 states): two webhooks, two requests at a time,
the loop and one more drainer, an inbox and a batch of two, two retentions, one failed
query, lost answer or killed round. `NothingLost`, `InOrder`, `TwiceForAReason`, and
`Settled` under `FairSpec`. The first three are also theorems.

Bounds. Two webhooks are the least that have an order, and two rounds the least that
overlap. Two ticks make one row old and keep another. One trouble at any step is what each
property is about, and the theorems are for any number.

Fairness. The loop comes round every 30 s (`bootstrap.rs: watch_inboxes`), a round and a
request that have begun go on, hence weak fairness. `SF(Delivered(Loop))` says that a
service asked again and again answers below 500 some time; without it nothing can be
delivered. Nobody has to send or to press a button.

## 9. Drift

`Drift.tla` is the baseline of one tunnel (`engine/drift.rs`; `executor.rs: drift`,
`keep_theirs`, `put_ingress`; `local.rs: set_applied`). What Teitunnel last wrote is kept in
the local database. A configuration of a higher version with other routes is an outside edit,
which the user keeps or has put back.

| In the model | In the code |
|---|---|
| `config` | Cloudflare's configuration: its version, and the service of each route |
| `row` | `last_applied_version` and `last_applied_ingress` of the tunnel's row |
| `lock` | each process's mutex for the account |
| `op` | a call under way: a check for the screen, for Keep or for Restore, or a change; the await it is at, and what it read |
| `shown` | the edit on the screen |
| `mine`, `odd` | history: what Teitunnel wrote last or its user kept; what the property makes an exception of |

| Actions | Code |
|---|---|
| `Check`, `ReadConfig`, `ReadOurs`, `Adopt` | `Engine::drift`, await by await: the version in the database, Cloudflare's configuration, the rules in the database, and, when no route differs, the new baseline |
| `TakeLock`, `Keep` | `routes_keep_theirs` after its own check: `keep_theirs` |
| `Change`, `Review`, `Observe` | a reviewed change of a route, or a restore; the second observation |
| `ReadVersion`, `Put`, `Record`, `Rest` | `put_ingress`, call by call; the rest of the plan, after whose failure the same calls run as the undo |
| `Drop`, `Edit` | a dropped request or a process that dies; somebody else at the same tunnel |

`ReadOurs` reads the rules a second time, after Cloudflare's answer: a check that began before
an apply compares the new rules with the old configuration, and `Told` has to hold all the
same.

Abstractions. One tunnel, so the check of any tunnel is the check of this one. An edit that
moves no route (the catch-all) only moves the version. Of a plan only its PutConfig is here,
and what follows it as one step that may fail; `Engine` has the others. A restore is derived
twice in the app, for the review and for the apply, and refused when they differ; it is one
here.

Run. **drift** (`DriftAlone.cfg`, 1.46 million states): `Told`, which says that a check made
now would show exactly the routes that are not as Teitunnel wrote or its user kept them. It
makes three exceptions, each of which TLC needs: a baseline written over unread ("stale"), a
write that was not recorded ("unrecorded"), and a Keep of something else than what was shown
("unshown"). It says nothing between a write and its record. Section 13 has what these mean.

Bounds. Two tasks of one process: a check beside an apply, or two checks beside each other; two
processes differ in that two applies may overlap, and the theorem covers them. One route with
one service or none: a difference per route is all `diff` computes. `MaxVersion` 4: an edit,
a write, its undo and another edit. The theorem has no such bounds. Nothing is assumed of
fairness, as nothing here is promised to happen: a check that fails is made again.

## 10. What is proved

By TLAPS, in `ConnectorProofs`, `PlannerProofs`, `EngineProofs`, `QuickShareProofs`,
`MachineProofs`, `InspectProofs`, `InboxProofs` and `DriftProofs`, for every value of
the constants that satisfies the assumptions the modules name: `ConnectorAssumption`,
`AccountAssumption` with `EngineAssumption`, `QuickShareAssumption`, `MachineAssumption`,
`InspectAssumption` and `DriftAssumption`, each of the four with a `NoneAssumption`,
`InboxAssumption`. Those
say no more than that the constants have their kind, that `None` and the like are not
members of the sets they mark the absence from, that an account's hostnames and routes are
finitely many, and that found accounts are accounts.

| Theorem | Says | Rests on |
|---|---|---|
| `TypeCorrect` | Connector's `TypeOK` | one case per action |
| `EveryActorAccounted` | `Accounted` | `IInv` |
| `StopLeavesNothing` | `StoppedIsGone` | `IInv` |
| `OnlyDeadLetGo` | `LetGoOnlyDead`, an action property | `IInv` |
| `OnlyOneProcess` | `OneProcess` when callers do not overlap | `SerialInv` |
| `WatchedRecorded` | `WatchedIsRecorded` when callers do not overlap and the disk takes the pidfile | `RecordInv` |
| `LockIsHeld` | `LockHeld` | `LockInv` |
| `ReviewedOnly` | `OnlyReviewed`, with any edits and processes | `ReviewInv` |
| `ForeignConfirmed` | `ForeignKept`: what does not count as Teitunnel's (`is_owned`) is not changed, nor made to count, unasked; an action property, in one process, with any edits and faults | `ForeignInv` |
| `Serialised` | `Undisturbed` in one process that is alone at the account | `QuietInv` |
| `TypeCorrect` (Engine) | Engine's `TypeOK`, with any processes, faults and edits | `TypeInv` |
| `OnlyListedIsLeft` | `LeftoversAccount`, with the three things of `Unlisted` let through, likewise | `SafeInv` |
| `RoutesStayClosed` | `NeverOpen`, likewise | `SafeInv`, `Closed` |
| `ChangesConverge` | `AppliedConverges`, the other routes (`OthersStay`) and records (`RecordsSpared`) included, likewise | `SafeInv`, `Promised` |
| `KeepsItsPromise` | `Implements` in one process that is alone at the account | `SafeInv`, `QuietInv` |
| `TypeCorrect` (QuickShare) | QuickShare's `TypeOK` | one lemma per group of actions |
| `NoPortLost` | `PortsAccounted`, overlapping calls included | `PortInv` |
| `PortsAreOwn`, `StoppedIsForgotten`, `ForwardsToItsTap`, `AddressIsOwn` | `OwnPort`, `NothingForgotten`, `Forwards`, `OwnAddress` when operations on a share do not overlap | `SerialInv` |
| `TypeCorrect` (Machine) | Machine's `TypeOK`, overlapping calls included | `TypeInv`: where a call is says what it knows |
| `SwitchesWithoutAGap` | `NoGap` when calls do not overlap | `GapInv` |
| `ServiceIsFound`, `ServiceIsWatched`, `RunsOnce` | `Adoptable`, `ServiceKnown`, `NotTwice` when calls do not overlap | `ModeInv` |
| `StopEndsBoth` | `StopStops`, an action property, likewise | `ModeInv` |
| `EveryPortHasAUser` | `NoPortLost` when calls do not overlap | `PortInv` |
| `TypeCorrect` (Inspect) | Inspect's `TypeOK`, any overlap | `TypeInv`: where a task is says what it is for, and that it carries the row |
| `AlwaysWayBack` | `WayBack`, any overlap | `WayBackInv` |
| `OriginalStays`, `PausedStaysHidden` | `OriginalKept`, `PausedIsHidden` when what people do does not overlap with the app's tasks | `OwnInv` |
| `TheirsOnly` | `OnlyTheirs`, an action property, likewise | `OwnInv` |
| `TypeCorrect` (Inbox) | Inbox's `TypeOK` | one lemma per action |
| `NoneLost` | `NothingLost` | `KeptInv` |
| `OnceInPeace` | `TwiceForAReason` | `OnceInv` |
| `OrderKept` | `InOrder`, an action property | `OrderInv` |
| `TypeCorrect` (Drift) | Drift's `TypeOK` | `TypeInv`: where a call is says what it carries |
| `ChecksTellTheTruth` | `Told`, any number of tasks and processes | `ToldInv` |

*Connector.* `Accounted` alone is not inductive, for an actor's process could be anyone's.
`IInv` adds `ChildInv` (an actor holds a process exactly between spawning and forgetting
it, and it is dead by the time it is forgotten: this is where `KillChild`'s waiting
matters) and `DownInv` (an app that is down or reaping runs no actor). With one caller
`SerialInv` adds that the map is empty while a stop is awaited; together with
`Accounted` it leaves one unfinished actor (lemma `Alone`), hence one process, and
nobody else who could remove its pidfile.

*Engine.* `ApplyShape` sorts the actions of apply into taking the lock, staying within it
and leaving it, so that the lock's invariant has three cases, not nine. `ReviewInv`
says a running task's snapshot equals its review and has the agreement it needs: only
`Accept` establishes it, and nothing later touches the four variables. `QuietInv` needs
`LockInv`: whoever writes holds the lock, so no other task is running and none is marked.

What a change does to an account is proved in two parts. `PlannerProofs` knows no tasks. A step
changes only what it is about, and leaves an undo that fits it (`PerformIs`, `Fits`). A plan's
steps are each about something else, in the order of their ranks, and each was made from what
was observed (`PlanShaped`: one case per intent, one lemma per part of the builder). `Midway(Q, a,
c, x, m, n, L)` then says of an account c where it stands in the plan Q from a: the steps up
to m are there, those from n on were not begun, those between were taken back, but for what L
lists, and nothing else differs. Both ways through a plan go from one `Midway` to another
(`MidStep`, `MidFailed`, `MidBack`; `LogStep`, `LogBack`), which needs no induction over plans. Three facts about
`Midway` are what the properties want: it differs from a in nothing but what is before n
and in L (`WhatIsLeft`); it leaves no protected route open at any m (`Closed`, by cases on the
intent: where the login's step is relative to the rule's and the record's, what protects a
path of a hostname, what a rename does to both); and at the end it is what was asked for
(`Promised`; that it spares other people's records is lemma `Spared`, for every step about a
record is about the asked hostname's or about one that was observed as Teitunnel's).
`EngineProofs` puts the tasks there. `LeftoversAccount` and the like are far from inductive. `TypeInv`
adds to the types where each task is: what it works from is what it observed and reviewed,
its step is one of its plan's, its tunnel exists or did, its undos may be called. `RunInv` says that
the account of a task nobody disturbed is midway in its plan, that its undos fit and are those
of the steps that have one (`Logged`), and what is so when it has ended or died. A `Call` is
answered, or not, or its answer is lost; each moves the horizon, or turns it, or adds to L
(lemmas `WorkAdvances`, `WorkCreates`, `WorkFails`, `WorkUndoes`). A step of one task is, to another,
a change from outside, and marks it. So these theorems hold for any number of processes and
edits, of the tasks they do not exempt.
`KeepsItsPromise` is a step simulation: with `QuietInv` no task is disturbed and at most one runs,
so the account its user sees is the one it started from, and each of `Engine`'s actions is a
stutter of `AtomicApply` but `Review`, the refusals, `Finish`, `RolledBack`, `Crash` and `Abandon`, whose
guards there are the three properties. That `AtomicApply` takes `Reached`, `Exposed` and `Changes` as
constants keeps it a statement of its own; `EngineRefinement` gives it Planner's.

`ForeignKept` cannot count on what a task observed, since edits are allowed at any time. It rests
on numbers. A step finds a record by the number it was observed with, and a number is never given
twice, so what was Teitunnel's under its number when the plan was made is Teitunnel's or gone
(`Guarded`; `Gentle` is a change that keeps this so, as every edit and every other call is). A step that
does write over somebody else's record is of a plan that asks (`ForeignAsks`). One call gives a
number back to somebody else: `RestoreRecord`, the undo of a takeover of a record with a
comment of its own. In one process no other task is at work then, and the task's own undos and steps to come are about other hostnames (`Fine`, `Later`:
a plan has one step about a record). `ForeignInv` says this of the task that runs. The theorem has
two hypotheses. `OneProcess` is needed: with two, one removes as its own the record which the other
gives back meanwhile (section 13). `Counted` says that the numbers of the found records have been
counted, which is what "never given twice" means in the first state.

*QuickShare.* A release subtracts a port from the reserved ones, so `PortsAccounted` needs
that nobody else has it (`OnePortEach`); `RunNew` writes an entry, so it needs that there
was none (`StartedOnce`: an id is used once); and a call that starts or stops a share must
not end at an await that would keep its port (`InOrder`). With types, these are `PortInv`.
Most actions move no port (lemma `NoPortMoved`); `Start`, `Stop`, `Release`, `GiveUp` and
`RunNew` have a lemma each. As long as operations on one share do not overlap, `SharesInv`
says that a share is idle (in the map, its tap and its connector as the entry has them, or
with nothing left of it) or in one call, and what that call has made of it or left of it at
each await. A step then moves one share (lemma `OneShareMoves`). With `PortInv` it follows that
whatever is bound to a share's port is that share's (`BoundOwn`), so that a poller, which
asks on the port its share has or had (`PollInv`), hears only of addresses that are its
share's (`UrlInv`) for as long as there is an entry to write them to.

*Machine.* `TypeInv` adds to the types what a call at an await is and carries (a service that
is being loaded has a port). `NoGap` is about the step that stops the old connector, and what
it rests on was seen steps earlier: `GapInv` says of every place between that the new one is
still connected, since only the world breaks a connection (`WorldSound`, which the exception
covers) and the one call itself stops the other (`StepSound`).
What holds at rest is broken and mended within a call, so `ModeInv` says for each kind of call
and each await what the four records are there: a switch to a session has forgotten the
service but carries its port (`OffKnows`), a switch to a service has it everywhere but in the
row (`OnKnows`), and so on. The one call that is under way then ends in `AtRest`, on each of
its ways out, or was left half-way and is excepted. `PortInv` does the same for the ports and
under fewer exceptions: it needs that a service that is watched is on the port that is
remembered (`Watched`), for `Adopt` takes that port in place of the one it had.

*Inspect.* `WayBack` breaks when a task acts on what it read before. As long as no task began
between two calls of another (`Lone`), what it read still holds, and `WayBackInv` says what
that is at each place (`Knows`): the row it carries is the row that is there, a row is
forgotten only where the route was seen to be no tap's, and what is recorded as the original
was read from the route. Three lemmas carry it over a step (a busy task moves, a task
begins, tasks end or stay), and each action has one for what it changes itself.
The other three compare what is remembered with what the user did, so they need more.
`OwnInv` says that no task of the app's works beside a person's (`Turns`), and that wherever
something is remembered of a route at its tap, in the row or in a task (`Kept`), it is what
the user has (`Truths`). For that a plan that is not outdated must start from the route as it
is (`Planned`), and the row a task points the route with must be the only one with its
address (`Distinct`): a port is fresh when a tap gets it (`Unused`), and the addresses of a
process are its own (`Addressed`, `Roles`). What a tap that shows the page needs is
`Straight`: the app's tap is where the route points, or a task is about to see to it
(`Mends`).

*Inbox.* The note of a delivery goes to whatever row has the number of a copy read earlier.
`KeptInv` therefore follows the rows wherever they are known, in the table and in the
rounds: a number names one webhook (`OneWebhook`), is never given again (`SeqsUsed`), and a
round is about to note only what the service has (`MarkTaken`). `OnceInv`, as long as nothing
overlapped or failed, has each webhook in one place. `OrderInv` has, of the webhooks a later
one must not overtake, each done, or below it in the table (`RowsInOrder`) and before it in
every round (`RoundsInOrder`), and no straight way open (`StraightAfter`).

*Drift.* `Told` compares two things a check reads at different times. `AgreeInv` says that the
database's rules are Teitunnel's last word whenever no write waits for its record and no
exception has been made. `HistoryInv` says that versions date configurations: what the
database has, and what a call has seen or written, is not later than what Cloudflare has now,
and is the same if its version is (`Dated`, `CallInv`). So a version that is not higher means
that nothing was edited, which is what the code's comparison of versions rests on. Whoever writes the baseline without having seen the last one is excepted, and whoever
has seen it writes what `AgreeInv` asks for.

## 11. What is only model-checked

Liveness (`StopEnds`, `ComesBack`, `NudgeActs`, `ApplyEnds`, `StartingEnds`,
`SweptInTheEnd`, `PauseTakes`, `ResumeServes`, `Settled`), for the prover does not reach it.
Every invariant and every action property that a run expects to hold is a theorem, under the
hypotheses that section 10 gives; so is the refinement.

## 12. Findings

Each is a run that ends in a violation, of what the repository itself says.

- **engine_opened**, `NeverOpenAtAll`. The last call of a removal deletes the login. When
  its answer is lost the login may be gone; the rollback brings rule and record back
  without it (`engine/executor.rs:1440`, `engine/planner.rs:10-11`).
- **inspect_cancelled**, `PausedIsHiddenAtAll`. `plan_on` starts the tap before the review
  (`inspect/routes.rs:274`, `:298`), and a review cancelled in the app leaves it. A pause then
  finds a tap for the route and pauses it (`pause.rs:554`), and reports success, while the
  route still points at the service.

## 13. Known divergences

Met while modelling, without a run of their own. Where a constant of an existing
configuration shows it, that is said.

- *Two processes.* The lock is per process (`engine/executor.rs:560`; the CLI builds its
  own engine, `apps/cli/src/context.rs:139-142`), while `docs/ARCHITECTURE.md` 4.4 has one
  plan per account at a time. `EngineShared` with a process per
  task violates `Undisturbed`. It also violates `ForeignKept`, with one fault and a record to another
  tunnel that has a comment of its own: a rename takes the record over as its user agreed, another process plans the removal of
  the new route, the rename fails and gives the record back, and the removal deletes it unasked
  (`DropRecord` goes by the number, as the call does by the record's id, `engine/executor.rs:1658`).
- *GET, then PUT.* The PUT carries no version, so an edit between the two calls of
  `put_ingress` is overwritten (`engine/executor.rs:2387`), and the undo of a
  configuration does not compare one at all (`:2413`).
  `set_applied` then records the result as Teitunnel's own.
- *A connector that was off.* `StopConnector` keeps an undo that starts it
  (`engine/executor.rs:1729`): a tunnel's removal that fails afterwards turns it on.
  `LeftoversAccount` lets this through by name.
- *A configuration over an empty one* gets no undo (`engine/executor.rs:1589`). That is right
  when this plan made the tunnel, since the tunnel goes; on a tunnel that existed without a
  configuration the rule stays, and the outcome says that everything done before the
  failure was undone (`:197`). `LeftoversAccount` lets this through by name.
- *A record given back in place.* A takeover writes Teitunnel's comment on the record
  (`engine/executor.rs:1631`). Its undo sends the record as it was (`:2426-2429`,
  `crates/cf-api/src/dns.rs:162`), but a PATCH whose body leaves `comment` out when there was
  none (`dns.rs:63`): Teitunnel's comment stays, and `is_owned` (`engine/observe.rs:737`) takes
  the user's record for Teitunnel's. The outcome says that everything done before the failure
  was undone (`engine/executor.rs:197`), and the next change takes the record over, or with its
  route deletes it, without asking, against "never overwritten silently"
  (`docs/ARCHITECTURE.md` 4.3). The fake account of the tests replaces the comment
  (`engine/fake.rs:700`), so they do not see it. `LeftoversAccount` lets the mark through by
  name (the item "mark" of `Unlisted`), and so does `Implements`; without it `EngineAlone`
  violates `LeftoversAccount`. `ForeignKept` is about what `is_owned` says: a rename that was
  agreed to and fails, and then the same rename without a confirmation, writes over the
  record in accord with it.
- *A failed undo does not stop the rollback* (`engine/executor.rs:2755-2775`): the login may
  be undone while the rule it protects could not be. It is listed as a leftover;
  `NeverOpen` leaves such rollbacks out.
- *A dropped apply.* The control connection's timeout drops the future of an apply
  (`crates/control/src/server.rs:383-398`): nothing is rolled back or listed. `NeverOpen` and `ApplyEnds` hold all the same.
- *A start that overlaps a stop* of the same id runs two processes for a while
  (`runtime/supervisor.rs:239`), and the end of the old actor removes the pidfile of the new
  process, for `registry.remove` goes by connector id (`runtime/connector.rs:195`): after a
  force-quit the next launch does not find it, against "for every process the supervisor
  starts" (`runtime/registry.rs:25`). `ConnectorSerial` with two callers and three actors
  violates `OneProcess` and `WatchedIsRecorded`.
- *Two rules for one route.* Changing a route's path to that of another route of the same
  hostname is not refused (`engine/planner.rs:859`), against "A route with this hostname and
  path already exists." (`:38`). The plan writes two rules, of which the first answers;
  `RulesOf` is a set per route so that the model has them too.
- *A stop that overlaps a restart* of one share removes the share and finds nothing to stop;
  the restart then starts a cloudflared of a share that is no longer listed and that `stop`
  does not find (`quick_share.rs:771`, against "forgets it", `:883`). `QuickShareOverlap` with
  `NothingForgotten` shows it.
- *CrashLoop.* `runtime/state.rs:46` says "not restarted automatically" and
  `connector.rs:73` that `run` ends there; the code retries after `crash_loop_retry`, as
  `policy.rs:28-30` says. The model follows the code (`ComesBack`).
- *Re-planning.* `docs/ARCHITECTURE.md` 4.4 has the executor re-plan and ask again only if the
  plan differs; the code refuses as soon as the fingerprint does (`GiveUp`).
- *A share that crashed shows an address that is gone.* A new cloudflared has a new address
  (`runtime/policy.rs:53`), but the poller ended when the share went live, and
  `apply_state` calls it live again with the old one, against "The URL works."
  (`quick_share.rs:94`). `QuickShareOverlap` with `Overlap = FALSE` violates `LiveWorks`.
- *A poller of an earlier generation* that has already asked writes the old address over the
  restarted share (`quick_share.rs:949`, `:961`), for a while: the new poller overwrites it. The
  comment at `:219-221` says it stops touching the share.
- *Two restarts of one share.* The second `supervisor.start` is refused and its error path
  marks the share as failed, while the tunnel of the first runs (`quick_share.rs:771`).
  The poller corrects it only if the later generation is the one that runs.
- *After a crash loop* a share stays "failed", which "won't recover by itself"
  (`quick_share.rs:97`), also when the connector's retry has brought it back.

Of `Machine`:

- *Two calls that overlap* (`machine.rs:548` takes no lock) stop each other's connector:
  `MachineSerial` with two callers violates `NoGap`.
- *start() after stop()* of an always-on tunnel starts a session: stop forgets the service,
  and start asks only whether there is one (`machine.rs:851`). `NotTwice` and `StopStops` make an
  exception of it ("restored").
- *An update of a session whose start fails* leaves nothing serving (`machine.rs:688-689`),
  against "Whatever was serving before keeps serving" (`:653`).
- *An update whose new service fails* leaves the session it used as a bridge and, it may be,
  the entry of a service that is gone (`:703-710`).
- *No free port* leaves the token file of a service that was not installed (`:479-483`).
- *The claim of a running service's port* does nothing, for the port is bound (`:446`): it is
  not handed out while the service runs, and may be while it is down.
- *A crash between the installation and the row* leaves a service the database does not
  know; and `teitunnel always-on on` next to an app that runs a session runs the tunnel twice.

Of `Inspect`:

- *A lost answer.* `apply_on` forgets the row after anything but `Applied`
  (`inspect/routes.rs:358-359`), also when the route does point at the tap: the sweep will not
  find it, and a later inspection or pause takes the tap's address for the original.
- *A second inspection* that was reviewed before, when the sweep of a dead process's row
  fails and stops the tap: nothing then says "already being inspected"
  (`inspect/routes.rs:250-257`), the row is overwritten with the tap's address as the original
  (`:348`), the stale review is refused and the row forgotten (`:359`): the user's service is
  remembered nowhere. `WayBack` and `OriginalKept` leave this out ("stacked"), and `WayBack`
  the lost answer ("lost").
- *The app's two loops.* The sweep forgets a row by its route, not by what it read
  (`inspect/routes.rs:389-392`). When it has seen the route changed, the loop of pauses may
  forget that row too and write one for a new pause before the sweep gets to forgetting: the
  route then points at the new tap without a row. Four requests reach it; `WayBack` leaves
  out tasks that begin while another is between two calls ("raced").
- *A pause that fails to be lifted* need not be tried again, although "tried again next time"
  (`pause.rs:596-597`): the enforcer's note is gone after the first attempt.
- *Save after find.* `pause_here` writes back a row it read before (`pause.rs:440`), so a
  resume in between is undone.
- *The sweep of the app's own rows* is made once, at launch; if it fails the route waits for
  the next launch.
- *Overlap.* With `Overlap = TRUE` an inspection and a sweep or a pause can take each other's
  row or tap, and a route can be left pointing at a tap that is gone, without a row.

Of `Drift`, each reached by TLC when `Told` does not make its exception:

- *A check during an apply.* Between the PUT and `set_applied` (`engine/executor.rs:2391`,
  `:2396`) the version is already higher and the rules are still the old ones, and a check takes
  no lock: it shows Teitunnel's own change as "changed outside Teitunnel" (`engine/drift.rs:1`).
- *A check that overlaps a write* adopts what it read before it (`engine/executor.rs:907-911`), and
  moves the baseline back: the next check shows Teitunnel's own change as an outside edit, and
  "Restore mine" takes it back.
- *Keep* checks again when it is clicked and adopts what is there then
  (`apps/desktop/src-tauri/src/ipc/routes.rs:171`), which need not be what was shown.
- *An edit under a lost record.* An error of the database after a PUT is only logged
  (`engine/executor.rs:2396-2400`), and an answer that is lost ends the step before it
  (`:2391-2395`): Teitunnel's own change is then shown as an outside edit.

Of `Inbox`:

- *More than the inbox holds.* Requests beside each other have counted the same
  (`engine/inbox-worker.js:176`, `:192`), so the table exceeds `maxItems`.
- *A full inbox* refuses before it deletes what is past its retention (`:192-200`): webhooks
  that nobody will deliver go on refusing new ones, and in an inbox nobody writes to they
  stay.
- *A webhook that is always answered with 5xx* keeps those behind it waiting until it is past
  its retention and a new webhook is stored. That is the order the code promises (`inbox.rs`), and why `Settled`
  assumes a service that takes it some time.
- *What waits.* `report.waiting` counts the batch, not the table (`inbox.rs:288`).
- *Overlapping rounds* deliver a webhook twice; `TwiceForAReason` says that nothing else does
  but a failure.

## 14. Not modelled

Every component with its status and reason is in `PROJECT.json`. In short: discovery,
analytics, exports and the views are read-only; the store, the keychain, installation,
certificates and the user interface are input and output; the other Cloudflare objects
are more kinds of steps in the same pipeline; the monitors are pure functions of time
with property tests of their own. Several tunnels in `Drift`, temporary domain shares, the lease and the
schedule of pauses could be modelled in the same way as what is here; section 2 has their
order.
