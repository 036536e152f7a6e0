# Droidspaces: a TLA+ verification project

Droidspaces runs Linux containers on Android and Linux from one C program
(`src/src/`). There is no central server that owns a container: every `start`,
`stop` and `restart` is a process of its own, every `start` leaves a *monitor*
process behind, and all of them coordinate through small files (a pidfile, a
lock, a mount record), through `/proc`, and through pipes and signals. This
project models that coordination in TLA+, checks it with TLC and proves the
parts that hold for every configuration with TLAPS.

## 1. Inventory

| Part | Source | State it keeps | Operations | What is hard |
|---|---|---|---|---|
| External command lock | `container.c` 14-165 | `<name>.lock` holding "pid boot-id" | acquire, release, is-active | several processes, no atomic create; crashes; host reboot and pid reuse |
| Life cycle commands | `container.c` 194-299, 326-1005, 1948-1981, `main.c` | pidfile, `.mount` sidecar, image mount, configuration UUID | start, stop, restart, cleanup | every step races the monitor and other commands; every step can fail |
| Monitor | `monitor.c` | boot cycle, current init | fork intermediate and init, report pid, wait, reboot or yield or clean up | looks at the lock at an arbitrary time after the container's death |
| Boot | `boot.c` | run marker of the container | boot guard, mounts, marker, exec | guard and marker are far apart in time |
| Discovery | `pid.c` | none (reads pidfile and `/proc`) | is-running, UUID scan, prune, metadata sync | self-healing writes by readers |
| Mounts, overlay | `mount.c` | loop mounts, overlay directories | mount, reuse, detach, unmount | "stale" mounts that are not |
| Command daemon, client | `daemon.c` | one process per session | accept, authorise, session, relay | event order, signals, descendants holding pipes, backpressure |
| Socket bridge | `socketd_bridge.c`, `utils.c` 1813-1965 | event file | framed requests, lists, references, life-cycle requests, polls | one process serves all; containers change while it looks; unsynchronised compaction of the event file |
| Network | `net/network.c`, `net/netlink.c` | veths, shared rules, gateway segments, IP allocation, route monitor thread | set-up hand-shake, wiring, teardown | monitor/init hand-shake, thread start and stop, containers that share rules, bridges and the address space |
| DHCP | `net/dhcp.c` | one lease, one thread | start, stop, DISCOVER/REQUEST | context shared with a thread being restarted |
| Firewall | `net/iptables.c` | kernel rules | add, remove | rules shared by containers |
| Cgroups | `cgroup.c` | cgroup directories | create, remove | kernel state |
| Configuration | `config.c`, `main.c` | `container.config`, the snapshot in the container, the copies in processes | load, overlay, save, reset, flags | four copies, no lock, a second writer (the application) |
| Wayland server | `Android/.../jni` | window, input ring, surfaces, buffers, texture | attach, detach, rebind, input, protocol requests | two threads, one of which may tear the other down |
| Helpers for X11, VirGL, Wayland, sound | `android/*.c` | pidfiles of helper daemons | start, stop | shared by containers |
| Environment, hardware, seccomp, virtualisation, console, terminal, status, checks | rest of `src/src` | – | one-shot set-up, reports, byte relay | – |
| Android app, boot scripts, vendored libffi and wayland | `Android/`, `init/`, `scripts/` | – | drive the commands above; the app rewrites `container.config` | separate programs |

How the parts interact. A command takes the lock, looks for the container
(`pid.c`), signals its init and waits for it to disappear. The monitor sees the
same death through its intermediate process and then reads the lock: if a
command holds it, the monitor leaves the cleanup (and refuses a reboot);
otherwise it cleans up, or boots the container again. `start` forks a monitor,
learns the init's pid through a pipe, writes the pidfile and the `.mount`
sidecar, and polls for the marker the init leaves at the end of its boot.
`restart` keeps the mount and the lock and hands both to the `start` it calls.
The daemon runs these same commands as children of session handlers and relays
their output and exit code.

What makes each part correct: the lock excludes and is never stranded; a name
has at most one container; a running container can be found and its mount is
recorded; nothing is left behind when it is gone; a stop stops, and cleans up
alone; nobody unmounts a running container; every command returns; a session
relays all output and the right status, ends, and never loses input; init and
monitor never wait for each other for ever, and threads and descriptors have one
owner; containers that share rules or a bridge do not take them from each other;
what the bridge answers is true; a container boots what it was asked for, and
the file says so; the Wayland server draws only on the window it holds.
`PROJECT.json` lists the hazards behind these, line by line.

## 2. Modules

`ExternalLock` – the lock file, one action per system call of
`acquire_external_lock` (`Acquire*`), `release_external_lock` (`Release*`) and
`is_external_lock_active` (`Check*` actions of that module); commands are
killed (`Die`), the host reboots (`HostReboot`) and hands every pid out again. A pid is a
member of `Cli`; a stamp is a pid and a boot number, which is what the code
writes and compares. `LockHistory` (EXTENDS `ExternalLock`) adds a history variable:
`raced`, whether a command of this boot wrote its stamp while another command or a
monitor was between its look at the file and what it does about it.

`Lifecycle` (EXTENDS `ExternalLock`) – one container name. `pc[c]` is where a
command is in `start_rootfs`/`stop_rootfs`/`restart_rootfs`, `mpc[m]` where a
monitor is in `ds_monitor_run`, `init[i]` the state of an init. A step is what a
process does between two looks at shared state; the lock routines are entered
and left through the actions of `ExternalLock`, so the composed system takes
the same small steps on the lock. `cleanup_container_resources` is three steps
(prune, unmount, unlink) because the monitor and a command may run it at the
same time. Every failure the code handles is a disjunct: missing init binary,
failed mount, failed fork, failed boot, end of file on the sync pipe, time-outs
of the polls; so is the write of the `.mount` sidecar, whose failure the code ignores
(`unsaved` remembers it).

`MCLifecycle` – the symmetry set for TLC.

`DaemonSession` – one connection of the daemon: `ds_daemon_run`'s accept,
`handle_conn`, `handle_session` in PTY and pipe mode, the child, a descendant
holding its descriptors, and the client. `epoll_wait` delivers a batch of ready
descriptors which are served in any order; SIGCHLD is lost before the mask. `nohup`
says that the daemon runs in the background: it ignores SIGHUP and the child inherits
that. A client may leave before it was told (`ClientLeaves`), die, or die in the
middle of a frame the handler does not know (`torn`).

`PtySession` – the bytes of a PTY session: client, socket, `pty_wbuf` with its
water marks, terminal, child. Bytes are counted. `send_frame` blocks.

`HostNet` – the host rules that NAT containers on Android share. `pc[c]` is where the
set-up (`setup_veth_host_side`) or the cleanup (`ds_net_cleanup`) of a container is,
`rt[c]` where its monitor's route thread is in `do_uplink_reprobe`, `gw[c]` the thread's
`g_current_gw_table`. The kernel's tables are sets: the `ds-v*` interfaces, the tables
of the FROM rules, and whether the uplink-independent policy rules and the netfilter
rules are there. A step is one group of system calls on one table; a change of the
uplink is two, the old rule deleted and the new one added or refused. Set-up and cleanup
may get no netlink socket. netd flushes everything (`NetdFlush`) and moves the uplink
(`Handoff`) at any time. A stop command that cleans up leaves the monitor `yielding`:
its thread runs until the monitor exits.

`MonitorNet` – the network hand-shake of one NAT container and the threads of its
monitor over several boot cycles: pipes made and closed in `ds_monitor_run`, the
intermediate, init's READY and its wait for DONE in `boot.c`, the DHCP server
thread and the route monitor thread with their start, stop and join. The
monitor's descriptor table is state: `num` holds the numbers the code remembers,
`fd` what each number stands for, and `harmed` what was closed by somebody else.

`Gateway` – one segment of gateway mode: the gateway container, its clients, and
the kernel's bridge, cable and veths. A namespace is a boot number, so that "the
peer died with the old namespace" can be said. `mode` chooses at the start
whether containers change one at a time ("calm"), overlap while wirings fail and
cleanups get no netlink socket ("faults"), or, besides, the segment lock cannot be
opened and failing calls pass with at most a warning ("lapses"). Namespaces may
outlive their container in each. `gaveup` remembers who cleaned up without a socket.

`EventHistory` – what the event file promises its readers. `EventLog` – how
`ds_socketd_record_core_event` and the compaction keep it, one action per system
call, any number of writers; `HistorySpec` is the refinement. `Bridge` (EXTENDS
`EventLog`) – the bridge process: accept, header, payload, the requests and the
answer; containers come and go and other processes record events meanwhile.
`MCBridge` – names and UUIDs that are prefixes of each other.

`Wayland` – UI thread and event loop of the application's server: window
references, the EGL surface and texture, creation, destruction and rebinding of
the server, the input ring, the foci of pointer and keyboard, xdg surfaces, which a
client may make twice for one surface, and buffers. A surface that dies before its
xdg_surface is `Torn`; a buffer that is current when its surface is destroyed by a
client that stays is `stranded`. `MCWayland` – which buffer belongs to which client.

`ConfigStore` – the four places a configuration lives in: file, command, monitor,
snapshot. Load and overlay, `--reset` and the other flags, the choice of a NAT address,
the save with its comparison and rename, boot, inner reboot, stop, restart, recovery,
and the application's `cp`. A file is a record of one key of each kind; a full disk
(`NoRoom`) leaves the first keys in the order they are written. `MCConfigStore` – files
and flags that differ in those keys.

`LifecycleProofs` (lock and life cycle), `DaemonSessionProofs` (sessions, and the queue
of `PtySession`, which is why both have names of their own), `HostNetProofs`,
`MonitorNetProofs`, `GatewayProofs`, `BridgeProofs` (bridge and event file),
`WaylandProofs`, `ConfigStoreProofs` – the theorems and the inductive invariants
they rest on.

Operators named `X_Something` are deliberate variants of the operator `X` with one
plausible mistake; `PROJECT.json` names the property each one breaks. Some properties
are conjunctions of named parts; the comment on each part says what it is about.

Composition. `Lifecycle` moves the lock by `ExternalLock`'s own actions and so
implements it (a lemma of `LifecycleProofs`), `Bridge` contains `EventLog`, which
implements `EventHistory`. The other modules meet at interfaces: `HostNet` and `Gateway`
take `MonitorNet`'s hand-shake for one step, `ConfigStore` takes `Lifecycle` for granted
(two starts of one name do not meet in it).

## 3. Runs

| Run | States | Shows |
|---|---|---|
| `lock_race` | 0.3 M | two commands and a monitor, every overlap of their system calls, kills and one host reboot: exclusion until a write falls between another's look and act, no stranded lock, and (fairness) a command without live competitors gets the lock |
| `life_image` | 2.5 M | image on Android, three commands in every order with every failure, spontaneous reboots and power-offs: one container, always tracked (`LifecycleInv`), `NothingLeft` (but a mount whose sidecar was not written), a stop stops and cleans up alone (`StopWorks`), a start that passed its check is alone (`NameUnique`), `MountKept` |
| `life_stale` | – | expected violation: with commands that are killed, `NameUnique` fails (section 6) |
| `life_ends` | 83 k | directory rootfs on Linux, kills and a host reboot, no timing assumption: every command returns |
| `session` | 72 k | status and output are relayed to a client that stays (`RelayInv`), no orphan but after a torn frame, the session ends |
| `pty_input` | 0.4 M | a paste longer than the buffer arrives, nothing lost unless realloc failed |
| `net_rules` | 0.5 M | two NAT containers, one pinned, with netd flushes, handoffs, missing sockets and refused rules: `SharedKept`, `NoLeftover`, and (fairness) `Reconnected` |
| `hand_shake` | 0.2 M | three boot cycles with every failure and death: descriptors have one owner, threads are joined before their context is reused, init boots only when wired, nobody waits for ever |
| `gateway` | 0.2 M | gateway and two clients, two boots each: connected when calm; overlapping and failing, the bridge is never reaped under a client, nothing is left but what a cleanup without a socket leaves; everybody settles, with lapses too |
| `bridge` | 0.3 M | lists, references, answers and polls are right, the event file implements its history, no client holds the bridge |
| `wayland` | 1.2 M | window and texture (`WindowSafe`), ring, foci and size (`InputSafe`), `BuffersHeld`, and the UI thread always returns |
| `config` | 1.9 M | forwards disjoint and stops work on what was booted (`ConfigInv`) whatever a full disk leaves, `BootsWhatIsAsked`, `AddressUnique`, `AppKept` |

Bounds and why they suffice. `Cli` has two or three members: three commands cover "a
command, what it left behind, and the one that meets it"; the lock needs a holder, a
contender and a monitor that takes the file for stale. Two monitors are the old and the
new one around a restart. `MaxInit = 2..4` inits and `MaxUuid = 2` allow a container,
its reboot and its successor with a regenerated UUID. `MaxBoot = 1` host reboot suffices
to make every pid stale once. `MaxOut = 2` distinguishes output before and after a
drain. In `pty_input` the sizes keep the order of the real ones (`DS_IOBUF` < low <
high, one frame of room above high) and the paste is twice the buffer, so the client is
suspended and resumed several times; the theorem covers the real sizes. Two containers
in `net_rules` are the one that leaves and the one that stays; two tables make a
handoff; the safety theorems cover any number.

`hand_shake` needs three cycles: one to leave stale numbers, one to close them, one to
see what that did; ten descriptor numbers are more than are ever open. `gateway` needs
two clients (one counts while the other plugs in) and two boots each (a stale cable and
a stale veth); with lapses, where only `EverybodySettles` says anything, one boot
(`MaxLapse`). In `bridge` two containers, one named like the other's UUID prefix, make
every outcome of a look-up; an array of one record that may grow to three makes growth,
the last growth and the refusal happen; `Cap = 2`, `Retain = 1` and four events make two
compactions; the topics split requests that share no state. In `wayland` the ring has
three slots and batches are of two, so that it wraps, fills and is drained in pieces;
one surface of the topic "surface" gets a second xdg_surface, any of the topic "input" a
second toplevel. In `config` two addresses for two containers with the same hash make
collisions and exhaustion, the two forwards overlap on one side only, the budgets (two
commands and, beside one inner reboot, one edit or one failure) let a command be
overtaken at every step.

Two constants of `Lifecycle` name assumptions the code makes but does not
enforce. `Prompt`: processes are scheduled in time for the code's polls (a boot
within five seconds, a monitor's look at the lock before a stop has noticed the
death, a monitor that has read a stale lock unlinks it before a command writes a
new one, ...). `Serial`: users run one command at a time, each after the process of
the one before has exited, and the container does not power off by itself while a
start is at work. `life_image` and the theorems about the life cycle hold under
both and without kills; `life_ends` needs neither; section 6 lists what happens
without them. `life_stale` keeps both and adds kills.

`HostNet` has a `Prompt` of its own: a monitor that yields has exited when the
stop reaches the network. With `Prompt = FALSE` TLC finds rules left behind: the
stop's `ds_net_stop_route_monitor` acts on the stop's own process, and the
monitor's thread puts back what the stop has just removed. `rough` chooses at the
start whether containers may come and go at the same time and netd may restart;
`SharedKept` is about the calm case (the count of interfaces and the removal are
not atomic with another container's set-up), `NoLeftover` and `Reconnected`
hold in both. `Readable` stands for netfilter tables the probe can read; when it
cannot, the code deliberately reinstalls nothing.

Deadlock checking is on in `net_rules`, `bridge` and `wayland` and off in the other
runs, whose systems may stop: all commands have returned, the session is over,
everything typed has arrived, all boots are used up.
"Nobody waits for ever" is stated as liveness (`CommandsEnd`, `SessionEnds`,
`InputArrives`, `HandshakeEnds`, `EverybodySettles`, `EveryRequestEnds`,
`SetSurfaceReturns`).

Fairness. Weak fairness per process only: a runnable process runs. Users, the
container's own reboot or power-off, kills, host reboots, a child's printing and the
exit of a child that nobody signalled are not assumed to happen. In `DaemonSession` a
child dies of a signal that it did not inherit as ignored (`Doomed`); a descendant may
keep its descriptors for ever. Printing and typing are bounded, so no process can starve
another by being served for ever. `HostNet` assumes that the route threads run, whose
heartbeat is a `poll` time-out of 1.5 seconds, and that a rule that is added over and
over is taken in the end (strong fairness of `AddUplink`). `MonitorNet` assumes it of
monitor, intermediate, init's boot and the two threads, `Gateway` of each monitor (the
segment lock is handed over by `flock`; nobody takes it for ever because boots are
bounded), `Bridge` of the bridge, whose receive time-out ends a silent client, and of
writers that have begun, `Wayland` of its two threads. `ConfigStore` has no liveness.

## 4. Proofs

All theorems hold for every value of the constants that satisfies the named
`ASSUME`s of the modules: the sets of commands, monitors, clients and containers,
the sizes and the bounds on boots are arbitrary.

Lock (`LockAssumption`: the stamp of a missing file is no stamp).

* `LockTypeCorrect`: type correctness of the lock protocol.
* `NoStrandedLockHolds`: `NoStrandedLock` is not inductive. The invariant
  `LockInv` adds that no stamp carries a future boot (`NoFutureStamp`) and that
  a command outside the lock routines owns no stamp of the present boot
  (`OutsideOwnsNothing`); a reboot makes all old stamps harmless, a release
  unlinks before it leaves.
* `ExcludesUntilRaced`: acquisitions overlap as they like; two live commands hold the
  lock only if, in this boot, a stamp was written while somebody else was between its
  look and its unlink or write. `RaceInv` says that until then the file names the
  holder, and that whoever decides has seen what the file still holds.

Life cycle (`LifecycleAssumption`).

* `LifecycleNoStrandedLock`: every step of start, stop, restart and monitor is a step
  of the lock's specification or leaves the lock alone (lemma
  `LifecycleImplementsLock`), so what is proved of the lock holds in the running system,
  without assumptions about scheduling, users or kills.
* `LifeInvariant`: under `Serial`, `Prompt` and without kills, `LifeInv` is an
  invariant, for any number of commands, monitors, inits and host reboots. Its parts
  follow the argument the code relies on. At most one command is at work (`OneCommand`)
  and it is in the lock routines exactly where its code called them (`Place`). The file
  is the holder's and no monitor is about to unlink it (`LockKept`); one that nobody
  holds was left behind when nothing ran (`LockLeft`). At most one monitor is at work
  (`OneMonitor`), and a living init is the one its monitor waits for (`Parents`). While
  a stop waits, the only monitor is that of its target and will find the lock active
  (`StopHolds`); therefore a stop that goes on, and a start that prepares a container,
  know that nothing runs (`NothingRuns`). A start that has not looked yet meets a
  container at rest (`StartCalm`), which does not reboot meanwhile (`NoReboot`); it
  waits for the first boot of its own monitor (`FirstBoot`) and cleans up only after a
  boot that is over (`StartOver`). Whatever may run carries the UUID of the
  configuration (`UuidsAgree`), so the look-ups miss nothing, and has its image mounted,
  and recorded in the sidecar or, if that could not be written, known to its monitor
  (`MountsHeld`). The proof takes one lemma for each part.
* From it: `OneTrackedContainer` (`LifecycleInv`), `StopLeavesNothing`
  (`StopWorks`), `StartsAlone` (`NameUnique`), and the action property `MountStays`
  (`MountKept`). That the assumption on kills is needed is what `life_stale` shows.
* `EndsInvariant`: under the same assumptions `EndsInv`, inductive next to `LifeInv`,
  says that pidfile, sidecar (`FilesKept`) and mount (`MountsKept`) have a keeper as
  long as nothing has failed: a monitor at work or a command that has not returned.
  A stop has cleaned up by the time it is done. A start leaves the duty to its
  monitor, and may, because its init cannot have failed before the start recorded
  it (`Recording`), and because a monitor whose init ends while the start gives the
  lock back is the one that start booted (`GivesBack`). A monitor that yields leaves
  it to the command whose lock it saw (`SeenLock`). Whoever unmounts knows where the
  image is mounted (`MountKnown`). Pids are handed out in order (`InOrder`), so the
  init of the monitor at work is newer than whatever a finished command dealt with
  (`Newest`): after its end nobody but a later command can have taken the duty over.
  `Lost` names the one way to lose it (section 6).
* From it: `EndsClean` (`NothingLeft`): when every command succeeded, nothing runs, the
  host was not rebooted and each monitor that yielded was taken over (its container
  was stopped, or a command dealt with a later one, as a restart does), nothing is left;
  a mount may be, if its sidecar could not be written.

Command daemon (`SessionAssumption`, `PtyAssumption`).

* `SessionInvariant`, `RelayCorrect`, `NoOrphansLeft`: `SessionInv` relates where the
  handler is to what the child has become. What was printed is in a pipe or was sent
  (`OutputCounted`), the child is killed only by a handler that then waits for it
  (`ChildKnown`), a code is the status of a child that was waited for (`CodeTrue`),
  a descriptor is closed when it is empty and nobody can write (`ClosedIsEmpty`), and
  the loop ends when all output was sent (`DoneMeans`, `VerdictTrue`). A client that
  leaves early and a torn frame are the exceptions the properties name.
* `QueueCorrect`, `InputNeverLost`: for all buffer sizes with `High + Frame <= WbufMax +
  1` and `Low <= High`, `pty_wbuf` stays in bounds, never wedges, loses input only when
  realloc failed, and accounts for every byte. The strengthening is `BelowHigh`: while
  the client is read the queue is below the high mark, so that one more frame always
  fits.

Network (`HostNetAssumption`, `MonitorNetAssumption`, `GatewayAssumption`).

* `NetTypeCorrect`; `NothingLeftOver` (under `Prompt`): the strengthening is that a
  container's interface and thread end before its cleanup counts interfaces
  (`EndsInOrder`) and that whenever rules are installed somebody who will remove
  them, or who still needs them, is there (`RulesAnswered`); a cleanup that keeps
  the rules has seen an interface, and its owner answers for them.
* `SharedRulesKept`: `TakesTurns` adds that set-ups and cleanups exclude each other
  in the calm case and that rules are removed only when nobody is attached.
* `MonitorInvariant`, `DescriptorsOwned`, `ThreadsJoined`, `WiredFirst`: three layers.
  Control (`HandShake`, `Threads`): in which phase of the monitor the intermediate,
  init and the threads can be where. Table (`Owned`, `Closed`, `Compact`): an open
  descriptor is at the number its owner remembers, and because `open` returns the
  lowest free number an eventfd without a thread is at a number that the next
  cycle closes. `UnharmedHeld`: until somebody was harmed, the owner's number holds
  the owner's descriptor. The number of boot cycles is arbitrary; the table has the
  ten numbers of the model, which are more than are ever open.
* `SegmentInvariant`, `SegmentExact`: the segment lock is held exactly in the critical
  sections (`LockHeld`), a container has the namespace of its last boot
  (`Namespaces`), whoever plugs has a bridge (`BridgeThere`), and what is on the
  host has somebody who will take it away, or whose cleanup got no socket (`Owned`).
  Runs with lapses are outside it. `RunningClientsConnected` adds
  `CalmInv`: one container changes at a time, and a router that wires has connected
  every running client that its scan has passed.

Bridge and event file (`LimitsAssumption`, `BridgeAssumption`), for any finite set of
containers, any UUIDs of one length, any number of writers and any sizes.

* `FileImplementsHistory` (the refinement `HistorySpec`): `LogInvariant` says that the
  file and what a compaction keeps of it are events that happened (`Happened`), that
  times follow the clock (`Clock`), and that writers who take turns are alone when they
  compact and keep exactly the newest `Retain` records (`InTurns`). Between its truncate
  and its write the file is in the hands of that writer; so an append is one event, a
  truncate is the compaction, and every other step stutters. Without turns any step
  is a `Disorder`. `Watched`: as long as the file is too long some writer that will
  see it is under way; this gives `SizeBounded`.
* `BridgeInvariant`: a handler is entered only for its opcodes (`Control`) and grows its
  array within the payload (`Arrays`); a pidfile of a container that stays as it is tells
  the truth (`Pidfiles`). A scan relates what it has passed to what it has yet to meet:
  `Counted` for the count, `Passed` for the two passes of a list (every steady container
  is met, and nobody twice, because the second pass takes what the first left),
  `Scanned` for a reference (of those passed only the one remembered matches).
  `Polled` and `Known`: up to its position a poll has all that it was asked for, and an
  event that the client does not have is not older than the newest it has.
* From it: `ListsExact` (`ListExact`), and the action properties `AnswersTrue`
  (`AnswerTrue`) and `PollsMissNothing` (`NothingMissed`).

Wayland server (`WaylandAssumption`), for any ring, batch, windows, surfaces and buffers.

* `WaylandInvariant`: `WaylandInv` has four parts. `WindowInv` counts references: a
  window has one for each holder (the presenter, the call in progress, and one that a
  failed creation forgot), so what is used is held. `RingInv` says without remainders
  that the slots between tail and head hold the events that were sent and not yet taken,
  in order. `SurfaceInv` ties surfaces to their clients' buffers, the stranded ones
  included, and both foci to surfaces that live or died out of order. `SizeInv` follows
  the resizes on their way, in the batch and in the ring: the last of them is the size
  that was asked for last, and when none is on its way the server has that size, unless
  one was dropped or skipped.
* From it: `WindowShared` (`WindowSafe`), `InputInOrder` (`InputSafe`), `BuffersReleased`
  (`BuffersHeld`).

Configuration (`ConfigAssumption`, `PortAssumption`: a range is written with its ends
in order, which the parsers of the file and of `--port` insist on), for any number of
containers, commands and addresses, whatever files and flags, and lists of forwards
of any length.

* `StoreInvariant`: a command that starts has its container to itself, and down
  (`Control`); a command that was not overtaken has the unknown lines of the file
  (`Lines`); the file says the mode and the address of what is booted (`Written`); an
  address that was looked up and saved is held once, and a command that is still
  looking has passed nobody who holds the address it tries (`Apart`). The step that
  matters is the save: whoever looks at that time excuses it (`Looking`), whoever looks
  later finds it in the file.
* From it: `AddressesApart` (`AddressUnique`) and the action property `LinesKept`
  (`AppKept`).
* `RunInvariant`: `RunInv`, inductive next to `StoreInv`, follows a configuration from the
  file to the container. `Sound`: it has its types and its forwards are `Good`, pairwise
  disjoint. `Follows`: a stop, or a recovery, that loaded the snapshot holds what was
  booted as long as the same boot is up; therefore the snapshot is what was booted
  (`Kept`), boots are numbered, and a command never remembers a boot to come (`Runs`).
  A start holds what its file and flags ask for (`AsFresh`), also after a `--reset`,
  which saves in between and must go on from nothing but the identity (`Like`). The
  file `Agrees` with what is booted, from the save on until somebody else touches it.
* From it: `ConfigsRight` (`ConfigInv`) and `BootsRight` (`BootsWhatIsAsked`).
* They rest on what `AddForwards` does to lists of any length: a good list stays good
  (`AddForwardsGood`), adding a list twice is adding it once (`AddAgain`, for the inner
  reboot, which loads a file over what was booted from it), and a good list added to
  nothing is itself (`AddGood`, for reading back what was saved). There is no induction
  principle to cite for that; instead `LeastIndex` derives, from the well-foundedness of
  `<`, that a set of indices at which a statement fails has a least one, `UptoExists` that
  the recursive function exists, and each fact looks at the first step that breaks it.

Each inductive invariant was checked by TLC on small instances before it was
proved. Only model-checked: all liveness and `LoneAcquireSucceeds` (fairness is outside
what the prover handles), and, with commands that are killed, the failure of `NameUnique`
(`life_stale`); without kills `StartsAlone` proves it.

## 5. Not modelled

Bind mounts, devices, seccomp, cgroup and namespace set-up are system calls
whose state is the kernel's; they appear as one step that may fail. Status,
check and documentation commands change nothing. `enter` and `run` attach to a
container without changing its life cycle. Window-size frames, log files and
daemonising are left out of the daemon; the foreground console is a byte relay
of the kind `PtySession` models. The helper daemons (X11, VirGL, PulseAudio,
Wayland proxy) are found by scans of `/proc` and have no state of their own.
Same-boot pid reuse is not modelled; the code excludes it too
(`container.c:36-37`).

* Network: the bridgeless fallback, the rules behind port forwards, DHCP packets,
  in `HostNet` insertions other than an uplink's rule that fail with a warning, and a
  dump of the interfaces that fails and counts none (`netlink.c:796`).
* Bridge: failing `opendir` and `calloc`, torn records, a clock that is set back,
  usage statistics, a pidfile that is removed from outside.
* Configuration: the text syntax, `--conf`, gateway keys, the UUID, the `.env` file.
* Wayland: frame callbacks, damage, modifiers, dmabuf parameters, output modes,
  viewporter, subsurfaces; JNI calls come from one UI thread.
* The Android application but for `updateContainerConfig`.

About half of the implementation's lines are vendored (libffi, libwayland, the
generated protocol headers). Of the program's own C, what is not mapped is in
large part encoding (netlink, netfilter blobs, DHCP options), one-shot set-up of a
booting container, reports and help texts.

## 6. Where the code falls short of what one would like to say

Each of these was met while a property was being stated; the property then names
the exception. Timing and overlap first (`Lifecycle` with `Prompt` or `Serial`
FALSE, `LockHistory` where `raced` holds):

* A container that powers off just before a stop looks for it: the monitor yields
  to the stop (`monitor.c:736-740`), which finds nothing to stop and returns
  (`container.c:837`); pidfile and mount stay.
* A foreground restart whose new container fails to boot while the command gives the
  lock back (`container.c:744`): the monitor still sees the lock and yields
  (`monitor.c:736-740`), the command goes on to its console and, at its end, has nothing
  left to do; pidfile, sidecar and mount stay although every command succeeded (`Lost`
  in `LifecycleProofs`; TLC found it when `NothingLeft` was stated without the
  exception).
* A boot slower than the start's polls is cleaned up under the container that then
  comes up (`container.c:770`).
* A monitor that looks at the lock after the stop has released it honours a reboot
  request and boots the stopped container (`monitor.c:626-627`).
* `life_stale`, the finding: a stop that is killed leaves its lock file and a running
  container. The next start takes the file for the hand-over of a restart
  (`container.c:338`), finds pidfile and mount in place and skips the uniqueness
  check, whose comment says the name "must be unique" (`container.c:368-370`): it
  prepares a second container over the first. The boot guard, which looks for the
  UUID, is the only check left. On larger instances with kills the guard can be
  passed too, and two inits run.
* Two overlapping acquisitions both succeed (`container.c:54-62`), although the comment
  there promises -1 to one of them: each reads the file before the other writes it.
  Without `~raced` TLC shows it in a few steps. Two overlapping starts of one name both
  pass every check (`container.c:369-372`); a monitor that removes a stale lock may
  remove a new one (`container.c:161`), which `Prompt` rules out; a start during an
  inner reboot detaches the mount in use (`mount.c:66`).
* Handler and client of a PTY session block in `send_frame` on each other when the
  child prints more than the socket holds during a paste (`daemon.c:642`, although
  469-472 and 557-558 are there to prevent it).
* A pinned container next to an unpinned one is routed by the other's FROM rule,
  which covers the subnet (`network.c:630`; `Networking-From-Zero.md:274,291`).

What failing calls, signals and clients do:

* `save_mount_path`'s result is ignored (`container.c:735`). A stop of a container whose
  `.mount` was not written does not know the mount; unless the monitor, which does,
  cleans up, the image stays mounted until the next start detaches it.
* A client in raw mode returns 0 when its input ends or a key it sends finds the handler
  gone, even if MSG_EXIT is waiting to be read (`daemon.c:1290-1296`): the status it
  returns is then not the command's.
* A daemon in the background ignores SIGHUP (`daemon.c:796`), and so does every command it
  runs. The SIGHUP by which a PTY session ends a command whose client left
  (`daemon.c:499-504, 623, 643`) does nothing to one that does not reset it, and the
  handler waits in `waitpid` until the command exits by itself.
* A command that exits before SIGCHLD is blocked (`daemon.c:422`) is never signalled; if a
  descendant keeps its descriptors, the session hangs.
* A frame of unknown type or size that breaks off ends the session without signal and
  wait (`daemon.c:579-586`): the command is left behind.
* A cleanup that gets no netlink socket returns at once (`network.c:2287-2289, 2226-2228,
  1396-1401`): shared rules, veth, cable and bridge stay.
* A segment lock that cannot be opened (`network.c:957-961`, callers 1173, 1405, 2242) is
  passed without lock, and a dump that fails counts no members (`netlink.c:853`): a cleanup
  may then reap the bridge under a client (`Gateway` with "lapses").
* On a full disk `ds_config_save` does not see that `fprintf` and `fclose` fail, renames the
  truncated temporary file over the good one and returns 0 (`config.c:857-879`): the later
  keys and all of the application's lines are lost.

In the newer modules:

* `MonitorNet`: the pipe numbers closed in the hand-shake are closed again in the
  next cycle (`monitor.c:233-243`), when the route monitor's socket may have one of
  them; its thread then ends or reads from whatever gets the number.
* `Gateway`: the gateway's pid is looked up before the lock is taken; when a
  client's check and the gateway's scan cross, the client that was told its
  networking is deferred (`network.c:1278`) is wired by nobody; a client whose old
  namespace is kept alive leaves a `ds-c<oldpid>` behind after a reboot.
* `EventLog`, `Bridge`: overlapping writers may hide an event and a poll that meets a
  compaction may skip some; a writer killed between truncate and write loses the
  file (`utils.c:1888`); with equal UUIDs the first directory entry wins; a list of
  more than half a payload fails because the array only doubles
  (`socketd_bridge.c:531-556`), and one fails before it has a record when more containers
  run than fit (1022-1026; met when `FailsOnlyWhenFull` was being proved, which had left
  it out); the prune may remove the pidfile of a container that
  has just started (`pid.c:199-228`).
* `Wayland`: a resize is skipped while a contrary one is under way, or dropped at a
  full ring; a toplevel that has not acknowledged its first configure misses it; when a
  surface dies before its xdg_surface, as on a disconnect, `ds_seat_surface_destroyed` may
  find the dying surface as its own successor (`ds_seat.c:314-333, 409-453`), and a focus
  is left on freed memory; a surface that becomes a cursor keeps the keyboard's focus
  and stays the active one (`ds_seat.c:119-122`); the buffer that is current when its
  surface is destroyed is never released (`ds_compositor.c:340-358`), and a client that
  stays connected is withheld it until it commits it to another surface; a failed
  creation drops a window reference; `ds_presenter_destroy` deletes the texture and
  keeps its size, so the next frame is drawn from nothing
  (`ds_presenter.c:460-493`); a shm buffer committed twice is not released until
  replaced.
* `ConfigStore`: starts that cross choose the same address (`network.c:436`), and the
  check reads files, not what runs; a recovery scan that read the snapshot of one boot
  writes it after the next start has saved (`pid.c:629-632` tests the file and writes it
  without a lock), and a third start then finds an address free that is in use (found by
  TLC with three and more commands when `AddressUnique` was being proved; a file written
  by a recovery now counts as an excuse); `restart --net=host` lays its flags over the
  configuration before the stop, whose cleanup then skips the network; an inner reboot
  overlays the file without a reset and without another look at the address; a command
  that loads the snapshot of a running container and saves writes the application's
  lines as they were at boot; `ds_config_save` compares with a zeroed configuration, so
  that a file without `net_mode` never gets its host mode persisted
  (`config.c:795-830`); a rename orphans what the application is just writing.

## 7. Plan

Done: lock, life cycle with monitor and boot, daemon sessions, shared host rules,
hand-shake and threads, gateway segments, bridge and event file, Wayland server,
configuration store; every safety invariant, action property and refinement that the
passing runs check proved for every value of the constants. Still to do, in this order:

1. The volatile overlay, the bridgeless fallback and port-forward rules in
   `HostNet`; the recovery of the other sidecars in `ds_metadata_sync`.
2. The bridge's life-cycle requests on top of `Lifecycle` instead of an
   environment that starts and stops containers.
