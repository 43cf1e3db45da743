# XmaX in TLA+

TLA+ specifications of the XmaX backend service and of the parts of its Windows frontend
that keep state, TLC configurations that check them on small instances, and TLAPS proofs, for
every instance, that cover every invariant the runs check. Every definition is translated
from the source; `PROJECT.json` names the lines each one stands for, under `map`. Paths
are relative to `src/`, and file names without a directory are in `backend/src/`, or in
`frontend/windows/` and its folders when they end in `.cs`.

## 1. The system

XmaX controls a handheld computer: fan, power limits, charge limit, profiles. One
process, the backend (`main.cpp`), owns the hardware. Its clients are a WinUI frontend
on a named pipe, a GNOME extension on D-Bus, and `xmaxctl` on the socket.

| Component | State it keeps | Operations | Module |
|---|---|---|---|
| Profile and curve store, `profiles.cpp` | profiles and fan curves by id, the builtin ids, `profiles.json` | load, save, save/delete a profile or curve, slug generation | `ProfileStore` |
| Transport, `transport.cpp` | connection flags, read buffer, write queue, metrics subscription | accept, read, dispatch, answer, push metrics, send events, stop | `Transport` |
| Command handlers, `transport.cpp` | share the store and the configuration under `state_mutex_` | 25 commands | `ProfileStore` (the store), `Hardware` (the writes) |
| Fan, TDP, power and adaptive controllers | mode and active curve; last limits; power source, charge limit, callback; active profile, ceiling, PID state; each with a mutex | set mode/curve, tick, write limits, update source, write charge limit, activate, set ceiling | `Hardware`, `AdaptiveControl` |
| Configuration, `config.cpp` | `session_persist`, charge limit, layout; `config.json` | load, validate, save | `Hardware` (the first two fields in memory), `HomeLayout` (the layout) |
| Linux socket, `platform/platform_linux.cpp` | listening and client descriptors | listen, accept, verify, read, write, disconnect, close | `Transport` |
| Lifecycle, `main.cpp` | `quit_`, the objects and their threads | startup in order, callbacks, message loop, shutdown in order | `Lifecycle`; what startup applies, in `Hardware` |
| Frontend monitor, `process.cpp` | child process, `running_`, `monitoring_` | spawn, wait, respawn, stop | `Lifecycle` |
| Windows platform, `platform/platform_win32.cpp` | process handles, the job object, WM_QUIT; a named pipe | create, wait for and terminate the frontend; message loop; pipe I/O | `Lifecycle` (all but the pipe) |
| D-Bus service, `dbus/dbus_service.cpp` | two buses, its loop | dispatch commands, polkit check, emit metrics | as a second dispatcher; its thread in `Lifecycle` |
| Button monitor, `button.cpp` | last reading, `running_`, callback | poll, edge detection, callback | `Lifecycle` |
| Metrics poller, tray monitor | last readings, visibility | poll, callbacks | the poller's temperatures and its fan tick in `AdaptiveControl`; else as callers of `tick` and `send_event` |
| Pipe client, `PipeClient.cs` | connection, pending requests, cancellation | connect, reconnect, send, read, disconnect, dispose | `PipeClient`, promise in `RequestReply` |
| Widget service, `WidgetService.cs` | visible widgets in order, their rows, hidden ones, columns | load, show, hide, reorder, set columns, save | `HomeLayout` |
| Widget grid, `WidgetFramework/` | positions of widgets, drag session | pack, insert, drag, resize, refresh | `GridLayout`, `HomeLayout` |
| Other frontend services, `frontend/windows/Services` | caches of profiles, metrics and UMA state | refresh, forward events | – |

How they interact. The socket's connection thread and the D-Bus thread both call
`TransportService::dispatch`, so **two commands run at once**; they share the store and
the configuration under `state_mutex_` and the controllers under their own mutexes, and
most handlers take several of these in turn rather than one throughout. Events reach the
client through `write_queue_`, filled by any thread and emptied by the writer thread. The
power controller calls back into `main.cpp` with its mutex held, and the callback calls
the transport and the other controllers. The poller drives the fan from its own thread.
`main` starts every thread and joins it at the end; the frontend is a child process that
the monitor thread watches while `main` may be terminating it, and on Windows a member of
the backend's job object, so that the system ends it with the backend. In the frontend
everything runs on the UI thread, and handlers interleave where they await an answer of
the pipe client or queue work for later; the home page's layout goes to the backend with
`set_config` and comes back with `get_config` at the next start.

Which behaviours are hard, and what makes each component correct:

* *Store*: creation takes two critical sections; `profiles.json` is truncated in place
  and write errors are ignored; the service can stop between any two steps. Correct
  means: never two default profiles for one power source, no profile on a deleted curve,
  what was saved comes back, default for default.
* *Transport*: four threads and `stop()` over flags that are atomics or a plain bool, a
  batch taken off the queue before a drain, lines cut anywhere, a condition variable
  notified without its mutex. Correct means: every line answered once, in order, to the
  client that sent it; no subscription or connection outlives its session; `stop()` ends.
  The code falls short of this in two places, which section 6 names.
* *Hardware*: a gate checked and then released, three SMU writes for one request,
  accesses that fail half way, a callback under a lock. Correct means: limits never mixed
  from two requests, no circle of locks, a profile that was answered for is in force,
  nothing written past the gate.
* *Pipe client*: a response after its timeout, a disconnection that sweeps the pending
  commands while others register or write, a reconnection racing `Disconnect()`, two
  writers on one stream. Correct means: every command returns, with the answer if it was
  read in time, nothing stays pending, the loop reconnects until it is told to stop.
* *Adaptive controller*: `active_` is tested before the mutex is taken, writes fail and
  nobody looks, an emergency sets a curve that another thread must carry to the fan, and
  profiles bring clamps whose bounds are the wrong way round. Correct means: limits stay
  in range and rise gently, and an emergency reaches the fan, once the poller has a
  temperature for it.
* *Lifecycle*: a respawn racing a stop, a wakeup that is lost, a startup step that throws
  with threads running, callbacks on objects that are going, results nobody looks at.
  Correct means: at most one frontend, none in the job outlives the backend, one that dies
  is replaced, no thread uses a destroyed object, shutdown ends if every `stop()` does.
* *Home layout*: the page keeps its own list of widgets beside the service's, a preview
  that is not the list, an answer to a save that refreshes the page under a drag, a load
  that fails and is not repeated. Correct means: positions are a sound layout, page and
  service agree, what arrived last at the backend is what the service has, a drop leaves
  what the preview showed, no widget is lost.

`hazards` in `PROJECT.json` lists these at their lines, with the properties that cover
them, or why none does yet.

## 2. The modules

### ProfileStore

State: `profiles` (the `std::map`, total, `NoProfile` for an absent key), `curves` (the
keys of `fan_curves`), `disk` (the file: missing, corrupt, unreadable, or a document),
`running`, `pending` (a dispatcher's slug between the critical section that generates it
and the one that stores under it), and two history variables, `synced` (the last save
wrote everything) and `faults`. One action per handler that changes the store, two for
the creations, four for the branches of `load_profiles`, one for the end of the process.
`save_profiles` is part of every handler's action and either writes the document, fails
to open the file, or leaves it cut short. Names, points, watts and tuning are left out: a
profile is its power source, its default flag and its curve.

### Transport

State: the fields of `TransportService` and of the Linux server object, a program counter
and the locals of each thread, and each client's end of its connection. A client is one
connection; a reconnecting frontend is another client. Shared fields are read and written
without a lock where the code does so, one access per action; `client_connected_`, a
plain bool shared by threads, is taken to behave as if accessed in program order. A line
is two pieces, so a read can end inside it. Accepting a client is two steps, `accept()`
and the store of its descriptor in `client_fd`, and the `close_server` of `stop()` is three
(client, listening socket, handle), so that each can fall between the others; `missed` is a
history variable, the client whose descriptor was stored after `stop()` had looked for one.
The writer's wait is split between testing
the predicate and blocking, with the mutex held, because `stop()` notifies without it.

### Hardware

State: `session_persist`, the charge limit in the configuration, in the register and in
`last_charge_limit_`; the power source the EC reads and the one the controller knows; the
three SMU limits and `last_state_`; fan mode, active curve, EC mode and duty cycle; the
adaptive controller's profile and ceiling; who holds `state_mutex_`, the power and the
TDP mutex. A thread's `todo` is the rest of its program: the critical sections and
register accesses of its command in order. `Begin` starts a command (`SetFanCurve`,
`SetProfile`, ... are the programs), each step is an action, and a step may put others in
front (`FindProfile` puts what `handle_set_profile` does with what it found; `SetPersist`
puts `apply_all_settings`; `UpdatePower` puts main's callback). `main`'s startup is a
program of its own that ends by opening the service and registering the callback. A
register access may fail; `must` tells whether the error ends the command. History
variables: `grace` (which threads' commands saw `session_persist` on), `solo` and
`inforce` (which profile an undisturbed command put in force), `torn` (a write of the
limits failed half way).

Three abstractions to know about. Set_config is the two fields that matter here, one per
command. The profiles are those of the start until `restore_defaults` removes them,
`ProfileStore` having the commands that edit them. `apply_all_settings` and the callback
read the profile map without its lock; the model reads it in one step, before or after a
concurrent `restore_defaults`, and does not model a read of freed memory.

### PipeClient and RequestReply

State: the fields of `PipeClient` (`_pipe`, `_reader` and `_writer` as one), the keys of
`_pending`, the place of the reconnect loop and of the thread that calls `Disconnect()`
and `Dispose()`, the place of each command's task and how its completion source ended
(`result`), and the connection: how it stands and where each command is on it.
Everything between two awaits or two accesses to shared fields is one action. `ClosePipe`
is two, since it disposes of what the fields hold and clears them later; `FailAllPending`
visits one command at a time, and only what was pending when it began for sure.
`ReadThrows` is any line whose handling throws, event handlers included. `StreamWriter`'s
refusal of a second write in progress (`WriterBusy`) and the backend's end of the pipe are
external.

`RequestReply` is what its callers are promised, with no pending table, no tasks and no
loop: a command ends once, with its own reply or a failure, a reply goes to the command it
answers and to no other, a reply that was read over a connection that still holds is what
the command ends with, and a connection begins with no reply left over from the last one.
`PipeClient` implements it under the mapping in its `Promise == INSTANCE RequestReply`,
whose variables are the state functions of the same names: a command's `status` is read
off its place and `result`, what it `returned` is its `result`, a `reply` is taken once it
is off the connection, and `up` is that both ends are open.

### AdaptiveControl

State: `active_`, `config_`, the ceiling, and what `tick` keeps; the parts of the fan and
TDP controllers that a tick sets (mode, active curve, the EC's mode and duty cycle, the
limits); `held`, the temperatures the metrics poller has for its fan tick (the CPU's, once
read, is kept when it cannot be read again, the GPU's is not: `metrics.cpp:203`); `inside`,
a tick that has passed its test of `active_` and not yet taken the mutex; `applying`, what
is left of the application of a fixed profile; history variables `alarm` (the last to set
limits and curve was an emergency) and `jump` (the limits may differ from `current_tdp_`).
`tick` is one of three actions: the sensors have been silent for too long, a critical
temperature, or control. Temperatures are not numbers: in a tick of control the smoothed one
may lie on either side of the target, or on it, and the PID sum is any member of
`FanOutputs`. `Poll` is the poller's turn: it reads, and then ticks the fan controller,
which does nothing without a temperature. Clamps, thresholds, ramps and presets are the
code's numbers; a clamp with its bounds the wrong way round returns either.

Two things to know. No code calls `tick` today (`adaptive.cpp:262`), so the module says
what the controller does for whoever will call it at the interval `adaptive.h:79` gives.
And the calls that one tick, or one fixed profile, makes to the fan controller are one
step: what comes between them is `Hardware`'s subject.

### Lifecycle

`main` is a program, `todo`: the steps of `Startup`, two for the message loop, `Shutdown`
and `Unwind`, the destructors in reverse order. A step that can throw (`Throws`) leaves only
`Unwind`. The poller, adaptive, transport and D-Bus threads are there or not (their insides
are other modules'); the monitor's and the button monitor's have a place, with one access to
a shared field per step. `spawn` and `monitor_loop` create a process, put it into the job,
and store it, three steps, since a stop, an exit or a kill can come between. On Linux the
loop tests `quit_` and blocks in two steps, as the signal handler takes no mutex; on Windows
the handler posts its WM_QUIT to the queue of its own thread, which is a step that changes
nothing. The job may refuse a process (`refused`), since nobody looks at the result of
`AssignProcessToJobObject`; and the `stop()` of the transport or of D-Bus may hang in its
join (`StopHangs`), which leaves `main` there (`hung`). `gone` is how the backend ended, and
ending closes the job. The three processes of the instance bound how often the frontend is
respawned: after that every `CreateProcess` fails.

### GridLayout and HomeLayout

`GridLayout` is the layout engine as operators: `Pack` places each widget at the first free
place in row-major order, `ComputeInsertionIndex` scores where a dragged widget would come
to lie. Coordinates are hundredths of a cell, which is the precision the scores need.

`HomeLayout` puts the home page around it: the grid host (`list`, `contained`, `shown`,
`hostCols`), the drag controller (`drag`), the widget service (`order`, `rows`, `hidden`,
`columns`), the editor window's offer, the queued relayout, the saves on the way, and the
backend's `home_layout` (`stored`). One action per handler on the UI thread; a handler that
awaits its save is split there, with what it does afterwards in `SaveEnds`. `stale` says
that the dragged widget is not the object in the list any more, which is what makes
`Widgets.Remove` miss it and a drop put it in twice; `disturbed` that a relayout has wiped
out the preview. A save may reach the backend or not, its answer may be lost, and the
frontend may end at any moment, with any number of its saves still to be read. A new one
loads what the backend has, or nothing when its `get_config` fails (`NotLoaded`), as it does
before the pipe is connected; `differs` says that a load or a save has failed since service
and backend last agreed. Edit mode is
on throughout, since it only gates the gestures.

`MCProfileStore`, `MCTransport`, `MCHardware`, `MCAdaptiveControl` and `MCHomeLayout` give
constants their values; the other modules' constants are named in the configurations.

## 3. The runs

| Run | Checks | Distinct states |
|---|---|---|
| `profile_store` | `TypeOK`, `AtMostOneDefault`, `NoDanglingCurve`, `ReloadFaithful`, `RestartKeepsDefaults` | 388,604 |
| `transport_sessions` | `TypeOK`, `QueuedAnswersCurrent`, `SubscriptionIsCurrent`, `NoLeakedConnection` | 3,208,632 |
| `transport_live` | `AnswersInOrder`, `LineAnswered`, `HangupReleased`, `StopEndsConnection` | 97,981 |
| `hardware` | `TypeOK`, `LimitsCoherent`, `SomeoneRuns`, `ProfileInForce`, `GateHolds` | about 1.4 million |
| `pipe_client` | `TypeOK`, `NoOrphanPending`, `NoStrandedCommand`, `KeepsPromise`, `CommandsEnd`, `LoopEnds`, `Reconnects` | 198,494 |
| `lifecycle` | `TypeOK`, `OneFrontend`, `NoOrphan`, `NoUseAfterDestruction`, `ShutdownEnds`, `CrashAnswered` | 110,934 |
| `adaptive` | `TypeOK`, `GentleRise`, `EmergencyCools` | 310,026 |
| `home_layout` | `TypeOK`, `LayoutIsSound`, `GridMirrorsService`, `StoredIsCurrent`, `DropIsPreview` | 69,235 |
| `transport_cross`, `transport_stop`, `lifecycle_respawn`, `home_widget_lost` | one property each, violated (section 6) | |

What they show:

* `profile_store`: whatever two dispatchers, failing writes and restarts do, no power
  source has two defaults and no profile refers to a curve that is gone; a restart after a
  complete save brings everything back, and every default with it: the user's still keep
  the builtin profiles of their power sources from being defaults too, and a builtin
  profile that is a default is one again, although it is never in the file. Nothing is
  claimed of a file that is cut short or cannot be opened.
* `transport_sessions`: an answer in the queue is for the client being served, the
  subscription is that client's, and an accepted connection is the one the server holds,
  or is about to, and is closed before the next accept, also when `stop()` closes the
  server under the connection thread. Excepted is the one connection that `stop()` misses
  because its descriptor is not stored yet: it stays open (section 6).
* `transport_live`: two lines, cut anywhere, are answered once, in order; a hangup between
  lines frees the server; `stop()` ends the connection and metrics threads, also when it misses
  a connection.
* `hardware`: startup and two concurrent commands with one failing access and one change
  of source. The limits come from one request; the locks never form a circle, with the
  callback inside the power mutex; a profile that was answered for is what the hardware
  and controllers show, from any earlier state; no register changes for a command that
  never saw `session_persist` on.
* `pipe_client`: whichever of answer, timeout, failed write and disconnection comes first,
  the client keeps what `RequestReply` promises; a command returns and leaves nothing in
  `_pending`; between two connections no command still waits for an answer from the old
  one; the loop connects again after each loss, and ends after `Disconnect()` or
  `Dispose()` wherever they find it.
* `lifecycle`: on both platforms, with a frontend that exits at any time, waits,
  creations and entries into the job that fail, a startup step that throws, a `stop()` that
  hangs, signals and a kill. Two frontends are never alive at once, also when the monitor
  respawns one while `main` spawns or stops; one outlives the backend only if the job
  refused it, or if the kill comes between its creation and its entry into the job; no
  thread is left on an object that is destroyed; a `main` that has left its loop ends,
  unless it hangs in the `stop()` of the transport or of D-Bus; a frontend that dies while
  the monitor waits for it is replaced, the wait gives up, or the service stops.
* `adaptive`: profiles, ceilings, silent and returning sensors, a poller with and without
  temperatures, one failing write. The limits stay between 6 and 120 W, and rise by no more
  than a preset's step from tick to tick, so that what the controller believes and what the
  hardware has do not drift apart; after an emergency, although it writes no duty cycle
  itself, the fan comes to full speed under manual control once the poller has a
  temperature and as long as it keeps it. A poller without one never ticks the fan, which
  an emergency of silent sensors may well meet (section 6).
* `home_layout`: drags, resizes, closes and additions on three widgets, with late and failing
  saves, changes of the columns and restarts whose load may fail. What is on the screen is a
  packing without overlaps; the page's list is the service's order once refreshes are through;
  the backend has the service's layout once saves are through, if the load or a save since has
  succeeded; a drop is what its preview showed.

Every property of a passing run has a mutant, a seeded bug in one mapped definition
(`..._Fault`), under which the same run finds it violated.

Bounds, and why they are enough. *ProfileStore*: two power sources (moving a default needs
two), two user ids (a collision, and an heir on delete), one user curve and one that differs
from a builtin in case only, six offered profiles that cover both types, the default flag
and every curve case, one failed write, two dispatchers; restarts are unbounded. The
theorems lift all of these. *Transport*: two clients, because what can go wrong between
sessions goes wrong between two neighbours, with one line each and one event or push; then
one client with two lines for order and liveness, since liveness is about one session (and
the state of TLC's liveness check grows with both). Lines subscribe in both: what kind a
line is matters to nothing but the subscription, of which the theorem covers every kind.
*Hardware*: two commands, since only two threads dispatch, and a command's effects are set
up by the startup program and `session_persist`; four profiles (fixed with builtin curve,
fixed with the user's curve and no source, fixed without a curve, adaptive), two sources
with defaults of the two types, and `Unknown` without one. What needs three commands in a
row on one thread is outside this bound. *PipeClient*: two commands, since a command meets
another one only as the writer in front of it or as the next in a sweep; connections,
failures and `Disconnect()` calls are unbounded, because the loop has one connection at a
time and a closed one leaves nothing behind. *Lifecycle*: three processes, the one `main`
spawns, one that a respawn makes, and one more to overtake it; signals, presses, exits and
failures are unbounded. *AdaptiveControl*: each preset; outputs below, between and above the
two thresholds and beyond both clamps; a fan ceiling below the preset's minimum; a profile
of 12 W under a ceiling of 8 W for one above its ceiling, scaled down so that ramps have a
handful of steps; one failing write; ticks, profiles and emergencies unbounded.
*HomeLayout*: two one-cell widgets and one that fills its row and may grow, two and three
columns, three presses or clicks (the moves between them are unbounded), one save on the
way, one save or load that fails, and four entries in a list, one more than there are
widgets, which a stale drop can reach. Two columns is the number the backend does not take.

Deadlock is checked in the ProfileStore run and in the Transport runs, where `Stopped` is
the one state that may stay. In `Hardware` it is off, because a state with every command
of the bound used up is a natural end; `SomeoneRuns` is the check there. In `PipeClient`
it is off, because a disposed client with every command returned has nothing left to do,
and in `Lifecycle` because a backend that has ended does; `ShutdownEnds` is the check
there. In `AdaptiveControl` and `HomeLayout`, where something can always happen, it would
show nothing.

Symmetry: clients in `Transport.cfg`, dispatchers in `ProfileStore.cfg` and
`Hardware.cfg`; they are only compared. No run with a liveness property uses it.

## 4. Fairness

`Transport!FairSpec`: the connection, push and `send_event` threads are strongly fair,
because their steps wait for the write queue's mutex, which the writer takes over and
over, and the operating system does not starve a waiter for ever; the writer and the
steps of a `stop()` that has begun are weakly fair. Nothing obliges a client to send or
hang up, anyone to call `stop()`, an event to happen, or a wait to wake spuriously.
`PipeClient!FairSpec`: the loop, the tasks and a `Disconnect()` or `Dispose()` that has
begun are weakly fair, which includes the timeout's timer and the end of a write that has
begun (the backend reads its pipe, or the pipe breaks); a connection attempt is strongly
fair, so that a client that tries again and again finds the backend once. Nothing obliges
the backend to answer, or anyone to send, disconnect or dispose.
`Lifecycle!FairSpec`: `main`, the monitor, the button monitor and a signal handler that has
begun are weakly fair, each as one thread. Nothing obliges a signal to come, a frontend to
exit, a wait to fail, or the backend to be killed, and nothing keeps the `stop()` of the
transport or of D-Bus from hanging.
`AdaptiveControl!FairSpec`: ticks of the controller, whichever of its three ways a tick
goes, and turns of the poller come again and again, and a profile's application that has
begun ends; all weak, each as one thread. No profile, ceiling or temperature is obliged to
come. `ProfileStore`, `Hardware` and `HomeLayout` are checked for safety only
and state no fairness.

## 5. What is proved

The proofs are in modules of their own (`...Proofs`; `Hardware` has two). All are about
every value of the constants under the assumptions the module declares, which TLC
evaluates in the run of the same module. Every inductive invariant below was first checked
by TLC on the run's instance, then proved.

| Module | Invariants and action properties proved of `Spec` |
|---|---|
| `ProfileStoreProofs` | `TypeOK`, `AtMostOneDefault`, `NoDanglingCurve`, `ReloadFaithful`, `RestartKeepsDefaults` |
| `TransportProofs` | `TypeOK`, `NoLeakedConnection`, `QueuedAnswersCurrent`, `SubscriptionIsCurrent`, `AnswersInOrder`, `NextLine` |
| `HardwareProofs` | `TypeOK`, `LimitsCoherent`, `GateHolds`, `SomeoneRuns` |
| `ProfileInForceProofs` | `ProfileInForce` |
| `PipeClientProofs` | `TypeOK`, `NoOrphanPending`, `NoStrandedCommand`, the refinement `KeepsPromise` |
| `LifecycleProofs` | `TypeOK`, `OneFrontend`, `NoOrphan`, `NoUseAfterDestruction` |
| `AdaptiveControlProofs` | `TypeOK`, `GentleRise` |
| `HomeLayoutProofs` | `TypeOK`, `LayoutIsSound`, `GridMirrorsService`, `StoredIsCurrent`, `DropIsPreview` |

**ProfileStore**: for all sets of sources, ids, curves, names, dispatchers and
any number of failed writes. Assumptions: `ConstantAssumption` and `BuiltinCurveAssumption`
(the sets are disjoint, at least one builtin curve exists).
`IInv` strengthens the invariants in three ways. `Load` replaces memory by the file, so
the file must have one default per source and no dangling reference too (`FileOK`); seeding
the builtins tells them apart by their power source, so an entry under a builtin id must
have that source (`MemoryOK`); and `ReloadFaithful` is about a file that only the last
conjunct describes: while `synced`, the file is the document of what is in memory. The
argument: lemmas say what each data operator does to `MemoryOK` and `FileOK` (`StoredOK`,
`DeletedOK`, `SeedOK`, `DocumentOK`, `SaveOK`), a step lemma per kind of action lifts them
to `IInv`, and `Invariance` combines these. `RestartKeepsDefaults` needs `MemoryOK` once more:
a builtin profile that is a default has the power source its id stands for, and no user
profile is the default there, so that seeding makes it one again (`SeedAt`).

**Transport**: for any number of clients, lines, events and callers of `send_event`.
`NoLeakedConnection` is not inductive: `Accept` keeps it only because a thread that accepts
serves nobody, which is `PeerInv` (the thread has a client exactly between `accept()` and
the close of the connection), and because no other connection is open (`LinkInv`: one that
is open is stored, about to be, or the one `stop()` missed).
`QueuedAnswersCurrent` then follows from where answers are put into the queue and where the
queue is cleared. `SubscriptionIsCurrent` says which commands of the client were
dispatched, so it needs that `conn.line` counts them: `StreamInv` says that the buffer and
the wire together hold exactly the pieces of the lines after `conn.line`, in order, however
the reads cut them. From it also comes `NextLine`: each dispatched line is the next one
its client has begun.

`AnswersInOrder` is about what clients have received, so its invariant, `FlowInv`, follows
the answers there: for some `r` and `b`, a client has received the answers to its lines up
to `r`, the batch holds those after `r` up to `b`, and the queue those after `b` up to the
last that was replied to. The batch and the queue are held to this only as long as what is
written would reach that client: a batch that another session left behind, or that a
hangup cuts short, holds answers nobody of this session waits for. So the gate matters
(`client_connected_` is set only while a client is served, `SessionInv`), and what makes
the next session begin at 0 is that a client of whom nothing was read yet has no answers
anywhere (`Fresh`). TLC checked `FlowInv` with two clients and one event, and with two
clients and two lines each.

**Hardware**: for any number of dispatchers, profiles, curves, commands and faults. The
proofs are about the programs the threads have left. `TypeInv` adds to the types that only
the first step of a queue can be the second or third SMU write. `LimitsInv`: a thread
holds the TDP mutex exactly when it is between two of the three writes, and what it has
written so far are limits of its request. `GateInv`: a thread has seen `session_persist`
on, or its gate is still ahead of it, or nothing it has left writes. `LockInv`: a thread
that holds `state_mutex_` sets the fan and nothing else before it releases it, so takes no
other of the three; one that holds the power mutex takes only the other two before it
releases that. So a holder of the TDP mutex or of `state_mutex_` can run; without one, the
holder of the power mutex can; and without any, everybody.

`ProfileInForce` speaks of the end of a program and is kept by each step only because of
what is still ahead. `QueueInv` says what a queue can look like: the steps that other
programs come from end it, with at most main's last two after them, so that what such a
step unfolds into is all that is left. `ForceInv` then follows the thread that is alone
since its command began (`solo`; another command or a failed access resets it). Either it
has chosen no profile (`Early`), or it is on the way to the default of a source, whose
ceiling is set or ahead (`Aimed`), or it has chosen a profile (`Bound`): then
every step it has left is one that profile asks for, and each thing the profile asks of
the limits, fan and adaptive controller is so already or set by a step ahead (`Heading`);
or it has answered, and `Heading` holds with nothing ahead (`Settled`). One lemma per action
takes each of the four to one of the four. That the default of a source was assigned to that
source is the one fact about profiles it needs: `ceiling` was set to the source on the way
to it, and `HardwareAssumption` has it from the search for a default (`main.cpp:363`), which
takes none with another `power_state`.

**PipeClient**: for any set of commands. `IInv` ties the place of a command to `_pending`
and to its source's result (`CommandOK`), the places of the loop to the pipe it owns
(`LoopOK`), and says what a sweep still has before it (`SweepOK`): as long as nobody has
cancelled, a command that waits on the old connection is among those the sweep was to find,
so that after it, until the loop publishes the next pipe, no pending command waits. The
refinement is by steps: the initial states map to the initial state of `RequestReply`, and
under `IInv` every step is a step of `RequestReply` (`Ask`, `Deliver`, `Break`, ...) or
changes nothing it speaks of (`StepRefines`).

**Lifecycle**: for any number of frontend processes, so of crashes and respawns, and both
platforms. `main`'s program is a constant, so the number of steps left says where it is
(`TodoInv`; `Places` gives the number for each step). The rest of the invariant ties to that
number which objects stand (`ObjectInv`), which threads may run (`ThreadInv`, `MonitorInv`,
`ButtonInv`), which process alone can be alive (`FrontendInv`: the one that `main` or the
monitor has created and not stored, else the child, else none), and that all but one just
created, and those the job refused, are in the job (`JobInv`). An exception leaves the last
19 steps from any earlier place, which is why the bounds must hold for the destructors as
well as for the shutdown before them.

**AdaptiveControl**: for any configurations, ceilings, outputs of the PID sum and failed
writes. Assumptions: the outputs are integers (`OutputAssumption`), a configuration's clamp
ends within the hardware's range (`WattAssumption`: `profiles.cpp:398` and 426 reject
others). `IInv` adds that the active profile's `tdp_max` is not below the hardware's minimum,
without which the clamp would be the wrong way round and could raise the limits beyond the
ramp, and that `current_tdp_` is what the hardware has unless `jump` says that something
came between.

**HomeLayout**: for any list of widgets, any choice of those that fill the row, any number
of columns from 2 to 5, 2 and 3 among them (what a failed load and a first start use), and
any bounds. Assumptions: `WidgetAssumption` (the defaults are distinct ids),
`BoundAssumption` (columns; the grid has rows for every widget at its largest, where the
code has 1000, which no page uses up) and `SaveAssumption`. `Pack` and `Without` are
recursive functions over the number of widgets placed so far; what they return is proved by
induction, which the prover's library states with an operator as parameter and this module
states with a set (`Least`, `Induction`: from `NatLessThanWellFounded`, a set of numbers has
a least one). With that, `Pack` finds a place for each widget, gives a sound layout of
exactly the ids of the list, and removing a widget from a list keeps the order of the
others. Where `ComputeInsertionIndex` puts a widget matters to none of the five properties,
as long as it is a place in the list; that its `CHOOSE` over scores yields one is a lemma.
`IInv` adds to the properties: the last save on the way has the service's layout, so
`StoredIsCurrent` holds when it arrives, also after a failed load (`StoredInv`); a press
that nothing came between knows where its widget is, and an undisturbed drag shows the
packing with the widget where it would drop it (`PreviewInv`); and without a preview the
page shows the packing of its list (`ShownInv`).

Only model-checked: liveness, in every module (the prover has neither fairness nor
`ENABLED`): `LineAnswered`, `HangupReleased`, `StopEndsConnection`, `CommandsEnd`,
`LoopEnds`, `Reconnects`, `ShutdownEnds`, `CrashAnswered`, `EmergencyCools`. Everything
else the runs check is proved.

## 6. Where the code and its comments disagree

Four that a run shows:

* `transport_cross`: the drain at `transport.cpp:330` misses the batch the writer already
  took; the next client receives an answer that is not its own.
* `transport_stop`: `stop()` can notify the writer between its test and its wait, and
  then joins it for ever (`transport.cpp:69`).
* `lifecycle_respawn`: `process.h:18` promises a respawn, but `main` starts the monitor
  before it spawns the frontend (`main.cpp:308`, 337); a monitor that finds no child ends.
* `home_widget_lost`: `WidgetService.cs:151` says that a widget moves from the hidden to
  the visible list; on a page that shows the defaults there is no visible list yet, so one
  widget hidden and added back is all that is left, and the others are offered nowhere.

Others that are plain once pointed out, and have no run:

* `profiles.cpp:289` handles collisions of slugs, but a slug is chosen in one critical
  section and used in another: two creates of one name overwrite each other.
* `profiles.h:60` says that `load_profiles` returns an empty storage if the file does not
  exist or is corrupted; it returns one with the builtin profiles (`profiles.cpp:45`), and
  only for a file it cannot open an empty one. `test_main.cpp:543` expects exactly the one
  profile that was saved, and `HW_DEFAULTS.md:83` and 91 say that no profile is applied
  by default, where the builtins are the defaults of their power sources.
* `profiles.h:84` says that deleting a profile a power source refers to is an error;
  `delete_profile` deletes it and promotes another to be the default.
* `transport.cpp:1373` says builtins are preserved; line 1374 clears the builtin profiles,
  defaults among them, until the next start seeds them again.
* `stop()` looks for a client's descriptor once (`platform_linux.cpp:297`). A connection that
  was accepted (line 242) and is not stored yet (line 246) is missed: the thread stores the
  descriptor, may find no handle to close it through any more, and ends; the client stays
  connected until the process ends.
* `process.h:22` says that the system ends the frontend with the backend; the result of
  `AssignProcessToJobObject` is ignored (`platform_win32.cpp:1475`), so a frontend that the
  job refuses outlives it.
* Shutdown ends with joins that may not return: the transport's, of a writer that missed its
  wakeup, as above, and the D-Bus service's (`dbus_service.cpp:196`), of a thread that may
  be in a synchronous call. Nothing in `main.cpp` bounds them.
* `adaptive.cpp:267` says max fan immediately. An emergency sets a curve and leaves the duty
  cycle to the fan's tick, which does nothing without a temperature (`fan.cpp:57`, as
  `test_main.cpp:877` expects): when the poller has none, the fan stays as it is. Where
  the CPU's temperature was read once it stays (`metrics.cpp:205`), and the tick goes on
  with the old value.
* `MainWindow.xaml.cs:682` goes on with the defaults when `get_config` fails. It is sent at
  startup, where the pipe may not be connected yet (`App.xaml.cs:115` only begins to
  connect), and is not repeated: the page shows the defaults, and the next change
  saves them over the layout the user had.
* `transport.h:34` promises to handle disconnection; an end-of-file inside a line is taken for
  a partial read (`transport.cpp:291`), and the connection thread spins.
* `power.h:15` and 18 promise polling and profile switching; nothing calls
  `update_power_state` when the source changes.
* `fan.cpp:21` says that the next tick retries the EC write of a mode; `tick` writes the
  duty cycle only.
* `adaptive.h:17` and 20 describe an outer loop that lowers the limits when the fan runs out
  of headroom, with Silent relying on it most; the Silent and Default presets cap the fan at
  40 and 80 %, below the 90 % at which `adaptive.cpp:160` begins to, so under these it never
  does. And nothing calls `tick` (`adaptive.cpp:262`).
* `button.cpp:60` says that the callback is called outside the lock; it is called with it.
* On Windows the console handler's `PostQuitMessage` (`main.cpp:117`) reaches the queue of
  the handler's thread, not that of `main`'s message loop.
* `PipeClient.cs:13` says every method is safe to call from any thread; a command that is
  written while another one is gets an exception.
* `PipeClient.cs:78` says that `Disconnect()` stops everything; a connection the loop
  publishes after `Disconnect()` has closed the pipe is never closed, because
  `Disconnect()` then resets `_connected` and the loop takes that for a connection
  somebody else closed.
* `ProfileService.cs:215` and 225 handle `auto_tune_state` and `auto_tune_adjust`; the
  backend sends neither. Two refreshes of its cache (`ProfileService.cs:82`) can overlap,
  and the one that started first may end last.
* The number of columns is 3–4 in `WidgetService.cs:49` and in `set_config`, 3–5 on the
  settings page, and 2–5 where the frontend clamps it: two or five columns last until the
  frontend restarts.

## 7. Not modelled

Most of the repository's C++ is vendored: the ADLX headers and ryzenadj are some 39,000 of
its 49,000 lines, third-party interfaces that the backend calls in a few places. They are
external; the share of all lines that the model covers says little for that reason. Of the
program's own code, these parts are left out:

* The Windows named pipe: overlapped I/O, one instance, a cancelled wait for a client.
  The Linux socket stands for both in `Transport`; what the pipe adds (an accept that is
  cancelled as it completes, unread answers that `DisconnectNamedPipe` throws away, an
  `OVERLAPPED` on the stack) would be a module of its own.
* D-Bus: the loop, polkit call and bus are sd-bus's; what its methods do is the second
  dispatcher's.
* Sensors, port I/O, sysfs, drivers, the metrics structure: pure I/O under one mutex.
* An answer of the backend that does not have the types the pipe client expects, which
  would leave its command to the timeout (`HandleResponse` takes the entry out of `_pending`
  before it parses): `serialize_response` (`protocol.cpp:60`) writes no such answer.
* JSON, `config.json` and its validation, logging, `xmaxctl`, command line, instance lock.
* `ProfileService`, `MetricsService`, `UmaService`: caches replaced whole by the last
  answer, with no state that survives the next one.
* View models, rendering, animation, hit-testing, the GNOME extension's menus; temperatures
  as numbers, the interpolation of fan curves, the PID sum.

## 8. Plan

Proofs first:

1. The locks of `Hardware` as an action theorem: a mutex is given back only by the thread
   that holds it.
2. Action theorems of `Lifecycle`: an object that is destroyed does not come back, and a
   thread that was stopped does not start again.

Then modules: `PipeClient` composed with `Transport` (a frontend that restarts counts
requests from one again, so an answer that crosses sessions resolves a request it does not
belong to); the Windows pipe as a second instance of the server under `Transport`;
`FrontendServices` with overlapping refreshes; `config.json` and `set_config` field by
field. Abstract specifications still worth stating: an answering service that `Transport`
refines, with the batch that crosses sessions as the step to except; an atomic register of
power limits that the TDP part of `Hardware` refines while no access fails.
