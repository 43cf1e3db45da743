------------------------------ MODULE Lifecycle ------------------------------
(***************************************************************************)
(* The life of the backend process: main.cpp from the first thread it      *)
(* starts to the last object it destroys, the frontend monitor of          *)
(* process.cpp with the Windows process calls under it, the button monitor *)
(* of button.cpp, and the message loops of both platforms.                 *)
(*                                                                         *)
(* main is a program: a sequence of steps, taken from the front of todo.   *)
(* The poller, adaptive, transport and D-Bus threads are only running or   *)
(* not; the monitor and button threads have a place of their own.          *)
(***************************************************************************)
EXTENDS Naturals, Sequences

CONSTANTS
  Process,    \* the frontend processes that can ever be created
  NoProcess,  \* a ChildProcess without a handle
  Platforms   \* the platforms to consider

ASSUME ProcessAssumption == NoProcess \notin Process
ASSUME PlatformAssumption == Platforms \subseteq {"win32", "linux"}

VARIABLES
  platform,
  todo,        \* the rest of main's program
  objects,     \* the service objects that exist
  threads,     \* the simple threads that run
  wired,       \* main has registered its callbacks
  gone,        \* "no", or how the backend ended
  monitor,     \* the place of the monitor thread
  running,     \* running_ of the process manager
  monitoring,  \* monitoring_
  has_child,   \* has_child_
  child,       \* child_
  copy,        \* current_child, the monitor's own
  spawned,     \* what main and the monitor have created and not yet stored
  proc,        \* whether each frontend process is unborn, alive or dead
  handle,      \* the backend's handle of each
  job,         \* the frontends in the job object
  refused,     \* those that run and that the job did not take
  button,      \* the place of the button thread
  polling,     \* running_ of the button monitor
  last,        \* last_button_state_
  reg,         \* the button's register
  quit,        \* quit_, or WM_QUIT in the queue of main's thread
  signal,      \* the place of the signal handler
  hung         \* main waits for ever in a stop()

mainVars == <<todo, objects, threads, wired, gone>>
monitorVars == <<monitor, running, monitoring, copy>>
childVars == <<has_child, child>>
processVars == <<proc, handle, job, refused>>
buttonVars == <<button, polling, last, reg>>
quitVars == <<quit, signal, hung>>
vars == <<platform, mainVars, monitorVars, childVars, spawned, processVars, buttonVars, quitVars>>

Declared == {"fan", "tdp", "poller", "power", "adaptive", "button", "process_mgr", "tray"}
Object == Declared \union {"transport", "dbus"}
SimpleThread == {"poller", "adaptive", "transport", "dbus"}
Unread == 2

(***************************************************************************)
(* main's program.                                                         *)
(***************************************************************************)
StopMonitor == <<<<"lower", "monitor">>, <<"terminate", "child">>, <<"join", "monitor">>>>
StopButton == <<<<"lower", "button">>, <<"join", "button">>>>
Spawn == <<<<"create", "child">>, <<"assign", "child">>, <<"store", "child">>>>

Startup(on) ==
  <<<<"start", "poller">>, <<"start", "adaptive">>, <<"start", "button">>,
    <<"start", "monitor">>, <<"start", "transport">>>>
  \o (IF on = "win32" THEN Spawn ELSE <<<<"start", "dbus">>>>)
  \o <<<<"wire", "callbacks">>, <<"loop", "test">>>>

\* Seeded bug for NoUseAfterDestruction: main does not stop the button monitor.
Shutdown_Fault ==
  <<<<"stop", "dbus">>, <<"stop", "transport">>>> \o StopMonitor
  \o <<<<"stop", "adaptive">>, <<"stop", "poller">>>>

Shutdown ==
  <<<<"stop", "dbus">>, <<"stop", "transport">>>> \o StopMonitor \o StopButton
  \o <<<<"stop", "adaptive">>, <<"stop", "poller">>>>

\* The destructors, in the reverse order of the declarations. One that owns a
\* thread stops it first.
Unwind ==
  <<<<"stop", "dbus">>, <<"destroy", "dbus">>, <<"stop", "transport">>, <<"destroy", "transport">>,
    <<"destroy", "tray">>>>
  \o StopMonitor \o <<<<"destroy", "process_mgr">>>>
  \o StopButton \o <<<<"destroy", "button">>>>
  \o <<<<"stop", "adaptive">>, <<"destroy", "adaptive">>, <<"destroy", "power">>,
       <<"stop", "poller">>, <<"destroy", "poller">>, <<"destroy", "tdp">>, <<"destroy", "fan">>>>

Up == gone = "no"
MainAt(op, what) == Up /\ ~hung /\ todo # <<>> /\ Head(todo) = <<op, what>>
Skip(n) == todo' = SubSeq(todo, n + 1, Len(todo))
LoopTo(place) == todo' = <<<<"loop", place>>>> \o Tail(todo)

\* main has left its message loop, or is unwinding.
Stopping == Up /\ \A i \in 1..Len(todo) : todo[i][1] # "loop"

StartThread(t) ==
  /\ MainAt("start", t)
  /\ objects' = objects \union {t}
  /\ \/ threads' = threads \union {t}
     \/ t = "dbus" /\ UNCHANGED threads     \* no bus: the service goes on without
  /\ Skip(1)
  /\ UNCHANGED <<platform, wired, gone, monitorVars, childVars, spawned, processVars, buttonVars, quitVars>>

StopThread(t) ==
  /\ MainAt("stop", t)
  /\ threads' = threads \ {t}
  /\ Skip(1)
  /\ UNCHANGED <<platform, objects, wired, gone, monitorVars, childVars, spawned, processVars, buttonVars, quitVars>>

\* The join of a writer that missed its wakeup (Transport, StopReturns), or of the
\* D-Bus thread in a call that does not return.
StopHangs(t) ==
  /\ MainAt("stop", t)
  /\ t \in threads \intersect {"transport", "dbus"}
  /\ hung' = TRUE
  /\ UNCHANGED <<platform, mainVars, monitorVars, childVars, spawned, processVars, buttonVars, quit, signal>>

Destroy(o) ==
  /\ MainAt("destroy", o)
  /\ objects' = objects \ {o}
  /\ Skip(1)
  /\ UNCHANGED <<platform, threads, wired, gone, monitorVars, childVars, spawned, processVars, buttonVars, quitVars>>

\* The callbacks are registered under the button's mutex, which a poll holds
\* while it calls one.
WireCallbacks ==
  /\ MainAt("wire", "callbacks")
  /\ button # "callback"
  /\ wired' = TRUE
  /\ Skip(1)
  /\ UNCHANGED <<platform, objects, threads, gone, monitorVars, childVars, spawned, processVars, buttonVars, quitVars>>

\* A thread that cannot be started, or fs::exists: the steps that throw.
Throws ==
  /\ Up /\ ~hung
  /\ todo # <<>>
  /\ Head(todo)[1] \in {"start", "create"}
  /\ todo' = Unwind
  /\ UNCHANGED <<platform, objects, threads, wired, gone, monitorVars, childVars, spawned, processVars, buttonVars, quitVars>>

(***************************************************************************)
(* The frontend process: CreateProcess, the job, and their end.            *)
(***************************************************************************)
\* A process made from explorer's token enters the job only when it is
\* assigned; the fallback's inherits the backend's job.
CreateChild(by, p) ==
  /\ proc[p] = "unborn"
  /\ proc' = [proc EXCEPT ![p] = "alive"]
  /\ handle' = [handle EXCEPT ![p] = "open"]
  /\ job' \in {job, job \union {p}}
  /\ spawned' = [spawned EXCEPT ![by] = p]
  /\ UNCHANGED refused

\* Seeded bug for NoOrphan: the process is not put into the job.
AssignChild_Fault(by) == UNCHANGED <<job, refused>>

\* Nobody looks at the result of the assignment, nor whether there is a job.
AssignChild(by) ==
  LET new == {p \in Process : p = spawned[by] /\ proc[p] = "alive"} IN
  \/ job' = job \union new /\ UNCHANGED refused
  \/ refused' = refused \union (new \ job) /\ UNCHANGED job

StoreChild(by) ==
  /\ child' = spawned[by]
  /\ has_child' = TRUE
  /\ spawned' = [spawned EXCEPT ![by] = NoProcess]

\* A process that ends leaves the job.
Dies(p) ==
  /\ proc' = [proc EXCEPT ![p] = "dead"]
  /\ job' = job \ {p}
  /\ refused' = refused \ {p}

terminate_process ==
  IF child = NoProcess
  THEN UNCHANGED <<processVars, child>>
  ELSE /\ Dies(child)
       /\ handle' = [handle EXCEPT ![child] = "closed"]
       /\ child' = NoProcess

FrontendExits(p) ==
  /\ proc[p] = "alive"
  /\ Dies(p)
  /\ UNCHANGED <<platform, mainVars, monitorVars, childVars, spawned, handle, buttonVars, quitVars>>

MainCreates ==
  /\ MainAt("create", "child")
  /\ \/ (\E p \in Process : CreateChild("main", p)) /\ Skip(1)
     \/ UNCHANGED <<spawned, processVars>> /\ Skip(3)
  /\ UNCHANGED <<platform, objects, threads, wired, gone, monitorVars, childVars, buttonVars, quitVars>>

MainAssigns ==
  /\ MainAt("assign", "child")
  /\ AssignChild("main")
  /\ Skip(1)
  /\ UNCHANGED <<platform, objects, threads, wired, gone, monitorVars, childVars, spawned, proc, handle,
                 buttonVars, quitVars>>

MainStores ==
  /\ MainAt("store", "child")
  /\ StoreChild("main")
  /\ Skip(1)
  /\ UNCHANGED <<platform, objects, threads, wired, gone, monitorVars, processVars, buttonVars, quitVars>>

(***************************************************************************)
(* ProcessManager: start_monitor, stop_monitor and the monitor thread.     *)
(***************************************************************************)
start_monitor ==
  /\ MainAt("start", "monitor")
  /\ running' = TRUE
  /\ monitoring' = TRUE
  /\ monitor' = "top"
  /\ Skip(1)
  /\ UNCHANGED <<platform, objects, threads, wired, gone, copy, childVars, spawned, processVars, buttonVars, quitVars>>

LowerRunning ==
  /\ MainAt("lower", "monitor")
  /\ \/ ~monitoring /\ Skip(3) /\ UNCHANGED running
     \/ monitoring /\ Skip(1) /\ running' = FALSE
  /\ UNCHANGED <<platform, objects, threads, wired, gone, monitor, monitoring, copy, childVars, spawned,
                 processVars, buttonVars, quitVars>>

\* Seeded bug for ShutdownEnds: the child is forgotten, not terminated.
TerminateChild_Fault ==
  /\ MainAt("terminate", "child")
  /\ has_child' = FALSE
  /\ Skip(1)
  /\ UNCHANGED <<platform, objects, threads, wired, gone, monitorVars, child, spawned, processVars, buttonVars, quitVars>>

TerminateChild ==
  /\ MainAt("terminate", "child")
  /\ \/ has_child /\ terminate_process /\ has_child' = FALSE
     \/ ~has_child /\ UNCHANGED <<processVars, childVars>>
  /\ Skip(1)
  /\ UNCHANGED <<platform, objects, threads, wired, gone, monitorVars, spawned, buttonVars, quitVars>>

JoinMonitor ==
  /\ MainAt("join", "monitor")
  /\ monitor = "ended"
  /\ monitoring' = FALSE
  /\ Skip(1)
  /\ UNCHANGED <<platform, objects, threads, wired, gone, monitor, running, copy, childVars, spawned,
                 processVars, buttonVars, quitVars>>

MonitorAt(place) == Up /\ monitor = place
MonitorGoes(place) == monitor' = place
MonitorOnly ==
  UNCHANGED <<platform, mainVars, running, monitoring, buttonVars, quitVars>>

\* Three places load running_: the loop's condition, after the wait, and after
\* the delay before a respawn.
MonitorChecks(from, to) ==
  /\ MonitorAt(from)
  /\ MonitorGoes(IF running THEN to ELSE "ended")
  /\ MonitorOnly /\ UNCHANGED <<copy, childVars, spawned, processVars>>

MonitorTop == MonitorChecks("top", "copy")
MonitorExited == MonitorChecks("exited", "reap")
MonitorFailed == MonitorChecks("failed", "give_up")
MonitorDelayed == MonitorChecks("delay", "create")

MonitorCopies ==
  /\ MonitorAt("copy")
  /\ \/ has_child /\ copy' = child /\ MonitorGoes("wait")
     \/ ~has_child /\ UNCHANGED copy /\ MonitorGoes("ended")
  /\ MonitorOnly /\ UNCHANGED <<childVars, spawned, processVars>>

\* The wait ends with the process, or fails; it fails for sure when it begins
\* on a handle that is closed, which is by then a dead process's.
wait_for_process ==
  /\ MonitorAt("wait")
  /\ proc[copy] = "dead"
  /\ \/ MonitorGoes("exited")
     \/ handle[copy] = "closed" /\ MonitorGoes("failed")
  /\ MonitorOnly /\ UNCHANGED <<copy, childVars, spawned, processVars>>

WaitFails ==
  /\ MonitorAt("wait")
  /\ MonitorGoes("failed")
  /\ MonitorOnly /\ UNCHANGED <<copy, childVars, spawned, processVars>>

\* Seeded bug for CrashAnswered: the dead child stays in place and is waited for again.
MonitorReaps_Fault ==
  /\ MonitorAt("reap")
  /\ MonitorGoes("top")
  /\ MonitorOnly /\ UNCHANGED <<copy, childVars, spawned, processVars>>

MonitorReaps ==
  /\ MonitorAt("reap")
  /\ has_child' = FALSE
  /\ MonitorGoes("delay")
  /\ MonitorOnly /\ UNCHANGED <<copy, child, spawned, processVars>>

\* Seeded bug for OneFrontend: a wait that failed is taken for an exit.
MonitorGivesUp_Fault ==
  /\ MonitorAt("give_up")
  /\ has_child' = FALSE
  /\ MonitorGoes("delay")
  /\ MonitorOnly /\ UNCHANGED <<copy, child, spawned, processVars>>

MonitorGivesUp ==
  /\ MonitorAt("give_up")
  /\ has_child' = FALSE
  /\ MonitorGoes("ended")
  /\ MonitorOnly /\ UNCHANGED <<copy, child, spawned, processVars>>

MonitorCreates ==
  /\ MonitorAt("create")
  /\ \/ (\E p \in Process : CreateChild("monitor", p)) /\ MonitorGoes("assign")
     \/ UNCHANGED <<spawned, processVars>> /\ MonitorGoes("top")
  /\ MonitorOnly /\ UNCHANGED <<copy, childVars>>

MonitorAssigns ==
  /\ MonitorAt("assign")
  /\ AssignChild("monitor")
  /\ MonitorGoes("store")
  /\ MonitorOnly /\ UNCHANGED <<copy, childVars, spawned, proc, handle>>

MonitorStores ==
  /\ MonitorAt("store")
  /\ StoreChild("monitor")
  /\ MonitorGoes("top")
  /\ MonitorOnly /\ UNCHANGED <<copy, processVars>>

(***************************************************************************)
(* ButtonMonitor. A poll that sees the register change calls back with its *)
(* mutex held.                                                             *)
(***************************************************************************)
Press ==
  /\ Up
  /\ reg' = 1 - reg
  /\ UNCHANGED <<platform, mainVars, monitorVars, childVars, spawned, processVars, button, polling, last, quitVars>>

StartButton ==
  /\ MainAt("start", "button")
  /\ polling' = TRUE
  /\ button' = "poll"
  /\ Skip(1)
  /\ UNCHANGED <<platform, objects, threads, wired, gone, monitorVars, childVars, spawned, processVars, last, reg, quitVars>>

LowerPolling ==
  /\ MainAt("lower", "button")
  /\ \/ ~polling /\ Skip(2)
     \/ polling /\ Skip(1)
  /\ polling' = FALSE
  /\ UNCHANGED <<platform, objects, threads, wired, gone, monitorVars, childVars, spawned, processVars,
                 button, last, reg, quitVars>>

JoinButton ==
  /\ MainAt("join", "button")
  /\ button = "ended"
  /\ Skip(1)
  /\ UNCHANGED <<platform, objects, threads, wired, gone, monitorVars, childVars, spawned, processVars, buttonVars, quitVars>>

ButtonOnly ==
  UNCHANGED <<platform, mainVars, monitorVars, childVars, spawned, processVars, polling, reg, quitVars>>

\* Seeded bug for TypeOK: a read that fails is stored as a reading.
Poll_Fault ==
  /\ Up
  /\ button = "poll"
  /\ polling
  /\ last' \in {reg, 255}
  /\ button' = IF last \notin {Unread, reg} /\ wired THEN "callback" ELSE "poll"
  /\ ButtonOnly

Poll ==
  /\ Up
  /\ button = "poll"
  /\ polling
  /\ last' = reg
  /\ button' = IF last \notin {Unread, reg} /\ wired THEN "callback" ELSE "poll"
  /\ ButtonOnly

CallbackReturns ==
  /\ Up
  /\ button = "callback"
  /\ button' = "poll"
  /\ ButtonOnly /\ UNCHANGED last

ButtonEnds ==
  /\ Up
  /\ button = "poll"
  /\ ~polling
  /\ button' = "ended"
  /\ ButtonOnly /\ UNCHANGED last

(***************************************************************************)
(* The message loop and what ends it. On Linux main tests quit_ and blocks *)
(* with the mutex held; the signal handler takes no mutex. On Windows the  *)
(* handler runs on a thread of its own and PostQuitMessage posts to the    *)
(* queue of that thread.                                                   *)
(***************************************************************************)
LoopOnly ==
  UNCHANGED <<platform, objects, threads, wired, gone, monitorVars, childVars, spawned, processVars, buttonVars>>

LeaveLoop ==
  /\ MainAt("loop", "test")
  /\ quit
  /\ Skip(1)
  /\ LoopOnly /\ UNCHANGED quitVars

LoopTests ==
  /\ platform = "linux"
  /\ MainAt("loop", "test")
  /\ ~quit
  /\ LoopTo("block")
  /\ LoopOnly /\ UNCHANGED quitVars

LoopBlocks ==
  /\ MainAt("loop", "block")
  /\ LoopTo("blocked")
  /\ LoopOnly /\ UNCHANGED quitVars

SpuriousWakeup ==
  /\ MainAt("loop", "blocked")
  /\ LoopTo("test")
  /\ LoopOnly /\ UNCHANGED quitVars

SignalArrives ==
  /\ Up
  /\ signal = "idle"
  /\ \/ platform = "linux" /\ quit' = TRUE /\ signal' = "notify"
     \/ platform = "win32" /\ UNCHANGED <<quit, signal>>
  /\ LoopOnly /\ UNCHANGED <<todo, hung>>

SignalNotifies ==
  /\ Up
  /\ signal = "notify"
  /\ signal' = "idle"
  /\ IF MainAt("loop", "blocked") THEN LoopTo("test") ELSE UNCHANGED todo
  /\ LoopOnly /\ UNCHANGED <<quit, hung>>

\* Another program posts WM_QUIT to main's thread.
QuitPosted ==
  /\ Up
  /\ platform = "win32"
  /\ quit' = TRUE
  /\ LoopOnly /\ UNCHANGED <<todo, signal, hung>>

(***************************************************************************)
(* The end: main returns or the backend is killed. Either way the system   *)
(* closes the job, which kills the processes in it.                        *)
(***************************************************************************)
JobCloses == proc' = [p \in Process |-> IF p \in job /\ proc[p] = "alive" THEN "dead" ELSE proc[p]]

EndsAs(how) ==
  /\ Up
  /\ gone' = how
  /\ JobCloses
  /\ UNCHANGED <<platform, todo, objects, threads, wired, monitorVars, childVars, spawned, handle, job, refused, buttonVars, quitVars>>

Returns == todo = <<>> /\ EndsAs("returned")
Killed == EndsAs("killed")

Init ==
  /\ platform \in Platforms
  /\ todo = Startup(platform) \o Shutdown \o Unwind
  /\ objects = Declared /\ threads = {} /\ wired = FALSE /\ gone = "no"
  /\ monitor = "none" /\ running = FALSE /\ monitoring = FALSE /\ copy = NoProcess
  /\ has_child = FALSE /\ child = NoProcess
  /\ spawned = [by \in {"main", "monitor"} |-> NoProcess]
  /\ proc = [p \in Process |-> "unborn"] /\ handle = [p \in Process |-> "none"] /\ job = {}
  /\ refused = {}
  /\ button = "none" /\ polling = FALSE /\ last = Unread /\ reg \in {0, 1}
  /\ quit = FALSE /\ signal = "idle" /\ hung = FALSE

MainStep ==
  \/ \E t \in SimpleThread : StartThread(t) \/ StopThread(t)
  \/ \E o \in Object : Destroy(o)
  \/ MainCreates \/ MainAssigns \/ MainStores
  \/ start_monitor \/ LowerRunning \/ TerminateChild \/ JoinMonitor
  \/ StartButton \/ LowerPolling \/ JoinButton
  \/ WireCallbacks \/ LeaveLoop \/ LoopTests \/ LoopBlocks \/ Returns

MonitorStep ==
  \/ MonitorTop \/ MonitorExited \/ MonitorFailed \/ MonitorDelayed
  \/ MonitorCopies \/ wait_for_process \/ MonitorReaps \/ MonitorGivesUp
  \/ MonitorCreates \/ MonitorAssigns \/ MonitorStores

ButtonStep == Poll \/ CallbackReturns \/ ButtonEnds

Environment ==
  \/ \E p \in Process : FrontendExits(p)
  \/ \E t \in SimpleThread : StopHangs(t)
  \/ Throws \/ WaitFails \/ Press \/ Killed
  \/ SignalArrives \/ SpuriousWakeup \/ QuitPosted

Next == MainStep \/ MonitorStep \/ ButtonStep \/ SignalNotifies \/ Environment

Spec == Init /\ [][Next]_vars

\* Threads that can take a step take one in the end.
FairSpec ==
  /\ Spec
  /\ WF_vars(MainStep) /\ WF_vars(MonitorStep) /\ WF_vars(ButtonStep) /\ WF_vars(SignalNotifies)

(***************************************************************************)
(* Properties.                                                             *)
(***************************************************************************)
\* Every variable holds a value of its kind (main.cpp, process.h, button.h).
TypeOK ==
  /\ platform \in Platforms
  /\ LET program == Startup(platform) \o Shutdown \o Unwind IN
     \/ todo = SubSeq(program, Len(program) - Len(todo) + 1, Len(program))
     \/ todo \in {<<<<"loop", place>>>> \o Shutdown \o Unwind : place \in {"block", "blocked"}}
  /\ objects \subseteq Object /\ threads \subseteq SimpleThread
  /\ wired \in BOOLEAN /\ gone \in {"no", "returned", "killed"}
  /\ monitor \in {"none", "top", "copy", "wait", "exited", "failed", "reap", "give_up", "delay",
                  "create", "assign", "store", "ended"}
  /\ running \in BOOLEAN /\ monitoring \in BOOLEAN /\ has_child \in BOOLEAN
  /\ {child, copy} \union {spawned[by] : by \in {"main", "monitor"}} \subseteq Process \union {NoProcess}
  /\ proc \in [Process -> {"unborn", "alive", "dead"}]
  /\ handle \in [Process -> {"none", "open", "closed"}]
  /\ job \subseteq Process /\ refused \subseteq Process
  /\ button \in {"none", "poll", "callback", "ended"} /\ polling \in BOOLEAN
  /\ last \in {0, 1, Unread} /\ reg \in {0, 1}
  /\ quit \in BOOLEAN /\ signal \in {"idle", "notify"} /\ hung \in BOOLEAN

\* The service never has two frontends alive: the monitor respawns only after
\* an exit it has seen, also while main spawns, and gives up when it cannot
\* tell (process.cpp, monitor_loop).
OneFrontend ==
  \A p, q \in Process : proc[p] = "alive" /\ proc[q] = "alive" => p = q

\* "When the backend exits, the OS automatically terminates the frontend"
\* (process.h:22): a frontend outlives the backend only if the job refused it, or
\* if the backend was killed between the creation of the process and its entry
\* into the job. One that a respawn made behind stop_monitor's back does not.
NoOrphan ==
  gone # "no" =>
    \A p \in Process : proc[p] = "alive" =>
      \/ p \in refused
      \/ gone = "killed" /\ monitor = "assign" /\ spawned["monitor"] = p
      \/ /\ gone = "killed" /\ spawned["main"] = p
         /\ todo # <<>> /\ Head(todo) = <<"assign", "child">>

Uses(t) ==
  CASE t = "poller" -> {"poller", "fan", "tdp"}
    [] t = "adaptive" -> {"adaptive"}
    [] t = "transport" -> {"transport", "poller", "fan", "tdp", "power", "adaptive", "button"}
    [] t = "dbus" -> {"dbus", "transport", "poller", "fan", "tdp", "power", "adaptive", "button"}

\* No thread uses a service object that main has destroyed, whether main
\* returns or unwinds from an exception (main.cpp:223, 445): the threads that
\* were started last stop first, and a callback that uses the transport is
\* only registered after the last step that throws.
NoUseAfterDestruction ==
  Up =>
    /\ \A t \in threads : Uses(t) \subseteq objects
    /\ monitor \notin {"none", "ended"} => "process_mgr" \in objects
    /\ button \notin {"none", "ended"} => "button" \in objects
    /\ button = "callback" => "transport" \in objects

\* The shutdown ends once main has left the loop, unless it hangs in the stop() of
\* the transport or of D-Bus: the joins of the monitor and of the button thread
\* return, wherever stop_monitor finds the monitor, a respawn included
\* (process.cpp:45).
ShutdownEnds == Stopping ~> (gone # "no" \/ hung)

\* A frontend that dies while the monitor watches it is replaced, or at least
\* its replacement is attempted (process.h:18, process.cpp:113).
CrashAnswered ==
  \A p \in Process :
    (Up /\ monitor = "wait" /\ copy = p /\ proc[p] = "dead")
      ~> (monitor \in {"create", "failed"} \/ ~running \/ ~Up)

\* "Respawn frontend on unexpected exit (after 1s delay)" (process.h:18): the
\* frontend that the service takes for its child does not stay dead.
RespawnedOnExit ==
  \A p \in Process :
    (Up /\ has_child /\ child = p /\ proc[p] = "dead") ~> (~has_child \/ child # p \/ Stopping \/ ~Up)
=============================================================================
