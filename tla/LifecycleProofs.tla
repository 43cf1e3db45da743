---------------------------- MODULE LifecycleProofs ----------------------------
(***************************************************************************)
(* What the life of the backend promises, for any number of frontend       *)
(* processes, and so for any number of crashes and respawns.               *)
(*                                                                         *)
(* main's program is known, so the number of steps that are left, Left,    *)
(* says where main is (TodoInv, Places): on both platforms the last 30     *)
(* steps are the same, the last 28 are the shutdown with the destructors,  *)
(* and the last 19 the destructors, which is also what an exception        *)
(* leaves.  The invariant then ties to Left what stands and what runs      *)
(* (ServiceInv), and who may hold a frontend, in the job or not yet        *)
(* (ChildInv).                                                             *)
(***************************************************************************)
EXTENDS Lifecycle, SequenceTheorems, TLAPS

-----------------------------------------------------------------------------
(* main's program.                                                         *)

Plan(on) == Startup(on) \o Shutdown \o Unwind

\* What is left of it when there are n steps to go.
Rest(on, n) == SubSeq(Plan(on), Len(Plan(on)) - n + 1, Len(Plan(on)))

\* The steps that are left, which say how far main is: both platforms share the
\* last 30, of which the last 19 are also what an exception leaves.
Left == Len(todo)

TodoInv ==
  /\ platform \in {"win32", "linux"} /\ Left \in 0..Len(Plan(platform))
  /\ \/ todo = Rest(platform, Left)
     \/ \E place \in {"block", "blocked"} : todo = <<<<"loop", place>>>> \o Shutdown \o Unwind

\* main is between creating a frontend and storing it.
Spawning == platform = "win32" /\ Left \in {31, 32}
-----------------------------------------------------------------------------
(* Objects and threads.                                                    *)

ObjectInv ==
  /\ Left >= 11 => "process_mgr" \in objects
  /\ Left >= 8 => "button" \in objects
  /\ Left >= 6 => "adaptive" \in objects
  /\ Left >= 5 => "power" \in objects
  /\ Left >= 3 => "poller" \in objects
  /\ Left >= 2 => "tdp" \in objects
  /\ Left >= 1 => "fan" \in objects
  /\ Left \in 20..(IF platform = "win32" THEN 33 ELSE 31) => "transport" \in objects

\* A thread has been stopped, on either way, before what it uses is destroyed.
ThreadInv ==
  /\ "poller" \in threads => Left >= 4
  /\ "adaptive" \in threads => Left >= 7
  /\ "transport" \in threads => Left >= 17 /\ "transport" \in objects
  /\ "dbus" \in threads => Left >= 19 /\ {"dbus", "transport"} \subseteq objects

\* So have the monitor, which is there to be joined while it is monitoring_, ...
MonitorInv == monitor \notin {"none", "ended"} => monitoring /\ Left >= 12

\* ... and the button thread. It calls back only when main has come past the last
\* step that throws, and then it is joined before anything is destroyed.
ButtonInv ==
  /\ wired => Left <= 29
  /\ button = "callback" => wired
  /\ button \in {"poll", "callback"} =>
       Left >= 9 /\ (~polling => Left \in {9, 22}) /\ (wired => Left >= 22)
-----------------------------------------------------------------------------
(* The frontends.                                                          *)

Only(q) == \A p \in Process : proc[p] = "alive" => p = q

\* The one frontend there can be is the one main or the monitor has created and
\* not stored, or else the child; none, when the monitor has seen it end.
FrontendInv ==
  /\ Left >= 31 =>
       /\ ~has_child /\ child = NoProcess
       /\ monitor \in {"none", "top", "copy", "ended"}
       /\ Only(IF Spawning THEN spawned["main"] ELSE NoProcess)
  /\ Left <= 30 =>
       CASE monitor \in {"exited", "reap", "delay", "create"} -> Only(NoProcess)
         [] monitor \in {"assign", "store"} -> Only(spawned["monitor"])
         [] OTHER -> Only(child)
  /\ monitor = "wait" => child \in {NoProcess, copy}

\* A frontend that is not in the job was refused or has just been created.
JobInv ==
  gone = "no" =>
    \A p \in Process \ job : proc[p] = "alive" =>
      \/ p \in refused
      \/ monitor = "assign" /\ spawned["monitor"] = p
      \/ Spawning /\ Left = 32 /\ spawned["main"] = p

\* The part of TypeOK about the frontends: what is put into the job, and what is
\* stored as the child, is a process.
ProcessTypes ==
  /\ child \in Process \union {NoProcess} /\ copy \in Process \union {NoProcess}
  /\ spawned \in [{"main", "monitor"} -> Process \union {NoProcess}]
  /\ Spawning => spawned["main"] \in Process
  /\ monitor \in {"assign", "store"} => spawned["monitor"] \in Process
  /\ proc \in [Process -> {"unborn", "alive", "dead"}]
  /\ handle \in [Process -> {"none", "open", "closed"}]
  /\ job \subseteq Process /\ refused \subseteq Process

FlagTypes ==
  /\ wired \in BOOLEAN /\ running \in BOOLEAN /\ monitoring \in BOOLEAN
  /\ has_child \in BOOLEAN /\ polling \in BOOLEAN /\ quit \in BOOLEAN
  /\ hung \in BOOLEAN

PlaceTypes ==
  /\ platform \in Platforms
  /\ objects \subseteq Object /\ threads \subseteq SimpleThread
  /\ gone \in {"no", "returned", "killed"}
  /\ monitor \in {"none", "top", "copy", "wait", "exited", "failed", "reap", "give_up", "delay",
                  "create", "assign", "store", "ended"}
  /\ button \in {"none", "poll", "callback", "ended"}
  /\ last \in {0, 1, Unread} /\ reg \in {0, 1}
  /\ signal \in {"idle", "notify"}

Step ==
  {"start", "stop", "destroy", "wire", "loop", "lower", "terminate", "join", "create", "assign",
   "store"}
  \X (Object \union {"monitor", "child", "callbacks", "test"})

\* The programs of the two platforms and their lengths.
LEMMA PlanTyped ==
  ASSUME NEW on \in {"win32", "linux"}
  PROVE  /\ Plan(on) \in Seq(Step) /\ Len(Plan(on)) = IF on = "win32" THEN 38 ELSE 36
         /\ Startup(on) \in Seq(Step) /\ Len(Startup(on)) = IF on = "win32" THEN 10 ELSE 8
<1> USE DEF StopMonitor, StopButton, Unwind, Shutdown, Startup, Spawn, Plan
<1>1. CASE on = "win32"
  BY <1>1 DEF Step, Object, Declared
<1>2. CASE on = "linux"
  BY <1>2 DEF Step, Object, Declared
<1>3. QED
  BY <1>1, <1>2

\* The shutdown and the destructors, and their lengths.
LEMMA EndTyped ==
  /\ Unwind \in Seq(Step) /\ Len(Unwind) = 19
  /\ Shutdown \in Seq(Step) /\ Len(Shutdown) = 9
<1> USE DEF StopMonitor, StopButton, Unwind, Shutdown
<1>1. Unwind \in Seq(Step) /\ Shutdown \in Seq(Step)
  BY DEF Step, Object, Declared
<1>2. Len(Unwind) = 19 /\ Len(Shutdown) = 9
  OBVIOUS
<1>3. QED
  BY ONLY <1>1, <1>2

\* What is left with n steps to go begins with the n-th step from the end.
LEMMA RestOf ==
  ASSUME NEW on \in {"win32", "linux"}, NEW n \in 1..Len(Plan(on))
  PROVE  /\ Rest(on, n) \in Seq(Step) /\ Len(Rest(on, n)) = n /\ Rest(on, n) # <<>>
         /\ Head(Rest(on, n)) = Plan(on)[Len(Plan(on)) - n + 1]
         /\ Tail(Rest(on, n)) = Rest(on, n - 1)
         /\ Rest(on, n) = <<Plan(on)[Len(Plan(on)) - n + 1]>> \o Rest(on, n - 1)
<1> DEFINE P == Plan(on)
           m == Len(P) - n + 1
<1>1. P \in Seq(Step) /\ Len(P) \in Nat
  BY PlanTyped
<1> HIDE DEF P
<1>2. m \in 1..Len(P) /\ m \in Int /\ Len(P) \in Int /\ Len(P) \in m..Len(P) /\ m + 1 = Len(P) - (n - 1) + 1
      /\ m <= Len(P) /\ Len(P) - m + 1 = n /\ n \in Nat /\ n # 0
  BY <1>1 DEF P
<1> HIDE DEF m
<1>3. Head(SubSeq(P, m, Len(P))) = P[m] /\ Tail(SubSeq(P, m, Len(P))) = SubSeq(P, m + 1, Len(P))
  BY <1>1, <1>2, HeadTailOfSubSeq
<1>4. SubSeq(P, m, Len(P)) = <<P[m]>> \o SubSeq(P, m + 1, Len(P))
  BY <1>1, <1>2, SubSeqRecursiveFirst
<1>5. SubSeq(P, m, Len(P)) \in Seq(Step) /\ Len(SubSeq(P, m, Len(P))) = n
  <2>1. \A i \in m..Len(P) : P[i] \in Step
    BY <1>1, <1>2, ElementOfSeq
  <2>2. QED
    BY <1>2, <2>1, SubSeqProperties
<1>6. SubSeq(P, m, Len(P)) # <<>>
  BY <1>2, <1>5, EmptySeq
<1>7. Rest(on, n) = SubSeq(P, m, Len(P)) /\ Rest(on, n - 1) = SubSeq(P, m + 1, Len(P))
  BY <1>2 DEF Rest, P, m
<1>8. QED
  BY <1>3, <1>4, <1>5, <1>6, <1>7 DEF P, m

\* The second of two sequences is the end of their concatenation.
LEMMA EndOf ==
  ASSUME NEW T, NEW a \in Seq(T), NEW b \in Seq(T), Len(b) > 0
  PROVE  SubSeq(a \o b, Len(a) + 1, Len(a) + Len(b)) = b
<1>1. Len(a) \in Nat /\ Len(b) \in Nat
  BY LenProperties
<1>2. /\ Len(a) + 1 \in (Len(a) + 1)..(Len(a) + Len(b))
      /\ Len(a) + Len(b) \in (Len(a) + 1)..(Len(a) + Len(b))
      /\ (Len(a) + 1) - Len(a) = 1 /\ (Len(a) + Len(b)) - Len(a) = Len(b)
  BY <1>1
<1>3. SubSeq(a \o b, Len(a) + 1, Len(a) + Len(b)) = SubSeq(b, 1, Len(b))
  BY <1>2, SubSeqOfConcat2
<1>4. QED
  BY <1>3, SubSeqFull

\* What main leaves behind when it throws, and when it has left its loop.
LEMMA SharedEnd ==
  ASSUME NEW on \in {"win32", "linux"}
  PROVE  /\ Unwind = Rest(on, 19) /\ Shutdown \o Unwind = Rest(on, 28)
         /\ Rest(on, 29) = <<<<"loop", "test">>>> \o Rest(on, 28)
         /\ Rest(on, 0) = <<>>
<1> DEFINE U == Startup(on)
           A == U \o Shutdown
           B == Shutdown \o Unwind
           P == Plan(on)
<1>0. P = A \o Unwind
  BY DEF Plan
<1> HIDE DEF U, P
<1>1. U \in Seq(Step) /\ Len(U) = Len(P) - 28 /\ Len(P) \in {36, 38}
  <2>1. /\ U \in Seq(Step) /\ Len(P) = IF on = "win32" THEN 38 ELSE 36
        /\ Len(U) = IF on = "win32" THEN 10 ELSE 8
    BY PlanTyped DEF U, P
  <2>2. QED
    BY ONLY <2>1
<1>2. /\ A \in Seq(Step) /\ Len(A) = Len(U) + 9
      /\ B \in Seq(Step) /\ Len(B) = 28
  <2>1. Unwind \in Seq(Step) /\ Shutdown \in Seq(Step)
    BY EndTyped
  <2>2. A \in Seq(Step) /\ Len(A) = Len(U) + Len(Shutdown)
    BY <1>1, <2>1, ConcatProperties
  <2>3. B \in Seq(Step) /\ Len(B) = Len(Shutdown) + Len(Unwind)
    BY <2>1, ConcatProperties
  <2>4. QED
    BY <2>2, <2>3, EndTyped
<1>3. A \o Unwind = U \o B
  <2>1. Unwind \in Seq(Step) /\ Shutdown \in Seq(Step)
    BY EndTyped
  <2>2. QED
    BY <1>1, <2>1, ConcatAssociative
<1> HIDE DEF A, B
<1>4. Unwind = SubSeq(P, Len(P) - 18, Len(P))
  <2>1. Unwind \in Seq(Step) /\ Len(Unwind) = 19
    BY EndTyped
  <2>2. SubSeq(P, Len(A) + 1, Len(A) + Len(Unwind)) = Unwind
    <3>1. A \in Seq(Step) /\ Len(Unwind) > 0
      BY <1>2, <2>1
    <3>2. SubSeq(A \o Unwind, Len(A) + 1, Len(A) + Len(Unwind)) = Unwind
      BY <2>1, <3>1, EndOf
    <3>3. QED
      BY <1>0, <3>2
  <2>3. Len(A) + 1 = Len(P) - 18 /\ Len(A) + Len(Unwind) = Len(P)
    BY <1>1, <1>2, <2>1
  <2>4. QED
    BY <2>2, <2>3
<1>5. B = SubSeq(P, Len(P) - 27, Len(P))
  <2>1. SubSeq(P, Len(U) + 1, Len(U) + Len(B)) = B
    <3>1. B \in Seq(Step) /\ U \in Seq(Step) /\ Len(B) > 0
      BY <1>1, <1>2
    <3>2. SubSeq(U \o B, Len(U) + 1, Len(U) + Len(B)) = B
      BY <3>1, EndOf
    <3>3. QED
      BY <1>0, <1>3, <3>2
  <2>2. Len(U) + 1 = Len(P) - 27 /\ Len(U) + Len(B) = Len(P)
    BY <1>1, <1>2
  <2>3. QED
    BY <2>1, <2>2
<1>6. Len(P) - 19 + 1 = Len(P) - 18 /\ Len(P) - 28 + 1 = Len(P) - 27 /\ 29 \in 1..Len(P) /\ 29 - 1 = 28
  BY <1>1
<1>7. Rest(on, 29) = <<<<"loop", "test">>>> \o Rest(on, 28)
  <2>1. Rest(on, 29) = <<P[Len(P) - 29 + 1]>> \o Rest(on, 28)
    BY <1>6, RestOf DEF P
  <2>2. P[Len(P) - 29 + 1] = <<"loop", "test">>
    <3> USE DEF StopMonitor, StopButton, Unwind, Shutdown, Startup, Spawn, Plan, P
    <3>1. CASE on = "win32"
      BY <3>1
    <3>2. CASE on = "linux"
      BY <3>2
    <3>3. QED
      BY <3>1, <3>2
  <2>3. QED
    BY <2>1, <2>2
<1>8. Rest(on, 0) = <<>>
  <2>1. Len(P) - 0 + 1 \in Int /\ Len(P) \in Int /\ Len(P) < Len(P) - 0 + 1
    BY <1>1
  <2>2. QED
    BY <2>1, SubSeqEmpty DEF Rest, P
<1>9. QED
  BY <1>4, <1>5, <1>6, <1>7, <1>8 DEF Rest, B, P

\* Where main is when a step is at the head of what is left.
Place(op, what) ==
  CASE op = "start" /\ what = "poller" -> {IF platform = "win32" THEN 38 ELSE 36}
    [] op = "start" /\ what = "adaptive" -> {IF platform = "win32" THEN 37 ELSE 35}
    [] op = "start" /\ what = "button" -> {IF platform = "win32" THEN 36 ELSE 34}
    [] op = "start" /\ what = "monitor" -> {IF platform = "win32" THEN 35 ELSE 33}
    [] op = "start" /\ what = "transport" -> {IF platform = "win32" THEN 34 ELSE 32}
    [] op = "create" -> IF platform = "win32" THEN {33} ELSE {}
    [] op = "assign" -> IF platform = "win32" THEN {32} ELSE {}
    [] op = "store" -> IF platform = "win32" THEN {31} ELSE {}
    [] op = "start" /\ what = "dbus" -> IF platform = "win32" THEN {} ELSE {31}
    [] op = "wire" -> {30}
    [] op = "loop" -> {29}
    [] op = "stop" /\ what = "dbus" -> {28, 19}
    [] op = "stop" /\ what = "transport" -> {27, 17}
    [] op = "stop" /\ what = "adaptive" -> {21, 7}
    [] op = "stop" /\ what = "poller" -> {20, 4}
    [] op = "lower" /\ what = "monitor" -> {26, 14}
    [] op = "terminate" -> {25, 13}
    [] op = "join" /\ what = "monitor" -> {24, 12}
    [] op = "lower" /\ what = "button" -> {23, 10}
    [] op = "join" /\ what = "button" -> {22, 9}
    [] op = "destroy" /\ what = "dbus" -> {18}
    [] op = "destroy" /\ what = "transport" -> {16}
    [] op = "destroy" /\ what = "tray" -> {15}
    [] op = "destroy" /\ what = "process_mgr" -> {11}
    [] op = "destroy" /\ what = "button" -> {8}
    [] op = "destroy" /\ what = "adaptive" -> {6}
    [] op = "destroy" /\ what = "power" -> {5}
    [] op = "destroy" /\ what = "poller" -> {3}
    [] op = "destroy" /\ what = "tdp" -> {2}
    [] op = "destroy" /\ what = "fan" -> {1}
    [] OTHER -> {}

\* A main that is not waiting in its loop is at a step of its program.
LEMMA OnPlan ==
  ASSUME TodoInv, NEW op, NEW what, MainAt(op, what), what \notin {"block", "blocked"}
  PROVE  /\ platform \in {"win32", "linux"} /\ Left \in 1..Len(Plan(platform))
         /\ todo = Rest(platform, Left)
         /\ Plan(platform)[Len(Plan(platform)) - Left + 1] = <<op, what>>
<1>1. todo # <<>> /\ Head(todo) = <<op, what>> /\ platform \in {"win32", "linux"}
      /\ Left \in 0..Len(Plan(platform)) /\ Len(Plan(platform)) \in Nat
  BY PlanTyped, LenProperties DEF MainAt, TodoInv
<1>2. todo = Rest(platform, Left)
  <2>1. CASE \E place \in {"block", "blocked"} : todo = <<<<"loop", place>>>> \o Shutdown \o Unwind
    <3>1. PICK place \in {"block", "blocked"} : todo = (<<<<"loop", place>>>> \o Shutdown) \o Unwind
      BY <2>1
    <3>2. Head(todo) = <<"loop", place>>
      BY <3>1 DEF Shutdown, Unwind, StopMonitor, StopButton
    <3>3. QED
      BY <1>1, <3>2
  <2>2. QED
    BY <2>1 DEF TodoInv
<1>3. Left # 0
  BY <1>1, <1>2, SharedEnd
<1>4. Left \in 1..Len(Plan(platform))
  BY <1>1, <1>3
<1>5. QED
  BY <1>1, <1>2, <1>4, RestOf

\* A step tells where main is.
LEMMA Places ==
  ASSUME TodoInv, NEW op, NEW what, MainAt(op, what)
  PROVE  Left \in Place(op, what)
<1>1. CASE what \notin {"block", "blocked"}
  <2>1. /\ platform \in {"win32", "linux"} /\ Left \in 1..Len(Plan(platform))
        /\ Plan(platform)[Len(Plan(platform)) - Left + 1] = <<op, what>>
    BY <1>1, OnPlan
  <2>2. ASSUME platform = "win32", NEW n \in 1..38, Plan(platform)[38 - n + 1] = <<op, what>>
        PROVE  n \in Place(op, what)
    BY ONLY <2>2 DEF Place, StopMonitor, StopButton, Unwind, Shutdown, Startup, Spawn, Plan
  <2>3. ASSUME platform = "linux", NEW n \in 1..36, Plan(platform)[36 - n + 1] = <<op, what>>
        PROVE  n \in Place(op, what)
    BY ONLY <2>3 DEF Place, StopMonitor, StopButton, Unwind, Shutdown, Startup, Spawn, Plan
  <2>4. Len(Plan(platform)) = IF platform = "win32" THEN 38 ELSE 36
    BY <2>1, PlanTyped
  <2> HIDE DEF Left
  <2>5. CASE platform = "win32"
    BY <2>1, <2>2, <2>4, <2>5
  <2>6. CASE platform = "linux"
    BY <2>1, <2>3, <2>4, <2>6
  <2>7. QED
    BY <2>1, <2>5, <2>6
<1>2. CASE what \in {"block", "blocked"}
  <2>1. CASE todo = Rest(platform, Left)
    <3>1. /\ platform \in {"win32", "linux"} /\ todo # <<>> /\ Head(todo) = <<op, what>>
          /\ Left \in 0..Len(Plan(platform))
      BY DEF MainAt, TodoInv
    <3>2. Left \in 1..Len(Plan(platform))
      BY <2>1, <3>1, SharedEnd, PlanTyped
    <3>3. Plan(platform)[Len(Plan(platform)) - Left + 1] = <<op, what>>
      BY <2>1, <3>1, <3>2, RestOf
    <3>4. ASSUME platform = "win32", NEW n \in 1..38, Plan(platform)[38 - n + 1] = <<op, what>>
          PROVE  FALSE
      BY ONLY <1>2, <3>4 DEF StopMonitor, StopButton, Unwind, Shutdown, Startup, Spawn, Plan
    <3>5. ASSUME platform = "linux", NEW n \in 1..36, Plan(platform)[36 - n + 1] = <<op, what>>
          PROVE  FALSE
      BY ONLY <1>2, <3>5 DEF StopMonitor, StopButton, Unwind, Shutdown, Startup, Spawn, Plan
    <3>6. Len(Plan(platform)) = IF platform = "win32" THEN 38 ELSE 36
      BY <3>1, PlanTyped
    <3> HIDE DEF Left
    <3>7. QED
      BY <3>1, <3>2, <3>3, <3>4, <3>5, <3>6
  <2>2. CASE todo # Rest(platform, Left)
    <3>1. PICK place \in {"block", "blocked"} : todo = (<<<<"loop", place>>>> \o Shutdown) \o Unwind
      BY <2>2 DEF TodoInv
    <3>2. Head(todo) = <<"loop", place>> /\ Len(todo) = 29
      BY <3>1 DEF Shutdown, Unwind, StopMonitor, StopButton
    <3>3. op = "loop"
      BY <3>2 DEF MainAt
    <3>4. QED
      BY <3>2, <3>3 DEF Place, Left
  <2>3. QED
    BY <2>1, <2>2
<1>3. QED
  BY <1>1, <1>2

\* Skipping n steps of what is left.
LEMMA RestSkip ==
  ASSUME NEW on \in {"win32", "linux"}, NEW l \in 1..Len(Plan(on)), NEW n \in 1..l
  PROVE  SubSeq(Rest(on, l), n + 1, Len(Rest(on, l))) = Rest(on, l - n)
<1> DEFINE P == Plan(on)
           R == Rest(on, l)
<1>1. P \in Seq(Step) /\ Len(P) \in Nat /\ l \in 1..Len(P) /\ R \in Seq(Step) /\ Len(R) = l
  BY PlanTyped, RestOf, LenProperties
<1>2. R = SubSeq(P, Len(P) - l + 1, Len(P)) /\ Rest(on, l - n) = SubSeq(P, Len(P) - (l - n) + 1, Len(P))
  BY DEF Rest
<1>3. CASE n = l
  <2>1. l \in Int /\ n + 1 \in Int /\ l < n + 1 /\ l - n = 0
    BY <1>1, <1>3
  <2>2. SubSeq(R, n + 1, l) = <<>>
    BY <2>1, SubSeqEmpty
  <2>3. QED
    BY <1>1, <2>1, <2>2, SharedEnd
<1>4. CASE n # l
  <2> HIDE DEF P, R
  <2> DEFINE i == Len(P) - l + 1
  <2>1. /\ i \in 1..Len(P) /\ Len(P) \in 1..Len(P) /\ n + 1 \in 1..(Len(P) - i + 1)
        /\ l \in 1..(Len(P) - i + 1) /\ i + (n + 1) - 1 = Len(P) - (l - n) + 1 /\ i + l - 1 = Len(P)
    BY <1>1, <1>4
  <2> HIDE DEF i
  <2>2. SubSeq(SubSeq(P, i, Len(P)), n + 1, l) = SubSeq(P, i + (n + 1) - 1, i + l - 1)
    BY <1>1, <2>1, SubSeqOfSubSeq
  <2>3. R = SubSeq(P, i, Len(P))
    BY <1>2 DEF i
  <2>4. SubSeq(R, n + 1, l) = Rest(on, l - n)
    BY <1>2, <2>1, <2>2, <2>3
  <2>5. QED
    BY <1>1, <2>4 DEF R
<1>5. QED
  BY <1>3, <1>4

\* Steps of main that go on, ...
LEMMA Advance ==
  ASSUME TodoInv, NEW op, NEW what, MainAt(op, what), what \notin {"block", "blocked"},
         NEW n \in 1..Left, Skip(n), platform' = platform
  PROVE  TodoInv' /\ Left' = Left - n
<1>1. /\ platform \in {"win32", "linux"} /\ Left \in 1..Len(Plan(platform))
      /\ todo = Rest(platform, Left) /\ Len(Plan(platform)) \in Nat
  BY OnPlan, PlanTyped, LenProperties
<1>2. todo' = Rest(platform, Left - n)
  BY <1>1, RestSkip DEF Skip
<1>3. Len(Rest(platform, Left - n)) = Left - n /\ Left - n \in 0..Len(Plan(platform))
  <2>1. Left - n \in 0..Len(Plan(platform))
    BY <1>1
  <2>2. CASE Left - n = 0
    BY <1>1, <2>2, SharedEnd
  <2>3. CASE Left - n # 0
    <3>1. Left - n \in 1..Len(Plan(platform))
      BY <1>1, <2>1, <2>3
    <3>2. QED
      BY <1>1, <2>1, <3>1, RestOf
  <2>4. QED
    BY <2>2, <2>3
<1>4. Left' = Left - n
  BY <1>2, <1>3 DEF Left
<1>5. QED
  BY <1>1, <1>2, <1>3, <1>4 DEF TodoInv

\* ... that stay in the loop, ...
LEMMA Loops ==
  ASSUME TodoInv, NEW from, MainAt("loop", from), NEW to \in {"test", "block", "blocked"}, LoopTo(to),
         platform' = platform
  PROVE  TodoInv' /\ Left = 29 /\ Left' = 29
<1>1. Left = 29 /\ platform \in {"win32", "linux"}
  BY Places DEF Place, TodoInv
<1>2. Tail(todo) = Shutdown \o Unwind
  <2>1. CASE todo = Rest(platform, Left)
    <3>1. 29 \in 1..Len(Plan(platform)) /\ 29 - 1 = 28
      <4>1. Len(Plan(platform)) = IF platform = "win32" THEN 38 ELSE 36
        BY <1>1, PlanTyped
      <4>2. QED
        BY ONLY <4>1
    <3>2. QED
      BY <1>1, <2>1, <3>1, RestOf, SharedEnd
  <2>2. CASE todo # Rest(platform, Left)
    <3>1. PICK place \in {"block", "blocked"} : todo = <<<<"loop", place>>>> \o Shutdown \o Unwind
      BY <2>2 DEF TodoInv
    <3>2. QED
      BY <3>1 DEF Shutdown, Unwind, StopMonitor, StopButton
  <2>3. QED
    BY <2>1, <2>2
<1>3. todo' = <<<<"loop", to>>>> \o (Shutdown \o Unwind)
  BY <1>2 DEF LoopTo
<1>4. <<<<"loop", to>>>> \o (Shutdown \o Unwind) = <<<<"loop", to>>>> \o Shutdown \o Unwind
  BY DEF Shutdown, Unwind, StopMonitor, StopButton
<1>5. Len(todo') = 29
  BY <1>3 DEF Shutdown, Unwind, StopMonitor, StopButton
<1>6. to = "test" => todo' = Rest(platform, 29)
  BY <1>1, <1>3, SharedEnd
<1>7. 29 \in 0..Len(Plan(platform))
  <2>1. Len(Plan(platform)) = IF platform = "win32" THEN 38 ELSE 36
    BY <1>1, PlanTyped
  <2>2. QED
    BY ONLY <2>1
<1>8. QED
  BY <1>1, <1>3, <1>4, <1>5, <1>6, <1>7 DEF TodoInv, Left

\* ... or that throw.
LEMMA Thrown ==
  ASSUME TodoInv, todo' = Unwind, platform' = platform
  PROVE  TodoInv' /\ Left' = 19
<1>1. platform \in {"win32", "linux"}
  BY DEF TodoInv
<1>2. 19 \in 0..Len(Plan(platform))
  <2>1. Len(Plan(platform)) = IF platform = "win32" THEN 38 ELSE 36
    BY <1>1, PlanTyped
  <2>2. QED
    BY ONLY <2>1
<1>3. todo' = Rest(platform, 19) /\ Len(todo') = 19
  BY <1>1, SharedEnd, EndTyped
<1>4. QED
  BY <1>1, <1>2, <1>3 DEF TodoInv, Left

-----------------------------------------------------------------------------
(* The invariant.                                                          *)

ServiceInv == ObjectInv /\ ThreadInv /\ MonitorInv /\ ButtonInv
ChildInv == FrontendInv /\ JobInv /\ ProcessTypes
Types == FlagTypes /\ PlaceTypes
IInv == TodoInv /\ ServiceInv /\ ChildInv /\ Types /\ NoOrphan

serviceVars == <<objects, threads, wired, monitor, monitoring, button, polling>>
frontendVars == <<gone, monitor, copy, childVars, spawned, processVars>>

\* There is a number of steps left.
LEMMA LeftTyped ==
  ASSUME TodoInv
  PROVE  Left \in Nat /\ Left <= 38
<1>1. Len(Plan(platform)) = (IF platform = "win32" THEN 38 ELSE 36) /\ Left \in 0..Len(Plan(platform))
  BY PlanTyped DEF TodoInv
<1>2. QED
  BY ONLY <1>1

\* A step that leaves main where it is.
LEMMA Stays ==
  ASSUME UNCHANGED <<platform, todo>>
  PROVE  /\ Left' = Left /\ (Spawning' <=> Spawning)
         /\ TodoInv => TodoInv'
BY DEF Left, TodoInv, Spawning

\* A step that leaves the objects, the threads and main's place alone.
LEMMA ServicesKept ==
  ASSUME ServiceInv, UNCHANGED <<platform, serviceVars>>, Left' = Left
  PROVE  ServiceInv'
BY DEF ServiceInv, ObjectInv, ThreadInv, MonitorInv, ButtonInv, serviceVars

\* A step that leaves the frontends alone, while main is not creating one.
LEMMA FrontendKept ==
  ASSUME ChildInv, UNCHANGED <<platform, frontendVars>>, Left \in Nat, Left' \in Nat,
         \/ Left' = Left
         \/ Left' <= Left /\ ~Spawning /\ ~Spawning'
  PROVE  ChildInv'
<1> USE DEF frontendVars, childVars, processVars
<1>1. ProcessTypes' /\ JobInv'
  BY DEF ChildInv, ProcessTypes, JobInv, Spawning
<1>2. FrontendInv'
  <2>1. CASE Left' = Left
    BY <2>1 DEF ChildInv, FrontendInv, Spawning, Only
  <2>2. CASE Left' <= Left /\ ~Spawning /\ ~Spawning'
    <3>1. CASE Left <= 30
      BY <2>2, <3>1 DEF ChildInv, FrontendInv, Only
    <3>2. CASE Left >= 31
      <4>1. /\ ~has_child /\ child = NoProcess /\ monitor \in {"none", "top", "copy", "ended"}
            /\ Only(NoProcess)
        BY <2>2, <3>2 DEF ChildInv, FrontendInv
      <4>2. QED
        BY <2>2, <4>1 DEF FrontendInv, Only
    <3>3. QED
      BY <3>1, <3>2
  <2>3. QED
    BY <2>1, <2>2
<1>3. QED
  BY <1>1, <1>2 DEF ChildInv

\* While the backend runs, NoOrphan has nothing to say.
LEMMA StillUp ==
  ASSUME Up, UNCHANGED gone
  PROVE  NoOrphan'
BY DEF Up, NoOrphan

\* A step of main that touches neither the frontends nor the monitor.
LEMMA MainGoesOn ==
  ASSUME IInv, NEW op, NEW what, MainAt(op, what), op \notin {"create", "assign", "store"},
         what \notin {"block", "blocked"}, NEW n \in 1..Left, Skip(n),
         n = 1 \/ op = "lower", UNCHANGED <<platform, frontendVars>>
  PROVE  TodoInv' /\ Left \in Nat /\ Left' = Left - n /\ ChildInv' /\ NoOrphan'
<1>1. TodoInv' /\ Left' = Left - n /\ Left \in Nat /\ Left' \in Nat /\ Left' <= Left
  <2>1. TodoInv' /\ Left' = Left - n
    BY Advance DEF IInv
  <2>2. Left \in Nat
    BY LeftTyped DEF IInv
  <2>3. QED
    BY <2>1, <2>2
<1>2. ~Spawning /\ ~Spawning'
  <2>1. Left \in Place(op, what)
    BY Places DEF IInv
  <2>2. platform = "win32" => Left \notin {31, 32, 33}
    BY <2>1 DEF Place
  <2>3. op = "lower" => Left <= 30
    BY <2>1 DEF Place
  <2>4. QED
    BY <1>1, <2>2, <2>3 DEF Spawning
<1>3. ChildInv'
  BY <1>1, <1>2, FrontendKept DEF IInv
<1>4. NoOrphan'
  BY StillUp DEF MainAt, frontendVars
<1>5. QED
  BY <1>1, <1>3, <1>4

-----------------------------------------------------------------------------
(* The steps of main that leave the frontends alone.                       *)

\* A thread starts when what it uses stands.
LEMMA StartsThread ==
  ASSUME IInv, NEW t \in SimpleThread, StartThread(t)
  PROVE  IInv'
<1>1. TodoInv' /\ Left \in Nat /\ Left' = Left - 1 /\ ChildInv' /\ NoOrphan'
  <2>1. MainAt("start", t) /\ Skip(1) /\ UNCHANGED <<platform, frontendVars>>
    BY DEF StartThread, frontendVars, monitorVars
  <2>2. 1 \in 1..Left
    <3>1. Left \in Place("start", t) /\ Left \in Nat
      BY <2>1, Places, LeftTyped DEF IInv
    <3>2. QED
      BY <3>1 DEF Place, SimpleThread
  <2>3. t \notin {"block", "blocked"}
    BY DEF SimpleThread
  <2>4. QED
    BY <2>1, <2>2, <2>3, MainGoesOn
<1>2. /\ t = "poller" => Left = IF platform = "win32" THEN 38 ELSE 36
      /\ t = "adaptive" => Left = IF platform = "win32" THEN 37 ELSE 35
      /\ t = "transport" => Left = IF platform = "win32" THEN 34 ELSE 32
      /\ t = "dbus" => platform # "win32" /\ Left = 31
  <2>1. Left \in Place("start", t)
    BY Places DEF IInv, StartThread
  <2>2. QED
    BY <2>1 DEF Place
<1>3. /\ t \in {"poller", "adaptive", "transport", "dbus"} /\ objects' = objects \union {t}
      /\ threads' \subseteq threads \union {t}
      /\ UNCHANGED <<platform, wired, monitor, monitoring, button, polling>>
  BY DEF StartThread, SimpleThread, monitorVars, buttonVars
<1>4. ServiceInv'
  <2>1. ObjectInv'
    BY <1>1, <1>2, <1>3 DEF IInv, ServiceInv, ObjectInv
  <2>2. ThreadInv'
    BY <1>1, <1>2, <1>3 DEF IInv, ServiceInv, ObjectInv, ThreadInv
  <2>3. MonitorInv' /\ ButtonInv'
    BY <1>1, <1>2, <1>3 DEF IInv, ServiceInv, MonitorInv, ButtonInv
  <2>4. QED
    BY <2>1, <2>2, <2>3 DEF ServiceInv
<1>5. Types'
  <2>1. t \in Object /\ t \in SimpleThread
    BY DEF Object, SimpleThread, Declared
  <2>2. objects' \subseteq Object /\ threads' \subseteq SimpleThread
    BY <1>3, <2>1 DEF IInv, Types, PlaceTypes
  <2>3. QED
    BY <2>2 DEF IInv, Types, FlagTypes, PlaceTypes, StartThread, monitorVars, childVars, buttonVars,
                quitVars
<1>6. QED
  BY <1>1, <1>4, <1>5 DEF IInv

\* A thread is stopped before what it uses is destroyed.
LEMMA StopsThread ==
  ASSUME IInv, NEW t \in SimpleThread, StopThread(t)
  PROVE  IInv'
<1>1. /\ t = "poller" => Left \in {20, 4}
      /\ t = "adaptive" => Left \in {21, 7}
      /\ t = "transport" => Left \in {27, 17}
      /\ t = "dbus" => Left \in {28, 19}
  <2>1. Left \in Place("stop", t)
    BY Places DEF IInv, StopThread
  <2>2. QED
    BY <2>1 DEF Place
<1>2. /\ t \in {"poller", "adaptive", "transport", "dbus"} /\ threads' = threads \ {t}
      /\ UNCHANGED <<platform, objects, wired, monitor, monitoring, button, polling>>
  BY DEF StopThread, SimpleThread, monitorVars, buttonVars
<1>3. TodoInv' /\ Left \in Nat /\ Left' = Left - 1 /\ ChildInv' /\ NoOrphan'
  <2>1. MainAt("stop", t) /\ Skip(1) /\ UNCHANGED <<platform, frontendVars>>
    BY DEF StopThread, frontendVars, monitorVars
  <2>2. 1 \in 1..Left /\ t \notin {"block", "blocked"}
    BY <1>1, <1>2
  <2>3. QED
    BY <2>1, <2>2, MainGoesOn
<1>4. ServiceInv'
  <2>1. ObjectInv'
    BY <1>1, <1>2, <1>3 DEF IInv, ServiceInv, ObjectInv
  <2>2. ThreadInv'
    BY <1>1, <1>2, <1>3 DEF IInv, ServiceInv, ThreadInv
  <2>3. MonitorInv' /\ ButtonInv'
    BY <1>1, <1>2, <1>3 DEF IInv, ServiceInv, MonitorInv, ButtonInv
  <2>4. QED
    BY <2>1, <2>2, <2>3 DEF ServiceInv
<1>5. Types'
  BY <1>2 DEF IInv, Types, FlagTypes, PlaceTypes, StopThread, monitorVars, childVars, buttonVars,
              quitVars
<1>6. QED
  BY <1>3, <1>4, <1>5 DEF IInv

\* An object is destroyed when nothing that uses it runs.
LEMMA Destroys ==
  ASSUME IInv, NEW o \in Object, Destroy(o)
  PROVE  IInv'
<1>1. /\ o = "dbus" => Left = 18
      /\ o = "transport" => Left = 16
      /\ o = "tray" => Left = 15
      /\ o = "process_mgr" => Left = 11
      /\ o = "button" => Left = 8
      /\ o = "adaptive" => Left = 6
      /\ o = "power" => Left = 5
      /\ o = "poller" => Left = 3
      /\ o = "tdp" => Left = 2
      /\ o = "fan" => Left = 1
  <2>1. Left \in Place("destroy", o)
    BY Places DEF IInv, Destroy
  <2>2. QED
    BY <2>1 DEF Place
<1>2. /\ o \in {"dbus", "transport", "tray", "process_mgr", "button", "adaptive", "power", "poller",
                "tdp", "fan"}
      /\ objects' = objects \ {o}
      /\ UNCHANGED <<platform, threads, wired, monitor, monitoring, button, polling>>
  BY DEF Destroy, Object, Declared, monitorVars, buttonVars
<1>3. TodoInv' /\ Left \in Nat /\ Left' = Left - 1 /\ ChildInv' /\ NoOrphan'
  <2>1. MainAt("destroy", o) /\ Skip(1) /\ UNCHANGED <<platform, frontendVars>>
    BY DEF Destroy, frontendVars, monitorVars
  <2>2. 1 \in 1..Left /\ o \notin {"block", "blocked"}
    BY <1>1, <1>2
  <2>3. QED
    BY <2>1, <2>2, MainGoesOn
<1>4. ServiceInv'
  <2>1. ObjectInv'
    BY <1>1, <1>2, <1>3 DEF IInv, ServiceInv, ObjectInv
  <2>2. ThreadInv'
    BY <1>1, <1>2, <1>3 DEF IInv, ServiceInv, ThreadInv
  <2>3. MonitorInv' /\ ButtonInv'
    BY <1>1, <1>2, <1>3 DEF IInv, ServiceInv, MonitorInv, ButtonInv
  <2>4. QED
    BY <2>1, <2>2, <2>3 DEF ServiceInv
<1>5. Types'
  BY <1>2 DEF IInv, Types, FlagTypes, PlaceTypes, Destroy, monitorVars, childVars, buttonVars,
              quitVars
<1>6. QED
  BY <1>3, <1>4, <1>5 DEF IInv

\* The callbacks are wired while the button thread is not in one.
LEMMA Wires ==
  ASSUME IInv, WireCallbacks
  PROVE  IInv'
<1>1. Left = 30
  BY Places DEF IInv, WireCallbacks, Place
<1>2. TodoInv' /\ Left' = 29 /\ ChildInv' /\ NoOrphan'
  <2>1. /\ MainAt("wire", "callbacks") /\ Skip(1) /\ UNCHANGED <<platform, frontendVars>>
        /\ 1 \in 1..Left
    BY <1>1 DEF WireCallbacks, frontendVars, monitorVars
  <2>2. TodoInv' /\ Left' = Left - 1 /\ ChildInv' /\ NoOrphan'
    BY <2>1, MainGoesOn
  <2>3. QED
    BY <1>1, <2>2
<1>3. ServiceInv'
  <2>1. wired' = TRUE /\ button # "callback"
        /\ UNCHANGED <<platform, objects, threads, monitor, monitoring, button, polling>>
    BY DEF WireCallbacks, monitorVars, buttonVars
  <2>2. ObjectInv' /\ ThreadInv' /\ MonitorInv'
    BY <1>1, <1>2, <2>1 DEF IInv, ServiceInv, ObjectInv, ThreadInv, MonitorInv
  <2>3. ButtonInv'
    BY <1>1, <1>2, <2>1 DEF IInv, ServiceInv, ButtonInv
  <2>4. QED
    BY <2>2, <2>3 DEF ServiceInv
<1>4. Types'
  BY DEF IInv, Types, FlagTypes, PlaceTypes, WireCallbacks, monitorVars, childVars, buttonVars,
         quitVars
<1>5. QED
  BY <1>2, <1>3, <1>4 DEF IInv

\* An exception leaves the startup at a step before the callbacks are wired.
LEMMA Unwinds ==
  ASSUME IInv, Throws
  PROVE  IInv'
<1>1. PICK op, what : op \in {"start", "create"} /\ MainAt(op, what)
  <2>1. Head(todo)[1] \in {"start", "create"} /\ Up /\ ~hung /\ todo # <<>>
    BY DEF Throws
  <2>2. todo = Rest(platform, Left) /\ platform \in {"win32", "linux"} /\ Left \in 0..Len(Plan(platform))
    <3>1. CASE \E place \in {"block", "blocked"} : todo = <<<<"loop", place>>>> \o Shutdown \o Unwind
      BY <2>1, <3>1 DEF Shutdown, Unwind, StopMonitor, StopButton
    <3>2. QED
      BY <3>1 DEF IInv, TodoInv
  <2>3. Left \in 1..Len(Plan(platform))
    BY <2>1, <2>2, SharedEnd, PlanTyped
  <2>4. Head(todo) = Plan(platform)[Len(Plan(platform)) - Left + 1]
    BY <2>2, <2>3, RestOf
  <2>5. Len(Plan(platform)) = IF platform = "win32" THEN 38 ELSE 36
    BY <2>2, PlanTyped
  <2>6. Plan(platform)[Len(Plan(platform)) - Left + 1] \in Step
    <3>1. Left \in 1..(IF platform = "win32" THEN 38 ELSE 36)
      BY <2>3, <2>5
    <3>2. Len(Plan(platform)) - Left + 1 \in 1..Len(Plan(platform))
      BY ONLY <2>5, <3>1
    <3>3. QED
      BY <2>2, <3>2, PlanTyped, ElementOfSeq
  <2>7. PICK op, what : Head(todo) = <<op, what>> /\ op \in {"start", "create"}
    BY <2>1, <2>4, <2>6 DEF Step
  <2>8. QED
    BY <2>1, <2>7 DEF MainAt
<1>2. Left >= 31 /\ ~Spawning
  <2>1. Left \in Place(op, what)
    BY <1>1, Places DEF IInv
  <2>2. QED
    BY <1>1, <2>1 DEF Place, Spawning
<1>3. TodoInv' /\ Left' = 19
  BY Thrown DEF IInv, Throws
<1>4. Left \in Nat /\ ChildInv'
  <2>1. Left \in Nat
    BY LeftTyped DEF IInv
  <2>2. Left' <= Left /\ ~Spawning' /\ UNCHANGED <<platform, frontendVars>>
    BY <1>2, <1>3, <2>1 DEF Throws, frontendVars, monitorVars, Spawning
  <2>3. QED
    BY <1>2, <1>3, <2>1, <2>2, FrontendKept DEF IInv
<1>5. ServiceInv'
  <2>1. UNCHANGED <<platform, objects, threads, wired, monitor, monitoring, button, polling>>
    BY DEF Throws, monitorVars, buttonVars
  <2>2. ObjectInv'
    BY <1>2, <1>3, <1>4, <2>1 DEF IInv, ServiceInv, ObjectInv
  <2>3. ThreadInv'
    BY <1>2, <1>3, <1>4, <2>1 DEF IInv, ServiceInv, ThreadInv
  <2>4. MonitorInv' /\ ButtonInv'
    BY <1>2, <1>3, <1>4, <2>1 DEF IInv, ServiceInv, MonitorInv, ButtonInv
  <2>5. QED
    BY <2>2, <2>3, <2>4 DEF ServiceInv
<1>6. Types' /\ NoOrphan'
  BY StillUp DEF IInv, Types, FlagTypes, PlaceTypes, Throws, monitorVars, childVars, buttonVars,
                 quitVars
<1>7. QED
  BY <1>3, <1>4, <1>5, <1>6 DEF IInv

-----------------------------------------------------------------------------
(* main starts and stops the monitor and the button thread.                *)

\* The button thread is started before the callbacks are wired.
LEMMA StartsButton ==
  ASSUME IInv, StartButton
  PROVE  IInv'
<1>1. Left = IF platform = "win32" THEN 36 ELSE 34
  BY Places DEF IInv, StartButton, Place
<1>2. TodoInv' /\ Left \in Nat /\ Left' = Left - 1 /\ ChildInv' /\ NoOrphan'
  <2>1. MainAt("start", "button") /\ Skip(1) /\ UNCHANGED <<platform, frontendVars>>
    BY DEF StartButton, frontendVars, monitorVars
  <2>2. 1 \in 1..Left
    BY ONLY <1>1
  <2>3. QED
    BY <2>1, <2>2, MainGoesOn
<1>3. ServiceInv'
  <2>1. /\ polling' = TRUE /\ button' = "poll"
        /\ UNCHANGED <<platform, objects, threads, wired, monitor, monitoring>>
    BY DEF StartButton, monitorVars
  <2>2. ObjectInv' /\ ThreadInv' /\ MonitorInv'
    BY <1>1, <1>2, <2>1 DEF IInv, ServiceInv, ObjectInv, ThreadInv, MonitorInv
  <2>3. ButtonInv'
    BY <1>1, <1>2, <2>1 DEF IInv, ServiceInv, ButtonInv
  <2>4. QED
    BY <2>2, <2>3 DEF ServiceInv
<1>4. Types'
  BY DEF IInv, Types, FlagTypes, PlaceTypes, StartButton, monitorVars, childVars, quitVars
<1>5. QED
  BY <1>2, <1>3, <1>4 DEF IInv

\* running_ of the button monitor is lowered, or has been: then the join is skipped.
LEMMA LowersPolling ==
  ASSUME IInv, LowerPolling
  PROVE  IInv'
<1>1. Left \in {23, 10}
  BY Places DEF IInv, LowerPolling, Place
<1>2. PICK n \in {1, 2} : Skip(n) /\ (n = 1 <=> polling)
  BY DEF LowerPolling, IInv, Types, FlagTypes
<1>3. TodoInv' /\ Left' = Left - n /\ ChildInv' /\ NoOrphan'
  <2>1. MainAt("lower", "button") /\ UNCHANGED <<platform, frontendVars>>
    BY DEF LowerPolling, frontendVars, monitorVars
  <2>2. n \in 1..Left
    BY <1>1, <1>2
  <2>3. QED
    BY <1>2, <2>1, <2>2, MainGoesOn
<1>4. ServiceInv'
  <2>1. polling' = FALSE /\ UNCHANGED <<platform, objects, threads, wired, monitor, monitoring, button>>
    BY DEF LowerPolling, monitorVars
  <2>2. ObjectInv' /\ ThreadInv' /\ MonitorInv'
    BY <1>1, <1>2, <1>3, <2>1 DEF IInv, ServiceInv, ObjectInv, ThreadInv, MonitorInv
  <2>3. ButtonInv'
    <3>1. polling \in BOOLEAN
      BY DEF IInv, Types, FlagTypes
    <3>2. QED
      BY <1>1, <1>2, <1>3, <2>1, <3>1 DEF IInv, ServiceInv, ButtonInv
  <2>4. QED
    BY <2>2, <2>3 DEF ServiceInv
<1>5. Types'
  <2>1. FlagTypes'
    BY Zenon DEF IInv, Types, FlagTypes, LowerPolling, monitorVars, childVars, buttonVars, quitVars
  <2>2. PlaceTypes'
    BY DEF IInv, Types, PlaceTypes, LowerPolling, monitorVars, childVars, buttonVars, quitVars
  <2>3. QED
    BY <2>1, <2>2 DEF Types
<1>6. QED
  BY <1>3, <1>4, <1>5 DEF IInv

\* The join waits for the button thread to end.
LEMMA JoinsButton ==
  ASSUME IInv, JoinButton
  PROVE  IInv'
<1>1. Left \in {22, 9}
  BY Places DEF IInv, JoinButton, Place
<1>2. TodoInv' /\ Left' = Left - 1 /\ ChildInv' /\ NoOrphan'
  <2>1. MainAt("join", "button") /\ Skip(1) /\ UNCHANGED <<platform, frontendVars>> /\ 1 \in 1..Left
    BY <1>1 DEF JoinButton, frontendVars, monitorVars
  <2>2. QED
    BY <2>1, MainGoesOn
<1>3. ServiceInv'
  <2>1. /\ button = "ended"
        /\ UNCHANGED <<platform, objects, threads, wired, monitor, monitoring, button, polling>>
    BY DEF JoinButton, monitorVars, buttonVars
  <2>2. ObjectInv' /\ ThreadInv' /\ MonitorInv'
    BY <1>1, <1>2, <2>1 DEF IInv, ServiceInv, ObjectInv, ThreadInv, MonitorInv
  <2>3. ButtonInv'
    BY <1>1, <1>2, <2>1 DEF IInv, ServiceInv, ButtonInv
  <2>4. QED
    BY <2>2, <2>3 DEF ServiceInv
<1>4. Types'
  BY DEF IInv, Types, FlagTypes, PlaceTypes, JoinButton, monitorVars, childVars, buttonVars, quitVars
<1>5. QED
  BY <1>2, <1>3, <1>4 DEF IInv

\* stop_monitor goes on to its join, or skips it: then no monitor runs.
LEMMA LowersRunning ==
  ASSUME IInv, LowerRunning
  PROVE  IInv'
<1>1. Left \in {26, 14}
  BY Places DEF IInv, LowerRunning, Place
<1>2. PICK n \in {1, 3} : Skip(n) /\ (n = 1 <=> monitoring)
  BY DEF LowerRunning, IInv, Types, FlagTypes
<1>3. TodoInv' /\ Left' = Left - n /\ ChildInv' /\ NoOrphan'
  <2>1. MainAt("lower", "monitor") /\ UNCHANGED <<platform, frontendVars>>
    BY DEF LowerRunning, frontendVars
  <2>2. n \in 1..Left
    BY <1>1, <1>2
  <2>3. QED
    BY <1>2, <2>1, <2>2, MainGoesOn
<1>4. ServiceInv'
  <2>1. UNCHANGED <<platform, objects, threads, wired, monitor, monitoring, button, polling>>
    BY DEF LowerRunning, buttonVars
  <2>2. ObjectInv' /\ ThreadInv'
    BY <1>1, <1>2, <1>3, <2>1 DEF IInv, ServiceInv, ObjectInv, ThreadInv
  <2>3. MonitorInv'
    BY <1>1, <1>2, <1>3, <2>1 DEF IInv, ServiceInv, MonitorInv
  <2>4. ButtonInv'
    BY <1>1, <1>2, <1>3, <2>1 DEF IInv, ServiceInv, ButtonInv
  <2>5. QED
    BY <2>2, <2>3, <2>4 DEF ServiceInv
<1>5. Types'
  <2>1. FlagTypes'
    BY Zenon DEF IInv, Types, FlagTypes, LowerRunning, monitorVars, childVars, buttonVars, quitVars
  <2>2. PlaceTypes'
    BY DEF IInv, Types, PlaceTypes, LowerRunning, monitorVars, childVars, buttonVars, quitVars
  <2>3. QED
    BY <2>1, <2>2 DEF Types
<1>6. QED
  BY <1>3, <1>4, <1>5 DEF IInv

\* The join waits for the monitor to end.
LEMMA JoinsMonitor ==
  ASSUME IInv, JoinMonitor
  PROVE  IInv'
<1>1. Left \in {24, 12}
  BY Places DEF IInv, JoinMonitor, Place
<1>2. TodoInv' /\ Left' = Left - 1 /\ ChildInv' /\ NoOrphan'
  <2>1. MainAt("join", "monitor") /\ Skip(1) /\ UNCHANGED <<platform, frontendVars>> /\ 1 \in 1..Left
    BY <1>1 DEF JoinMonitor, frontendVars
  <2>2. QED
    BY <2>1, MainGoesOn
<1>3. ServiceInv'
  <2>1. /\ monitor = "ended"
        /\ UNCHANGED <<platform, objects, threads, wired, monitor, button, polling>>
    BY DEF JoinMonitor, buttonVars
  <2>2. ObjectInv' /\ ThreadInv' /\ MonitorInv'
    BY <1>1, <1>2, <2>1 DEF IInv, ServiceInv, ObjectInv, ThreadInv, MonitorInv
  <2>3. ButtonInv'
    BY <1>1, <1>2, <2>1 DEF IInv, ServiceInv, ButtonInv
  <2>4. QED
    BY <2>2, <2>3 DEF ServiceInv
<1>4. Types'
  <2>1. FlagTypes'
    BY Zenon DEF IInv, Types, FlagTypes, JoinMonitor, monitorVars, childVars, buttonVars, quitVars
  <2>2. PlaceTypes'
    BY DEF IInv, Types, PlaceTypes, JoinMonitor, monitorVars, childVars, buttonVars, quitVars
  <2>3. QED
    BY <2>1, <2>2 DEF Types
<1>5. QED
  BY <1>2, <1>3, <1>4 DEF IInv

\* The monitor starts before main has created a frontend.
LEMMA StartsMonitor ==
  ASSUME IInv, start_monitor
  PROVE  IInv'
<1>1. Left = IF platform = "win32" THEN 35 ELSE 33
  BY Places DEF IInv, start_monitor, Place
<1>2. TodoInv' /\ Left' = Left - 1 /\ NoOrphan'
  <2>1. MainAt("start", "monitor") /\ Skip(1) /\ UNCHANGED <<platform, gone>>
    BY DEF start_monitor
  <2>2. 1 \in 1..Left
    BY ONLY <1>1
  <2>3. TodoInv' /\ Left' = Left - 1
    BY <2>1, <2>2, Advance DEF IInv
  <2>4. QED
    BY <2>1, <2>3, StillUp DEF MainAt
<1>3. /\ monitoring' = TRUE /\ monitor' = "top"
      /\ UNCHANGED <<platform, objects, threads, wired, gone, copy, childVars, spawned, processVars,
                     button, polling>>
  BY DEF start_monitor, buttonVars
<1>4. Left \in {33, 35} /\ Left' >= 32 /\ ~Spawning /\ ~Spawning' /\ platform' = platform
  BY <1>1, <1>2, <1>3 DEF Spawning
<1>5. ServiceInv'
  <2>1. ObjectInv' /\ ThreadInv' /\ MonitorInv'
    BY <1>1, <1>2, <1>3 DEF IInv, ServiceInv, ObjectInv, ThreadInv, MonitorInv
  <2>2. ButtonInv'
    BY <1>1, <1>2, <1>3 DEF IInv, ServiceInv, ButtonInv
  <2>3. QED
    BY <2>1, <2>2 DEF ServiceInv
<1>6. ChildInv'
  <2>1. FrontendInv'
    BY <1>3, <1>4 DEF IInv, ChildInv, FrontendInv, Only, childVars, processVars
  <2>2. JobInv'
    <3>1. \A p \in Process : proc[p] # "alive"
      BY <1>4, ProcessAssumption DEF IInv, ChildInv, FrontendInv, Only
    <3>2. QED
      BY <1>3, <3>1 DEF JobInv, processVars
  <2>3. ProcessTypes'
    BY <1>3, <1>4 DEF IInv, ChildInv, ProcessTypes, childVars, processVars
  <2>4. QED
    BY <2>1, <2>2, <2>3 DEF ChildInv
<1>7. Types'
  BY DEF IInv, Types, FlagTypes, PlaceTypes, start_monitor, childVars, buttonVars, quitVars
<1>8. QED
  BY <1>2, <1>5, <1>6, <1>7 DEF IInv

-----------------------------------------------------------------------------
(* The steps of main that create and end a frontend.                       *)

\* What creates a process, or moves it on, changes no service.
LEMMA ServicesStand ==
  ASSUME IInv, Left \in {25, 13} \/ (platform = "win32" /\ Left \in {31, 32, 33}), Left' <= Left, Left' \in Nat,
         Left - Left' = 1 \/ Left = 33,  Left' >= Left - 3,
         UNCHANGED <<platform, serviceVars>>
  PROVE  ServiceInv'
<1>1. ObjectInv' /\ ThreadInv' /\ MonitorInv'
  BY DEF IInv, ServiceInv, ObjectInv, ThreadInv, MonitorInv, serviceVars
<1>2. ButtonInv'
  BY DEF IInv, ServiceInv, ButtonInv, serviceVars
<1>3. QED
  BY <1>1, <1>2 DEF ServiceInv

\* main creates a frontend when there is none, or fails to.
LEMMA MainCreatesOne ==
  ASSUME IInv, MainCreates
  PROVE  IInv'
<1>1. Left = 33 /\ platform = "win32" /\ platform' = platform
  <2>1. Left \in Place("create", "child")
    BY Places DEF IInv, MainCreates
  <2>2. QED
    BY <2>1 DEF Place, MainCreates
<1>2. PICK n \in {1, 3} :
        /\ Skip(n)
        /\ n = 3 => UNCHANGED <<spawned, processVars>>
        /\ n = 1 => \E p \in Process : CreateChild("main", p)
  BY DEF MainCreates
<1>3. TodoInv' /\ Left' = 33 - n /\ ~Spawning /\ (Spawning' <=> n = 1)
  <2>1. TodoInv' /\ Left' = Left - n
    <3>1. n \in 1..Left /\ MainAt("create", "child") /\ platform' = platform
      BY <1>1 DEF MainCreates
    <3>2. QED
      BY <1>2, <3>1, Advance DEF IInv
  <2>2. QED
    BY <1>1, <1>2, <2>1 DEF Spawning
<1>4. UNCHANGED <<objects, threads, wired, gone, monitorVars, childVars, buttonVars, quitVars>>
  BY DEF MainCreates
<1>5. /\ \A p \in Process : proc[p] # "alive"
      /\ ~has_child /\ child = NoProcess /\ monitor \in {"none", "top", "copy", "ended"}
  BY <1>1, <1>3, ProcessAssumption DEF IInv, ChildInv, FrontendInv, Only
<1>6. ServiceInv'
  <2>1. Left' \in Nat /\ Left' <= Left /\ (Left - Left' = 1 \/ Left = 33) /\ Left' >= Left - 3
    BY <1>1, <1>2, <1>3
  <2>2. UNCHANGED <<platform, serviceVars>>
    BY <1>1, <1>4 DEF serviceVars, monitorVars, buttonVars
  <2>3. QED
    BY <1>1, <2>1, <2>2, ServicesStand
<1>7. ChildInv'
  <2>1. CASE n = 3
    <3>1. UNCHANGED <<platform, frontendVars>> /\ Left \in Nat /\ Left' \in Nat /\ Left' <= Left
      BY <1>1, <1>2, <1>3, <1>4, <2>1 DEF frontendVars, monitorVars
    <3>2. QED
      BY <1>3, <2>1, <3>1, FrontendKept DEF IInv
  <2>2. CASE n = 1
    <3>1. PICK p \in Process : CreateChild("main", p)
      BY <1>2, <2>2
    <3>2. /\ proc \in [Process -> {"unborn", "alive", "dead"}]
          /\ spawned \in [{"main", "monitor"} -> Process \union {NoProcess}]
          /\ handle \in [Process -> {"none", "open", "closed"}]
          /\ job \subseteq Process /\ refused \subseteq Process
          /\ child \in Process \union {NoProcess} /\ copy \in Process \union {NoProcess}
      BY DEF IInv, ChildInv, ProcessTypes
    <3>3. /\ proc' = [proc EXCEPT ![p] = "alive"] /\ spawned' = [spawned EXCEPT !["main"] = p]
          /\ handle' = [handle EXCEPT ![p] = "open"] /\ job' \in {job, job \union {p}}
          /\ refused' = refused
      BY <3>1 DEF CreateChild
    <3>4. spawned'["main"] = p /\ Only(p)'
      BY <1>5, <3>2, <3>3 DEF Only
    <3>5. UNCHANGED <<monitor, has_child, child, copy>>
      BY <1>4 DEF monitorVars, childVars
    <3>6. FrontendInv'
      BY <1>3, <1>5, <2>2, <3>4, <3>5 DEF FrontendInv
    <3>7. JobInv'
      BY <1>3, <2>2, <3>4 DEF JobInv, Only
    <3>8. ProcessTypes'
      BY <1>5, <3>2, <3>3, <3>4, <3>5 DEF ProcessTypes
    <3>9. QED
      BY <3>6, <3>7, <3>8 DEF ChildInv
  <2>3. QED
    BY <1>2, <2>1, <2>2
<1>8. Types' /\ NoOrphan'
  <2>1. Types'
    BY <1>1, <1>4 DEF IInv, Types, FlagTypes, PlaceTypes, monitorVars, childVars, buttonVars, quitVars
  <2>2. QED
    BY <1>4, <2>1, StillUp DEF MainCreates, MainAt
<1>9. QED
  BY <1>3, <1>6, <1>7, <1>8 DEF IInv

\* The frontend that an assignment finds alive is in the job or refused from then on.
LEMMA Assigned ==
  ASSUME NEW by, AssignChild(by), job \subseteq Process, refused \subseteq Process
  PROVE  /\ job \subseteq job' /\ job' \subseteq Process /\ refused' \subseteq Process
         /\ refused \subseteq refused'
         /\ \A p \in Process : p = spawned[by] /\ proc[p] = "alive" => p \in job' \/ p \in refused'
  BY DEF AssignChild

\* The job takes or refuses the frontend that main has created.
LEMMA MainAssignsIt ==
  ASSUME IInv, MainAssigns
  PROVE  IInv'
<1>1. Left = 32 /\ platform = "win32" /\ platform' = platform
  <2>1. Left \in Place("assign", "child")
    BY Places DEF IInv, MainAssigns
  <2>2. QED
    BY <2>1 DEF Place, MainAssigns
<1>2. TodoInv' /\ Left' = 31 /\ Spawning /\ Spawning'
  <2>1. 1 \in 1..Left /\ MainAt("assign", "child") /\ Skip(1) /\ platform' = platform
    BY <1>1 DEF MainAssigns
  <2>2. TodoInv' /\ Left' = Left - 1
    BY <2>1, Advance DEF IInv
  <2>3. QED
    BY <1>1, <2>2 DEF Spawning
<1>3. /\ UNCHANGED <<objects, threads, wired, gone, monitorVars, childVars, spawned, proc, handle,
                     buttonVars, quitVars>>
      /\ job' \subseteq Process /\ refused' \subseteq Process
      /\ \A p \in Process : p = spawned["main"] /\ proc[p] = "alive" => p \in job' \/ p \in refused'
  BY Assigned DEF MainAssigns, IInv, ChildInv, ProcessTypes
<1>4. ServiceInv'
  <2>1. Left' \in Nat /\ Left' <= Left /\ (Left - Left' = 1 \/ Left = 33) /\ Left' >= Left - 3
    BY <1>1, <1>2
  <2>2. UNCHANGED <<platform, serviceVars>>
    BY <1>1, <1>3 DEF serviceVars, monitorVars, buttonVars
  <2>3. QED
    BY <1>1, <2>1, <2>2, ServicesStand
<1>5. ChildInv'
  <2>1. FrontendInv'
    BY <1>1, <1>2, <1>3 DEF IInv, ChildInv, FrontendInv, Only, monitorVars, childVars
  <2>2. JobInv'
    <3>1. \A p \in Process : proc[p] = "alive" => p \in job' \/ p \in refused'
      BY <1>1, <1>2, <1>3 DEF IInv, ChildInv, FrontendInv, Only
    <3>2. QED
      BY <1>3, <3>1 DEF JobInv
  <2>3. ProcessTypes'
    BY <1>2, <1>3 DEF IInv, ChildInv, ProcessTypes, monitorVars, childVars
  <2>4. QED
    BY <2>1, <2>2, <2>3 DEF ChildInv
<1>6. Types' /\ NoOrphan'
  <2>1. Types'
    BY <1>1, <1>3 DEF IInv, Types, FlagTypes, PlaceTypes, monitorVars, childVars, buttonVars, quitVars
  <2>2. QED
    BY <1>3, <2>1, StillUp DEF MainAssigns, MainAt
<1>7. QED
  BY <1>2, <1>4, <1>5, <1>6 DEF IInv

\* That frontend becomes the child.
LEMMA MainStoresIt ==
  ASSUME IInv, MainStores
  PROVE  IInv'
<1>1. Left = 31 /\ platform = "win32" /\ platform' = platform
  <2>1. Left \in Place("store", "child")
    BY Places DEF IInv, MainStores
  <2>2. QED
    BY <2>1 DEF Place, MainStores
<1>2. TodoInv' /\ Left' = 30 /\ Spawning /\ ~Spawning'
  <2>1. 1 \in 1..Left /\ MainAt("store", "child") /\ Skip(1) /\ platform' = platform
    BY <1>1 DEF MainStores
  <2>2. TodoInv' /\ Left' = Left - 1
    BY <2>1, Advance DEF IInv
  <2>3. QED
    BY <1>1, <2>2 DEF Spawning
<1>3. /\ UNCHANGED <<objects, threads, wired, gone, monitorVars, processVars, buttonVars, quitVars>>
      /\ child' = spawned["main"] /\ has_child' = TRUE
      /\ spawned' = [spawned EXCEPT !["main"] = NoProcess]
  BY DEF MainStores, StoreChild
<1>4. ServiceInv'
  <2>1. Left' \in Nat /\ Left' <= Left /\ (Left - Left' = 1 \/ Left = 33) /\ Left' >= Left - 3
    BY <1>1, <1>2
  <2>2. UNCHANGED <<platform, serviceVars>>
    BY <1>1, <1>3 DEF serviceVars, monitorVars, buttonVars
  <2>3. QED
    BY <1>1, <2>1, <2>2, ServicesStand
<1>5. ChildInv'
  <2>1. monitor \in {"none", "top", "copy", "ended"} /\ Only(spawned["main"])
    BY <1>1, <1>2 DEF IInv, ChildInv, FrontendInv
  <2>2. FrontendInv'
    BY <1>2, <1>3, <2>1 DEF FrontendInv, Only, monitorVars, processVars
  <2>3. JobInv'
    BY <1>1, <1>3, <2>1 DEF IInv, ChildInv, JobInv, monitorVars, processVars
  <2>4. ProcessTypes'
    BY <1>2, <1>3, <2>1 DEF IInv, ChildInv, ProcessTypes, monitorVars, processVars
  <2>5. QED
    BY <2>2, <2>3, <2>4 DEF ChildInv
<1>6. Types' /\ NoOrphan'
  <2>1. Types'
    BY <1>1, <1>3 DEF IInv, Types, FlagTypes, PlaceTypes, monitorVars, buttonVars, quitVars
  <2>2. QED
    BY <1>3, <2>1, StillUp DEF MainStores, MainAt
<1>7. QED
  BY <1>2, <1>4, <1>5, <1>6 DEF IInv

\* stop_monitor ends the child, whatever the monitor makes of it.
LEMMA TerminatesChild ==
  ASSUME IInv, TerminateChild
  PROVE  IInv'
<1>1. Left \in {25, 13} /\ platform' = platform
  BY Places DEF IInv, TerminateChild, Place
<1>2. TodoInv' /\ Left' = Left - 1 /\ ~Spawning /\ ~Spawning'
  <2>1. 1 \in 1..Left /\ MainAt("terminate", "child") /\ Skip(1) /\ platform' = platform
    BY <1>1 DEF TerminateChild
  <2>2. TodoInv' /\ Left' = Left - 1
    BY <2>1, Advance DEF IInv
  <2>3. QED
    BY <1>1, <2>2 DEF Spawning
<1>3. UNCHANGED <<objects, threads, wired, gone, monitorVars, spawned, buttonVars, quitVars>>
  BY DEF TerminateChild
<1>4. ServiceInv'
  <2>1. Left' \in Nat /\ Left' <= Left /\ (Left - Left' = 1 \/ Left = 33) /\ Left' >= Left - 3
    BY <1>1, <1>2
  <2>2. UNCHANGED <<platform, serviceVars>>
    BY <1>1, <1>3 DEF serviceVars, monitorVars, buttonVars
  <2>3. Left \in {25, 13} \/ (platform = "win32" /\ Left \in {31, 32, 33})
    BY ONLY <1>1
  <2>4. QED
    BY <2>1, <2>2, <2>3, ServicesStand
<1>5. ChildInv'
  <2>1. CASE UNCHANGED <<processVars, childVars>>
    <3>1. UNCHANGED <<platform, frontendVars>> /\ Left \in Nat /\ Left' \in Nat /\ Left' <= Left
      BY <1>1, <1>2, <1>3, <2>1 DEF frontendVars, monitorVars, processVars
    <3>2. QED
      BY <1>2, <3>1, FrontendKept DEF IInv
  <2>2. CASE has_child /\ terminate_process /\ has_child' = FALSE
    <3>1. ProcessTypes
      BY DEF IInv, ChildInv
    <3>2. /\ child' = NoProcess
          /\ \A p \in Process : proc'[p] = IF p = child THEN "dead" ELSE proc[p]
          /\ job' = job \ {child} /\ refused' = refused \ {child}
      <4>1. CASE child = NoProcess
        BY <2>2, <3>1, <4>1, ProcessAssumption DEF terminate_process, ProcessTypes, processVars
      <4>2. CASE child # NoProcess
        BY <2>2, <3>1, <4>2 DEF terminate_process, Dies, ProcessTypes
      <4>3. QED
        BY <4>1, <4>2
    <3>3. FrontendInv'
      BY <1>1, <1>2, <1>3, <3>2 DEF IInv, ChildInv, FrontendInv, Only, monitorVars
    <3>4. JobInv'
      BY <1>1, <1>2, <1>3, <3>2 DEF IInv, ChildInv, JobInv, monitorVars
    <3>5. ProcessTypes'
      BY <1>2, <1>3, <2>2, <3>1, <3>2 DEF ProcessTypes, terminate_process, Dies, processVars, monitorVars
    <3>6. QED
      BY <3>3, <3>4, <3>5 DEF ChildInv
  <2>3. QED
    BY <2>1, <2>2 DEF TerminateChild
<1>6. Types' /\ NoOrphan'
  <2>1. has_child' \in BOOLEAN
    BY DEF TerminateChild, IInv, Types, FlagTypes, childVars
  <2>2. Types'
    BY <1>1, <1>3, <2>1 DEF IInv, Types, FlagTypes, PlaceTypes, monitorVars, buttonVars, quitVars
  <2>3. QED
    BY <1>3, <2>2, StillUp DEF TerminateChild, MainAt
<1>7. QED
  BY <1>2, <1>4, <1>5, <1>6 DEF IInv

-----------------------------------------------------------------------------
(* The monitor's steps.                                                    *)

\* A step of the monitor changes no service, and leaves it a thread to be joined.
LEMMA MonitorMoves ==
  ASSUME IInv, Up, monitor \notin {"none", "ended"}, monitor' # "none", MonitorOnly
  PROVE  /\ TodoInv' /\ Left' = Left /\ (Spawning' <=> Spawning) /\ ServiceInv' /\ NoOrphan'
         /\ UNCHANGED gone
<1>1. UNCHANGED <<platform, todo, objects, threads, wired, gone, monitoring, button, polling>>
  BY DEF MonitorOnly, mainVars, buttonVars
<1>2. TodoInv' /\ Left' = Left /\ (Spawning' <=> Spawning)
  BY <1>1, Stays DEF IInv
<1>3. ObjectInv' /\ ThreadInv' /\ MonitorInv'
  BY <1>1, <1>2 DEF IInv, ServiceInv, ObjectInv, ThreadInv, MonitorInv
<1>4. ButtonInv'
  BY <1>1, <1>2 DEF IInv, ServiceInv, ButtonInv
<1>5. QED
  BY <1>1, <1>2, <1>3, <1>4, StillUp DEF ServiceInv

\* The monitor's steps keep the types.
LEMMA MonitorTypes ==
  ASSUME IInv, MonitorOnly, has_child' \in BOOLEAN,
         monitor' \in {"none", "top", "copy", "wait", "exited", "failed", "reap", "give_up", "delay",
                       "create", "assign", "store", "ended"}
  PROVE  Types'
<1>1. FlagTypes'
  BY DEF IInv, Types, FlagTypes, MonitorOnly, mainVars, buttonVars, quitVars
<1>2. PlaceTypes'
  BY DEF IInv, Types, PlaceTypes, MonitorOnly, mainVars, buttonVars, quitVars
<1>3. QED
  BY <1>1, <1>2 DEF Types

\* What holds while the monitor is at work: main has come past its own creation
\* unless the monitor is still before its first wait.
LEMMA MonitorSees ==
  ASSUME IInv, Left' = Left, (Spawning' <=> Spawning)
  PROVE  /\ Left \in Nat
         /\ Left >= 31 \/ Left <= 30
         /\ Left >= 31 =>
              /\ ~has_child /\ child = NoProcess /\ monitor \in {"none", "top", "copy", "ended"}
              /\ Only(IF Spawning THEN spawned["main"] ELSE NoProcess)
         /\ Left <= 30 => ~Spawning
BY LeftTyped DEF IInv, ChildInv, FrontendInv, Spawning

\* The steps that move the monitor only: the three that load running_, the copy
\* of the child, and the end of the wait.
LEMMA MonitorLooks ==
  ASSUME IInv, MonitorTop \/ MonitorExited \/ MonitorFailed \/ MonitorDelayed \/ MonitorCopies
               \/ wait_for_process \/ WaitFails
  PROVE  IInv'
<1>1. /\ Up /\ MonitorOnly /\ UNCHANGED <<childVars, spawned, processVars>>
      /\ \/ monitor \in {"top", "exited", "failed", "delay", "wait"} /\ UNCHANGED copy
         \/ monitor = "copy" /\ has_child /\ copy' = child /\ monitor' = "wait"
         \/ monitor = "copy" /\ UNCHANGED copy /\ monitor' = "ended"
      /\ monitor = "top" => monitor' \in {"copy", "ended"}
      /\ monitor = "exited" => monitor' \in {"reap", "ended"}
      /\ monitor = "failed" => monitor' \in {"give_up", "ended"}
      /\ monitor = "delay" => monitor' \in {"create", "ended"}
      /\ monitor = "wait" => monitor' = "failed" \/ (monitor' \in {"exited", "failed"} /\ proc[copy] = "dead")
  <2> USE DEF MonitorChecks, MonitorAt, MonitorGoes
  <2>1. CASE MonitorTop
    BY <2>1 DEF MonitorTop
  <2>2. CASE MonitorExited
    BY <2>2 DEF MonitorExited
  <2>3. CASE MonitorFailed
    BY <2>3 DEF MonitorFailed
  <2>4. CASE MonitorDelayed
    BY <2>4 DEF MonitorDelayed
  <2>5. CASE MonitorCopies
    BY <2>5 DEF MonitorCopies
  <2>6. CASE wait_for_process
    BY <2>6 DEF wait_for_process
  <2>7. CASE WaitFails
    BY <2>7 DEF WaitFails
  <2>8. QED
    BY <2>1, <2>2, <2>3, <2>4, <2>5, <2>6, <2>7
<1>2. /\ TodoInv' /\ Left' = Left /\ (Spawning' <=> Spawning) /\ ServiceInv' /\ NoOrphan'
      /\ UNCHANGED gone
  <2>1. monitor \notin {"none", "ended"} /\ monitor' # "none"
    BY <1>1
  <2>2. QED
    BY <1>1, <2>1, MonitorMoves
<1>3. /\ Left \in Nat /\ (Left >= 31 \/ Left <= 30)
      /\ Left >= 31 =>
              /\ ~has_child /\ child = NoProcess /\ monitor \in {"none", "top", "copy", "ended"}
              /\ Only(IF Spawning THEN spawned["main"] ELSE NoProcess)
  BY <1>2, MonitorSees
<1>4. UNCHANGED <<has_child, child, spawned, proc, handle, job>>
  BY <1>1 DEF childVars, processVars
<1>5. FrontendInv'
  <2>1. CASE Left >= 31
    BY <1>1, <1>2, <1>3, <1>4, <2>1 DEF FrontendInv, Only
  <2>2. CASE Left <= 30
    <3>1. /\ monitor = "wait" => child \in {NoProcess, copy}
          /\ CASE monitor \in {"exited", "reap", "delay", "create"} -> Only(NoProcess)
               [] monitor \in {"assign", "store"} -> Only(spawned["monitor"])
               [] OTHER -> Only(child)
      BY <2>2 DEF IInv, ChildInv, FrontendInv
    <3>2. monitor \in {"exited", "delay"} => Only(NoProcess) /\ Only(child)
      BY <3>1, ProcessAssumption DEF Only
    <3>3. monitor \in {"top", "failed", "copy", "wait"} => Only(child)
      BY <3>1
    <3>4. monitor = "wait" /\ proc[copy] = "dead" => Only(NoProcess) /\ Only(child)
      BY <3>1, ProcessAssumption DEF Only
    <3>5. /\ monitor' \in {"exited", "reap", "delay", "create"} => Only(NoProcess)
          /\ monitor' \notin {"exited", "reap", "delay", "create"} => Only(child)
          /\ monitor' \notin {"assign", "store"}
      BY <1>1, <3>2, <3>3, <3>4
    <3>6. monitor' = "wait" => child' \in {NoProcess, copy'}
      BY <1>1, <1>4
    <3>7. /\ monitor' \in {"exited", "reap", "delay", "create"} => Only(NoProcess)'
          /\ monitor' \notin {"exited", "reap", "delay", "create"} => Only(child)'
      BY <1>4, <3>5 DEF Only
    <3>8. ~(Left' >= 31)
      BY <1>2, <1>3, <2>2
    <3>9. QED
      BY <3>5, <3>6, <3>7, <3>8 DEF FrontendInv
  <2>3. QED
    BY <1>3, <2>1, <2>2
<1>6. JobInv'
  BY <1>1, <1>2, <1>4 DEF IInv, ChildInv, JobInv, processVars
<1>7. ProcessTypes'
  BY <1>1, <1>2, <1>4 DEF IInv, ChildInv, ProcessTypes, processVars
<1>8. Types'
  <2>1. has_child' \in BOOLEAN
    BY <1>4 DEF IInv, Types, FlagTypes
  <2>2. QED
    BY <1>1, <2>1, MonitorTypes
<1>9. QED
  BY <1>2, <1>5, <1>6, <1>7, <1>8 DEF IInv, ChildInv

\* The child is forgotten: it is dead, or the monitor does not know and ends.
LEMMA MonitorForgets ==
  ASSUME IInv, MonitorReaps \/ MonitorGivesUp
  PROVE  IInv'
<1>1. /\ Up /\ MonitorOnly /\ has_child' = FALSE /\ UNCHANGED <<copy, child, spawned, processVars>>
      /\ \/ monitor = "reap" /\ monitor' = "delay"
         \/ monitor = "give_up" /\ monitor' = "ended"
  BY DEF MonitorReaps, MonitorGivesUp, MonitorAt, MonitorGoes
<1>2. /\ TodoInv' /\ Left' = Left /\ (Spawning' <=> Spawning) /\ ServiceInv' /\ NoOrphan'
      /\ UNCHANGED gone
  BY <1>1, MonitorMoves
<1>3. Left \in Nat /\ Left <= 30
  BY <1>1, <1>2, MonitorSees
<1>4. FrontendInv'
  BY <1>1, <1>2, <1>3 DEF IInv, ChildInv, FrontendInv, Only, processVars
<1>5. JobInv' /\ ProcessTypes'
  BY <1>1, <1>2 DEF IInv, ChildInv, JobInv, ProcessTypes, processVars
<1>6. Types'
  BY <1>1, MonitorTypes
<1>7. QED
  BY <1>2, <1>4, <1>5, <1>6 DEF IInv, ChildInv

\* The monitor creates a frontend when there is none, or fails to.
LEMMA MonitorRespawns ==
  ASSUME IInv, MonitorCreates
  PROVE  IInv'
<1>1. /\ Up /\ monitor = "create" /\ MonitorOnly /\ UNCHANGED <<copy, childVars>>
      /\ \/ (\E p \in Process : CreateChild("monitor", p)) /\ monitor' = "assign"
         \/ UNCHANGED <<spawned, processVars>> /\ monitor' = "top"
  BY DEF MonitorCreates, MonitorAt, MonitorGoes
<1>2. /\ TodoInv' /\ Left' = Left /\ (Spawning' <=> Spawning) /\ ServiceInv' /\ NoOrphan'
      /\ UNCHANGED gone
  <2>1. monitor \notin {"none", "ended"} /\ monitor' # "none"
    BY <1>1
  <2>2. QED
    BY <1>1, <2>1, MonitorMoves
<1>3. Left \in Nat /\ Left <= 30 /\ ~Spawning
  <2>1. monitor \notin {"none", "top", "copy", "ended"}
    BY <1>1
  <2>2. QED
    BY <1>2, <2>1, MonitorSees
<1>4. \A p \in Process : proc[p] # "alive"
  BY <1>1, <1>3, ProcessAssumption DEF IInv, ChildInv, FrontendInv, Only
<1>5. ChildInv'
  <2>1. CASE UNCHANGED <<spawned, processVars>> /\ monitor' = "top"
    <3>1. FrontendInv'
      BY <1>1, <1>2, <1>3, <1>4, <2>1 DEF FrontendInv, Only, processVars
    <3>2. JobInv' /\ ProcessTypes'
      BY <1>1, <1>2, <1>4, <2>1 DEF IInv, ChildInv, JobInv, ProcessTypes, processVars, childVars
    <3>3. QED
      BY <3>1, <3>2 DEF ChildInv
  <2>2. CASE (\E p \in Process : CreateChild("monitor", p)) /\ monitor' = "assign"
    <3>1. PICK p \in Process : CreateChild("monitor", p)
      BY <2>2
    <3>2. /\ proc \in [Process -> {"unborn", "alive", "dead"}]
          /\ spawned \in [{"main", "monitor"} -> Process \union {NoProcess}]
          /\ handle \in [Process -> {"none", "open", "closed"}]
          /\ job \subseteq Process /\ refused \subseteq Process
          /\ child \in Process \union {NoProcess} /\ copy \in Process \union {NoProcess}
      BY DEF IInv, ChildInv, ProcessTypes
    <3>3. /\ proc' = [proc EXCEPT ![p] = "alive"] /\ spawned' = [spawned EXCEPT !["monitor"] = p]
          /\ handle' = [handle EXCEPT ![p] = "open"] /\ job' \in {job, job \union {p}}
          /\ refused' = refused
      BY <3>1 DEF CreateChild
    <3>4. spawned'["monitor"] = p /\ Only(p)'
      BY <1>4, <3>2, <3>3 DEF Only
    <3>5. FrontendInv'
      BY <1>2, <1>3, <2>2, <3>4 DEF FrontendInv
    <3>6. JobInv'
      BY <2>2, <3>4 DEF JobInv, Only
    <3>7. ProcessTypes'
      BY <1>1, <1>2, <1>3, <2>2, <3>2, <3>3, <3>4 DEF ProcessTypes, childVars
    <3>8. QED
      BY <3>5, <3>6, <3>7 DEF ChildInv
  <2>3. QED
    BY <1>1, <2>1, <2>2
<1>6. Types'
  <2>1. has_child' \in BOOLEAN
    BY <1>1 DEF IInv, Types, FlagTypes, childVars
  <2>2. QED
    BY <1>1, <2>1, MonitorTypes
<1>7. QED
  BY <1>2, <1>5, <1>6 DEF IInv

\* The job takes or refuses the frontend that the monitor has created.
LEMMA MonitorAssignsIt ==
  ASSUME IInv, MonitorAssigns
  PROVE  IInv'
<1>1. /\ Up /\ monitor = "assign" /\ monitor' = "store" /\ MonitorOnly
      /\ UNCHANGED <<copy, childVars, spawned, proc, handle>>
      /\ job' \subseteq Process /\ refused' \subseteq Process
      /\ \A p \in Process : p = spawned["monitor"] /\ proc[p] = "alive" => p \in job' \/ p \in refused'
  BY Assigned DEF MonitorAssigns, MonitorAt, MonitorGoes, IInv, ChildInv, ProcessTypes
<1>2. /\ TodoInv' /\ Left' = Left /\ (Spawning' <=> Spawning) /\ ServiceInv' /\ NoOrphan'
      /\ UNCHANGED gone
  <2>1. monitor \notin {"none", "ended"} /\ monitor' # "none"
    BY <1>1
  <2>2. QED
    BY <1>1, <2>1, MonitorMoves
<1>3. Left \in Nat /\ Left <= 30 /\ ~Spawning
  <2>1. monitor \notin {"none", "top", "copy", "ended"}
    BY <1>1
  <2>2. QED
    BY <1>2, <2>1, MonitorSees
<1>4. Only(spawned["monitor"])
  BY <1>1, <1>3 DEF IInv, ChildInv, FrontendInv
<1>5. FrontendInv'
  BY <1>1, <1>2, <1>3, <1>4 DEF FrontendInv, Only
<1>6. JobInv'
  BY <1>1, <1>4 DEF JobInv, Only
<1>7. ProcessTypes'
  BY <1>1, <1>2 DEF IInv, ChildInv, ProcessTypes, childVars
<1>8. Types'
  <2>1. has_child' \in BOOLEAN
    BY <1>1 DEF IInv, Types, FlagTypes, childVars
  <2>2. QED
    BY <1>1, <2>1, MonitorTypes
<1>9. QED
  BY <1>2, <1>5, <1>6, <1>7, <1>8 DEF IInv, ChildInv

\* That frontend becomes the child.
LEMMA MonitorStoresIt ==
  ASSUME IInv, MonitorStores
  PROVE  IInv'
<1>1. /\ Up /\ monitor = "store" /\ monitor' = "top" /\ MonitorOnly
      /\ child' = spawned["monitor"] /\ has_child' = TRUE
      /\ spawned' = [spawned EXCEPT !["monitor"] = NoProcess] /\ UNCHANGED <<copy, processVars>>
  BY DEF MonitorStores, MonitorAt, MonitorGoes, StoreChild
<1>2. /\ TodoInv' /\ Left' = Left /\ (Spawning' <=> Spawning) /\ ServiceInv' /\ NoOrphan'
      /\ UNCHANGED gone
  <2>1. monitor \notin {"none", "ended"} /\ monitor' # "none"
    BY <1>1
  <2>2. QED
    BY <1>1, <2>1, MonitorMoves
<1>3. Left \in Nat /\ Left <= 30 /\ ~Spawning
  <2>1. monitor \notin {"none", "top", "copy", "ended"}
    BY <1>1
  <2>2. QED
    BY <1>2, <2>1, MonitorSees
<1>4. Only(spawned["monitor"])
  BY <1>1, <1>3 DEF IInv, ChildInv, FrontendInv
<1>5. FrontendInv'
  BY <1>1, <1>2, <1>3, <1>4 DEF FrontendInv, Only, processVars
<1>6. JobInv'
  BY <1>1, <1>2, <1>3 DEF IInv, ChildInv, JobInv, processVars
<1>7. ProcessTypes'
  BY <1>1, <1>2, <1>3 DEF IInv, ChildInv, ProcessTypes, processVars
<1>8. Types'
  BY <1>1, MonitorTypes
<1>9. QED
  BY <1>2, <1>5, <1>6, <1>7, <1>8 DEF IInv, ChildInv

-----------------------------------------------------------------------------
(* The button thread, the message loop and what comes from outside.        *)

\* The button thread calls back only once wired, and presses change nothing else.
LEMMA ButtonSteps ==
  ASSUME IInv, Poll \/ CallbackReturns \/ ButtonEnds \/ Press
  PROVE  IInv'
<1>1. /\ Up /\ UNCHANGED <<platform, mainVars, monitorVars, childVars, spawned, processVars, polling, quitVars>>
      /\ \/ button' = button
         \/ button = "poll" /\ polling /\ button' \in {"poll", "callback"} /\ (button' = "callback" => wired)
         \/ button = "callback" /\ button' = "poll"
         \/ button' = "ended"
  <2>1. CASE Poll
    BY <2>1 DEF Poll, ButtonOnly
  <2>2. CASE CallbackReturns
    BY <2>2 DEF CallbackReturns, ButtonOnly
  <2>3. CASE ButtonEnds
    BY <2>3 DEF ButtonEnds, ButtonOnly
  <2>4. CASE Press
    BY <2>4 DEF Press
  <2>5. QED
    BY <2>1, <2>2, <2>3, <2>4
<1>2. UNCHANGED <<platform, todo, objects, threads, wired, monitor, monitoring, polling, frontendVars>>
  BY <1>1 DEF mainVars, monitorVars, frontendVars
<1>3. TodoInv' /\ Left' = Left /\ Left \in Nat
  BY <1>2, Stays, LeftTyped DEF IInv
<1>4. ServiceInv'
  <2>1. ObjectInv' /\ ThreadInv' /\ MonitorInv'
    BY <1>2, <1>3 DEF IInv, ServiceInv, ObjectInv, ThreadInv, MonitorInv
  <2>2. ButtonInv'
    BY <1>1, <1>2, <1>3 DEF IInv, ServiceInv, ButtonInv
  <2>3. QED
    BY <2>1, <2>2 DEF ServiceInv
<1>5. ChildInv' /\ NoOrphan'
  <2>1. UNCHANGED <<platform, frontendVars>> /\ Left' \in Nat /\ UNCHANGED gone
    BY <1>2, <1>3 DEF frontendVars
  <2>2. QED
    BY <1>1, <1>3, <2>1, FrontendKept, StillUp DEF IInv
<1>6. FlagTypes'
  BY <1>1 DEF IInv, Types, FlagTypes, mainVars, monitorVars, childVars, quitVars
<1>7. PlaceTypes'
  <2>1. last' \in {0, 1, Unread} /\ reg' \in {0, 1}
    BY DEF IInv, Types, PlaceTypes, Poll, CallbackReturns, ButtonEnds, Press, ButtonOnly, Unread
  <2>2. button' \in {"none", "poll", "callback", "ended"}
    BY <1>1 DEF IInv, Types, PlaceTypes
  <2>3. QED
    BY <1>1, <2>1, <2>2 DEF IInv, Types, PlaceTypes, mainVars, monitorVars, quitVars
<1>8. QED
  BY <1>3, <1>4, <1>5, <1>6, <1>7 DEF IInv, Types

\* A step that leaves main in its loop.
LEMMA LoopKept ==
  ASSUME IInv, Up, LoopOnly, TodoInv', Left' = Left, quit' \in BOOLEAN, signal' \in {"idle", "notify"},
         hung' = hung
  PROVE  IInv'
<1>1. UNCHANGED <<platform, serviceVars, frontendVars, gone>> /\ Left \in Nat
  BY LeftTyped DEF LoopOnly, serviceVars, frontendVars, monitorVars, buttonVars, IInv
<1>2. ServiceInv'
  BY <1>1, ServicesKept DEF IInv
<1>3. ChildInv' /\ NoOrphan'
  BY <1>1, FrontendKept, StillUp DEF IInv
<1>4. FlagTypes'
  BY DEF IInv, Types, FlagTypes, LoopOnly, monitorVars, childVars, buttonVars
<1>5. PlaceTypes'
  BY DEF IInv, Types, PlaceTypes, LoopOnly, monitorVars, buttonVars
<1>6. QED
  BY <1>2, <1>3, <1>4, <1>5 DEF IInv, Types

\* The steps of the message loop and of the signal handler are such steps.
LEMMA LoopSteps ==
  ASSUME IInv, LoopTests \/ LoopBlocks \/ SpuriousWakeup \/ SignalArrives \/ SignalNotifies \/ QuitPosted
  PROVE  IInv'
<1>1. Up /\ LoopOnly /\ platform' = platform
  BY DEF LoopTests, LoopBlocks, SpuriousWakeup, SignalArrives, SignalNotifies, QuitPosted, LoopOnly, MainAt
<1>2. \/ UNCHANGED todo
      \/ \E from \in {"test", "block", "blocked"}, to \in {"test", "block", "blocked"} :
           MainAt("loop", from) /\ LoopTo(to)
  BY DEF LoopTests, LoopBlocks, SpuriousWakeup, SignalArrives, SignalNotifies, QuitPosted
<1>3. TodoInv' /\ Left' = Left
  <2>1. CASE UNCHANGED todo
    BY <1>1, <2>1, Stays DEF IInv
  <2>2. ASSUME NEW from \in {"test", "block", "blocked"}, NEW to \in {"test", "block", "blocked"},
               MainAt("loop", from), LoopTo(to)
        PROVE  TodoInv' /\ Left' = Left
    BY <1>1, <2>2, Loops DEF IInv
  <2>3. QED
    BY <1>2, <2>1, <2>2
<1>4. quit' \in BOOLEAN /\ signal' \in {"idle", "notify"}
  <2>1. quit \in BOOLEAN /\ signal \in {"idle", "notify"}
    BY DEF IInv, Types, FlagTypes, PlaceTypes
  <2>2. (quit' = TRUE \/ quit' = quit) /\ signal' \in {signal, "idle", "notify"}
    BY DEF LoopTests, LoopBlocks, SpuriousWakeup, SignalArrives, SignalNotifies, QuitPosted, quitVars
  <2>3. quit' \in BOOLEAN
    BY <2>1, <2>2
  <2>4. signal' \in {"idle", "notify"}
    BY <2>1, <2>2
  <2>5. QED
    BY <2>3, <2>4
<1>5. hung' = hung
  BY DEF LoopTests, LoopBlocks, SpuriousWakeup, SignalArrives, SignalNotifies, QuitPosted, quitVars
<1>6. QED
  BY <1>1, <1>3, <1>4, <1>5, LoopKept

\* main leaves the loop.
LEMMA LeavesLoop ==
  ASSUME IInv, LeaveLoop
  PROVE  IInv'
<1>1. Left = 29
  BY Places DEF IInv, LeaveLoop, Place
<1>2. UNCHANGED <<platform, objects, threads, wired, gone, monitorVars, childVars, spawned, processVars,
                  buttonVars, quitVars>>
  BY DEF LeaveLoop, LoopOnly
<1>3. TodoInv' /\ Left' = Left - 1 /\ ChildInv' /\ NoOrphan'
  <2>1. MainAt("loop", "test") /\ Skip(1) /\ UNCHANGED <<platform, frontendVars>> /\ 1 \in 1..Left
    BY <1>1, <1>2 DEF LeaveLoop, frontendVars, monitorVars
  <2>2. QED
    BY <2>1, MainGoesOn
<1>4. ServiceInv'
  <2>1. ObjectInv' /\ ThreadInv' /\ MonitorInv'
    BY <1>1, <1>2, <1>3 DEF IInv, ServiceInv, ObjectInv, ThreadInv, MonitorInv, monitorVars
  <2>2. ButtonInv'
    BY <1>1, <1>2, <1>3 DEF IInv, ServiceInv, ButtonInv, buttonVars
  <2>3. QED
    BY <2>1, <2>2 DEF ServiceInv
<1>5. Types'
  BY <1>2 DEF IInv, Types, FlagTypes, PlaceTypes, monitorVars, childVars, buttonVars, quitVars
<1>6. QED
  BY <1>3, <1>4, <1>5 DEF IInv

\* A frontend that ends leaves one fewer alive: nothing said of the living ones changes.
LEMMA FewerAlive ==
  ASSUME ChildInv, Left' = Left, (Spawning' <=> Spawning), gone' = gone \/ gone' # "no",
         proc' \in [Process -> {"unborn", "alive", "dead"}],
         job' \subseteq Process, refused' \subseteq Process,
         \A p \in Process : proc'[p] = "alive" =>
           /\ proc[p] = "alive" /\ (p \in job => p \in job') /\ (p \in refused => p \in refused'),
         UNCHANGED <<platform, monitor, copy, childVars, spawned, handle>>
  PROVE  ChildInv'
<1>1. FrontendInv'
  <2>1. \A q : Only(q) => Only(q)'
    BY DEF Only
  <2>2. QED
    BY <2>1 DEF ChildInv, FrontendInv, Only, childVars
<1>2. JobInv'
  BY DEF ChildInv, JobInv
<1>3. ProcessTypes'
  BY DEF ChildInv, ProcessTypes, childVars
<1>4. QED
  BY <1>1, <1>2, <1>3 DEF ChildInv

\* A frontend exits.
LEMMA FrontendEnds ==
  ASSUME IInv, NEW p \in Process, FrontendExits(p)
  PROVE  IInv'
<1>1. /\ proc' = [proc EXCEPT ![p] = "dead"] /\ job' = job \ {p} /\ refused' = refused \ {p}
      /\ UNCHANGED <<platform, mainVars, monitorVars, childVars, spawned, handle, buttonVars, quitVars>>
  BY DEF FrontendExits, Dies
<1>2. TodoInv' /\ Left' = Left /\ (Spawning' <=> Spawning)
  BY <1>1, Stays DEF IInv, mainVars
<1>3. ServiceInv'
  BY <1>1, <1>2, ServicesKept DEF IInv, serviceVars, mainVars, monitorVars, buttonVars
<1>4. /\ proc \in [Process -> {"unborn", "alive", "dead"}]
      /\ job \subseteq Process /\ refused \subseteq Process
  BY DEF IInv, ChildInv, ProcessTypes
<1>5. /\ proc' \in [Process -> {"unborn", "alive", "dead"}]
      /\ job' \subseteq Process /\ refused' \subseteq Process
      /\ \A q \in Process : proc'[q] = "alive" =>
           /\ proc[q] = "alive" /\ (q \in job => q \in job') /\ (q \in refused => q \in refused')
  BY <1>1, <1>4
<1>6. ChildInv'
  BY <1>1, <1>2, <1>5, FewerAlive DEF IInv, mainVars, monitorVars
<1>7. NoOrphan'
  BY <1>1, <1>5 DEF IInv, NoOrphan, mainVars, monitorVars
<1>8. Types'
  BY <1>1 DEF IInv, Types, FlagTypes, PlaceTypes, mainVars, monitorVars, childVars, buttonVars, quitVars
<1>9. QED
  BY <1>2, <1>3, <1>6, <1>7, <1>8 DEF IInv

\* The end of the backend: the job takes every frontend with it but one that it
\* refused or that has just been created.
LEMMA Ends ==
  ASSUME IInv, Returns \/ Killed
  PROVE  IInv'
<1>1. PICK how \in {"returned", "killed"} : EndsAs(how) /\ (how = "returned" => todo = <<>>)
  BY DEF Returns, Killed
<1>2. /\ Up /\ gone' = how /\ JobCloses
      /\ UNCHANGED <<platform, todo, objects, threads, wired, monitorVars, childVars, spawned, handle, job,
                     refused, buttonVars, quitVars>>
  BY <1>1 DEF EndsAs
<1>3. TodoInv' /\ Left' = Left /\ (Spawning' <=> Spawning) /\ Left \in Nat
  BY <1>2, Stays, LeftTyped DEF IInv
<1>4. ServiceInv'
  BY <1>2, <1>3, ServicesKept DEF IInv, serviceVars, monitorVars, buttonVars
<1>5. proc \in [Process -> {"unborn", "alive", "dead"}]
  BY DEF IInv, ChildInv, ProcessTypes
<1>6. /\ proc' \in [Process -> {"unborn", "alive", "dead"}]
      /\ \A p \in Process : proc'[p] = "alive" => proc[p] = "alive" /\ p \notin job
  BY <1>2, <1>5 DEF JobCloses
<1>7. ChildInv'
  <2>1. gone' # "no"
    BY <1>2
  <2>2. QED
    BY <1>2, <1>3, <1>6, <2>1, FewerAlive DEF IInv, ChildInv, ProcessTypes, monitorVars
<1>8. NoOrphan'
  <2>1. SUFFICES ASSUME NEW p \in Process, proc'[p] = "alive", p \notin refused'
                 PROVE  /\ gone' = "killed"
                        /\ \/ monitor' = "assign" /\ spawned'["monitor"] = p
                           \/ todo' # <<>> /\ Head(todo') = <<"assign", "child">> /\ spawned'["main"] = p
    BY DEF NoOrphan
  <2>2. \/ monitor = "assign" /\ spawned["monitor"] = p
        \/ Spawning /\ Left = 32 /\ spawned["main"] = p
    <3>1. proc[p] = "alive" /\ p \in Process \ job /\ p \notin refused /\ gone = "no"
      BY <1>2, <1>6, <2>1 DEF Up
    <3>2. QED
      BY <3>1 DEF IInv, ChildInv, JobInv
  <2>3. Left # 0
    BY <2>2 DEF IInv, ServiceInv, MonitorInv
  <2>4. todo # <<>>
    BY <2>3, EmptySeq DEF Left
  <2>5. CASE Spawning /\ Left = 32 /\ spawned["main"] = p
    <3>1. platform = "win32" /\ Left = 32
      BY <2>5 DEF Spawning
    <3>2. todo = Rest(platform, 32)
      <4>1. CASE \E place \in {"block", "blocked"} : todo = <<<<"loop", place>>>> \o Shutdown \o Unwind
        <5>1. Len(todo) = 29
          BY <4>1 DEF Shutdown, Unwind, StopMonitor, StopButton
        <5>2. QED
          BY <3>1, <5>1 DEF Left
      <4>2. QED
        BY <3>1, <4>1 DEF IInv, TodoInv
    <3>3. Head(todo) = Plan(platform)[Len(Plan(platform)) - 32 + 1]
      <4>1. Len(Plan(platform)) = IF platform = "win32" THEN 38 ELSE 36
        BY <3>1, PlanTyped
      <4>2. 32 \in 1..Len(Plan(platform))
        <5>1. Len(Plan(platform)) = 38
          BY <3>1, <4>1
        <5>2. QED
          BY ONLY <5>1
      <4>3. platform \in {"win32", "linux"}
        BY <3>1
      <4>4. QED
        BY <3>2, <4>2, <4>3, RestOf
    <3>4. Head(todo) = <<"assign", "child">>
      BY <3>1, <3>3 DEF StopMonitor, StopButton, Unwind, Shutdown, Startup, Spawn, Plan
    <3>5. QED
      BY <1>1, <1>2, <2>4, <2>5, <3>4
  <2>6. CASE monitor = "assign" /\ spawned["monitor"] = p
    BY <1>1, <1>2, <2>4, <2>6 DEF monitorVars
  <2>7. QED
    BY <2>2, <2>5, <2>6
<1>9. Types'
  BY <1>2 DEF IInv, Types, FlagTypes, PlaceTypes, monitorVars, childVars, buttonVars, quitVars
<1>10. QED
  BY <1>3, <1>4, <1>7, <1>8, <1>9 DEF IInv

-----------------------------------------------------------------------------
(* The theorems.                                                           *)

\* The invariant holds at the start.
LEMMA Starts ==
  ASSUME Init
  PROVE  IInv
<1>1. platform \in {"win32", "linux"}
  BY PlatformAssumption DEF Init
<1>2. todo = Plan(platform) /\ Plan(platform) \in Seq(Step)
  BY <1>1, PlanTyped DEF Init, Plan
<1>3. Left = IF platform = "win32" THEN 38 ELSE 36
  BY <1>1, <1>2, PlanTyped DEF Left
<1>4. TodoInv
  <2>1. Left \in 0..Len(Plan(platform)) /\ Left = Len(Plan(platform)) /\ Len(Plan(platform)) - Left + 1 = 1
    <3>1. Left = Len(Plan(platform))
      BY <1>2 DEF Left
    <3>2. Left \in {36, 38}
      BY ONLY <1>3
    <3>3. QED
      BY ONLY <3>1, <3>2
  <2>2. SubSeq(Plan(platform), 1, Len(Plan(platform))) = Plan(platform)
    BY <1>2, SubSeqFull
  <2>3. QED
    BY <1>1, <1>2, <2>1, <2>2 DEF TodoInv, Rest
<1>5. ServiceInv
  <2>1. /\ {"process_mgr", "button", "adaptive", "power", "poller", "tdp", "fan"} \subseteq objects
        /\ threads = {} /\ monitor = "none" /\ button = "none" /\ wired = FALSE
    BY DEF Init, Declared
  <2>2. ObjectInv
    BY <1>3, <2>1 DEF ObjectInv
  <2>3. ThreadInv /\ MonitorInv /\ ButtonInv
    BY <2>1 DEF ThreadInv, MonitorInv, ButtonInv
  <2>4. QED
    BY <2>2, <2>3 DEF ServiceInv
<1>6. ChildInv
  <2>1. Left >= 31 /\ ~(Left <= 30) /\ ~Spawning
    BY <1>3 DEF Spawning
  <2>2. /\ monitor = "none" /\ has_child = FALSE /\ child = NoProcess /\ copy = NoProcess
        /\ job = {} /\ refused = {}
        /\ spawned = [by \in {"main", "monitor"} |-> NoProcess]
        /\ proc = [p \in Process |-> "unborn"] /\ handle = [p \in Process |-> "none"]
    BY DEF Init
  <2>3. FrontendInv
    BY <2>1, <2>2 DEF FrontendInv, Only
  <2>4. JobInv /\ ProcessTypes
    BY <2>1, <2>2 DEF JobInv, ProcessTypes
  <2>5. QED
    BY <2>3, <2>4 DEF ChildInv
<1>7. Types /\ NoOrphan
  BY DEF Init, Types, FlagTypes, PlaceTypes, NoOrphan, Object
<1>8. QED
  BY <1>4, <1>5, <1>6, <1>7 DEF IInv

\* The invariant says of hung only that it is a truth value.
LEMMA NothingMoves ==
  ASSUME IInv, hung' \in BOOLEAN,
         UNCHANGED <<platform, mainVars, monitorVars, childVars, spawned, processVars, buttonVars, quit, signal>>
  PROVE  IInv'
<1>1. /\ UNCHANGED <<platform, todo, serviceVars, frontendVars>>
      /\ UNCHANGED <<gone, proc, refused, monitor, spawned>>
  BY DEF mainVars, monitorVars, buttonVars, processVars, serviceVars, frontendVars
<1>2. TodoInv' /\ Left' = Left /\ Left \in Nat /\ Left' \in Nat
  BY <1>1, Stays, LeftTyped DEF IInv
<1>3. ServiceInv' /\ ChildInv'
  BY <1>1, <1>2, ServicesKept, FrontendKept DEF IInv
<1>4. NoOrphan'
  BY <1>1 DEF IInv, NoOrphan
<1>5. Types'
  BY DEF IInv, Types, FlagTypes, PlaceTypes, mainVars, monitorVars, childVars, buttonVars
<1>6. QED
  BY <1>2, <1>3, <1>4, <1>5 DEF IInv

\* A stop() that does not return stops main, and nothing else.
LEMMA Hangs ==
  ASSUME IInv, NEW t \in SimpleThread, StopHangs(t)
  PROVE  IInv'
  BY NothingMoves DEF StopHangs

\* Every step of main, of the threads and of the environment keeps the invariant.
LEMMA Steps ==
  ASSUME IInv, [Next]_vars
  PROVE  IInv'
<1>1. CASE MainStep
  <2>1. CASE \E t \in SimpleThread : StartThread(t) \/ StopThread(t)
    BY <2>1, StartsThread, StopsThread
  <2>2. CASE \E o \in Object : Destroy(o)
    BY <2>2, Destroys
  <2>3. CASE MainCreates \/ MainAssigns \/ MainStores
    BY <2>3, MainCreatesOne, MainAssignsIt, MainStoresIt
  <2>4. CASE start_monitor \/ LowerRunning \/ TerminateChild \/ JoinMonitor
    BY <2>4, StartsMonitor, LowersRunning, TerminatesChild, JoinsMonitor
  <2>5. CASE StartButton \/ LowerPolling \/ JoinButton
    BY <2>5, StartsButton, LowersPolling, JoinsButton
  <2>6. CASE WireCallbacks \/ LeaveLoop \/ LoopTests \/ LoopBlocks \/ Returns
    BY <2>6, Wires, LeavesLoop, LoopSteps, Ends
  <2>7. QED
    BY <1>1, <2>1, <2>2, <2>3, <2>4, <2>5, <2>6 DEF MainStep
<1>2. CASE MonitorStep
  BY <1>2, MonitorLooks, MonitorForgets, MonitorRespawns, MonitorAssignsIt, MonitorStoresIt DEF MonitorStep
<1>3. CASE ButtonStep
  BY <1>3, ButtonSteps DEF ButtonStep
<1>4. CASE SignalNotifies
  BY <1>4, LoopSteps
<1>5. CASE Environment
  <2>1. CASE \E p \in Process : FrontendExits(p)
    BY <2>1, FrontendEnds
  <2>2. CASE Throws \/ WaitFails \/ Press \/ Killed
    BY <2>2, Unwinds, MonitorLooks, ButtonSteps, Ends
  <2>3. CASE SignalArrives \/ SpuriousWakeup \/ QuitPosted
    BY <2>3, LoopSteps
  <2>4. CASE \E t \in SimpleThread : StopHangs(t)
    BY <2>4, Hangs
  <2>5. QED
    BY <1>5, <2>1, <2>2, <2>3, <2>4 DEF Environment
<1>6. CASE UNCHANGED vars
  <2>1. UNCHANGED <<platform, mainVars, monitorVars, childVars, spawned, processVars, buttonVars, quit, signal>>
        /\ hung' = hung
    BY <1>6 DEF vars, quitVars
  <2>2. hung' \in BOOLEAN
    BY <2>1 DEF IInv, Types, FlagTypes
  <2>3. QED
    BY <2>1, <2>2, NothingMoves
<1>7. QED
  BY <1>1, <1>2, <1>3, <1>4, <1>5, <1>6 DEF Next

\* The inductive invariant of the backend's life: how far main is (todo) says
\* which objects stand, which threads may run and who may hold a frontend
\* (main.cpp:223-459, process.cpp, button.cpp).
THEOREM Invariance == Spec => []IInv
<1>1. Init => IInv
  BY Starts
<1>2. IInv /\ [Next]_vars => IInv'
  BY Steps
<1>3. QED
  BY <1>1, <1>2, PTL DEF Spec

\* Every variable holds a value of its kind, and what main has left to do is
\* always a suffix of its program or a place in the message loop.
THEOREM TypeCorrect == Spec => []TypeOK
<1>1. IInv => TypeOK
  <2>1. SUFFICES ASSUME IInv PROVE TypeOK
    OBVIOUS
  <2>2. LET program == Startup(platform) \o Shutdown \o Unwind IN
          \/ todo = SubSeq(program, Len(program) - Len(todo) + 1, Len(program))
          \/ todo \in {<<<<"loop", place>>>> \o Shutdown \o Unwind : place \in {"block", "blocked"}}
    BY <2>1 DEF IInv, TodoInv, Rest, Plan, Left
  <2>3. {child, copy} \union {spawned[by] : by \in {"main", "monitor"}} \subseteq Process \union {NoProcess}
    BY <2>1 DEF IInv, ChildInv, ProcessTypes
  <2>4. ProcessTypes /\ PlaceTypes /\ FlagTypes
    BY <2>1 DEF IInv, ChildInv, Types
  <2>5. QED
    BY <2>2, <2>3, <2>4 DEF TypeOK, ProcessTypes, PlaceTypes, FlagTypes
<1>2. QED
  BY <1>1, Invariance, PTL

\* There are never two frontends, for any number of processes and any number of
\* crashes and respawns: the monitor respawns only after an exit it has seen
\* (process.cpp, monitor_loop).
THEOREM FrontendIsOne == Spec => []OneFrontend
<1>1. IInv => OneFrontend
  <2>1. SUFFICES ASSUME IInv PROVE \E q : Only(q)
    BY DEF OneFrontend, Only
  <2>2. Left >= 31 \/ Left <= 30
    BY <2>1, LeftTyped DEF IInv
  <2>3. CASE Left >= 31
    BY <2>1, <2>3 DEF IInv, ChildInv, FrontendInv
  <2>4. CASE Left <= 30
    BY <2>1, <2>4 DEF IInv, ChildInv, FrontendInv
  <2>5. QED
    BY <2>2, <2>3, <2>4
<1>2. QED
  BY <1>1, Invariance, PTL

\* A frontend outlives the backend only when the job refused it, or when the
\* backend was killed between the creation of the process and its entry into the
\* job (process.h:22, platform_win32.cpp:1475).
THEOREM OrphansExplained == Spec => []NoOrphan
<1>1. IInv => NoOrphan
  BY DEF IInv
<1>2. QED
  BY <1>1, Invariance, PTL

\* No thread uses a service object that main has destroyed, whether main returns
\* or unwinds from an exception (main.cpp:223, 445).
THEOREM NothingUsedAfterDestruction == Spec => []NoUseAfterDestruction
<1>1. IInv => NoUseAfterDestruction
  <2>1. SUFFICES ASSUME IInv, Up PROVE NoUseAfterDestruction
    BY DEF NoUseAfterDestruction
  <2>2. Left \in Nat /\ ObjectInv /\ ThreadInv /\ MonitorInv /\ ButtonInv
        /\ threads \subseteq {"poller", "adaptive", "transport", "dbus"}
        /\ button \in {"none", "poll", "callback", "ended"}
    BY <2>1, LeftTyped DEF IInv, ServiceInv, Types, PlaceTypes, SimpleThread
  <2>3. \A t \in threads : Uses(t) \subseteq objects
    <3>1. "poller" \in threads => Uses("poller") \subseteq objects
      BY <2>2 DEF ObjectInv, ThreadInv, Uses
    <3>2. "adaptive" \in threads => Uses("adaptive") \subseteq objects
      BY <2>2 DEF ObjectInv, ThreadInv, Uses
    <3>3. "transport" \in threads => Uses("transport") \subseteq objects
      BY <2>2 DEF ObjectInv, ThreadInv, Uses
    <3>4. "dbus" \in threads => Uses("dbus") \subseteq objects
      BY <2>2 DEF ObjectInv, ThreadInv, Uses
    <3>5. QED
      BY <2>2, <3>1, <3>2, <3>3, <3>4
  <2>4. monitor \notin {"none", "ended"} => "process_mgr" \in objects
    BY <2>2 DEF ObjectInv, MonitorInv
  <2>5. button \notin {"none", "ended"} => "button" \in objects
    BY <2>2 DEF ObjectInv, ButtonInv
  <2>6. button = "callback" => "transport" \in objects
    BY <2>2 DEF ObjectInv, ButtonInv
  <2>7. QED
    BY <2>3, <2>4, <2>5, <2>6 DEF NoUseAfterDestruction
<1>2. QED
  BY <1>1, Invariance, PTL
=============================================================================
