------------------------- MODULE ProfileInForceProofs -------------------------
(***************************************************************************)
(* That a profile a command has put in force is what the hardware and the  *)
(* controllers are at, for any threads, profiles, curves and sources.      *)
(***************************************************************************)
EXTENDS HardwareProofs

-----------------------------------------------------------------------------
(* The inductive invariant.                                                *)

\* The steps that other programs come from or that end one. In any queue only main's
\* last two may follow them.
Turning == {"find", "persist", "select", "startup", "select_for", "startup_select",
            "done", "serve", "register"}

\* main's last two steps.
Boot == {Do("serve", None), Do("register", None)}

\* main runs no command, and no dispatcher runs main's program.
StepsOf(e) ==
  {s \in TypedStep : s.op \notin (IF e = Main THEN {"find", "persist", "select", "select_for"}
                                  ELSE {"startup", "startup_select", "serve", "register"})}

\* After a turning step only main's last two come.
Ordered(q) ==
  \A i, j \in 1..Len(q) : i < j /\ q[i].op \in Turning => q[j] \in Boot

\* What the queues hold, during startup and after it.
QueueInv ==
  /\ \A e \in Thread : todo[e] \in Seq(StepsOf(e)) /\ Ordered(todo[e])
  /\ IF phase = "startup" THEN \A e \in Dispatcher : todo[e] = <<>>
     ELSE todo[Main] \in Seq(Boot)

\* One of these is still ahead.
Ahead(q, ops) == \E i \in 1..Len(q) : q[i].op \in ops

\* What a profile asks of the fan and of the adaptive controller.
ModeOf(p) == IF FixedCurve[p] = None THEN "auto" ELSE "curve"
ActiveOf(p) == IF p \in Adaptive THEN p ELSE None
CeilingOf(p) == IF Assigned[p] = None THEN current ELSE Assigned[p]

\* The steps of the programs that put a profile in force, with what it asks.
Right(p) == {s \in TypedStep :
  /\ s.op \in {"ceiling", "ceiling_of_current", "activate", "deactivate", "stapm",
               "fast", "slow", "mode", "curve", "profile_fan", "apply_curve",
               "release", "done", "serve", "register"}
  /\ s.op \notin {"ceiling", "ceiling_of_current", "activate", "done", "serve",
                  "register"} => p \in Fixed
  /\ s.op = "ceiling" => s.arg = CeilingOf(p)
  /\ s.op = "ceiling_of_current" => Assigned[p] = None
  /\ s.op \in {"activate", "deactivate"} => s.arg = ActiveOf(p)
  /\ s.op \in {"stapm", "fast", "slow", "done"} => s.arg = p
  /\ s.op = "mode" => s.arg = ModeOf(p)
  /\ s.op = "curve" => s.arg = FixedCurve[p]
  /\ s.op \in {"profile_fan", "apply_curve"} => s.arg = FixedCurve[p]}

\* The steps that make one of them so, or that are followed by such a step.
CeilingSteps == {"ceiling", "ceiling_of_current"}
ActiveSteps == {"activate", "deactivate"}
StapmSteps == {"stapm"}
FastSteps == {"stapm", "fast"}
SlowSteps == {"stapm", "fast", "slow"}
ModeSteps == {"mode", "profile_fan", "apply_curve"}
CurveSteps == {"curve", "profile_fan", "apply_curve"}

\* Everything the profile asks is so, or a step that makes it so is ahead.
Heading(p, q) ==
  /\ adaptive.ceiling = CeilingOf(p) \/ Ahead(q, CeilingSteps)
  /\ adaptive.active = ActiveOf(p) \/ Ahead(q, ActiveSteps)
  /\ p \in Fixed =>
       /\ limits["stapm"] = p \/ Ahead(q, StapmSteps)
       /\ limits["fast"] = p \/ Ahead(q, FastSteps)
       /\ limits["slow"] = p \/ Ahead(q, SlowSteps)
       /\ (fan.mode = ModeOf(p) /\ fan.ec = ModeOf(p)) \/ Ahead(q, ModeSteps)
       /\ ModeOf(p) = "auto" \/ fan.curve = FixedCurve[p] \/ Ahead(q, CurveSteps)

\* No profile is chosen yet.
Early(q) ==
  /\ ~Ahead(q, {"select_for", "startup_select", "done"})
  /\ Ahead(q, {"startup"}) =>
       /\ adaptive.active = None
       /\ \A i \in 1..Len(q) :
            q[i].op \in {"read_source", "update", "startup", "serve", "register"}
  /\ inforce = None

\* The steps from the choice of a power source to that of its default profile.
AimSteps(s) == {t \in TypedStep :
  /\ t.op \in {"ceiling", "apply_charge", "charge", "known", "select_for",
               "startup_select", "serve", "register"}
  /\ t.op \in {"ceiling", "select_for", "startup_select"} => t.arg = s}

\* The default of a power source is to be put in force.
Aimed(s, q) ==
  /\ q \in Seq(AimSteps(s))
  /\ adaptive.ceiling = s \/ Ahead(q, {"ceiling"})
  /\ Ahead(q, {"startup_select"}) => adaptive.active = None
  /\ inforce = None

\* A profile is chosen.
Bound(p, q) ==
  /\ q \in Seq(Right(p)) /\ Heading(p, q)
  /\ ~cleared /\ inforce = None

\* A profile is in force, and nothing but main's last steps is left.
Settled(q) ==
  /\ q \in Seq(Boot)
  /\ inforce \in ProfileId /\ Heading(inforce, <<>>)

\* A thread that is alone since its command began is in one of the four; the others
\* have nothing left but main's last steps.
ForceInv ==
  IF solo = None THEN inforce = None
  ELSE /\ \A e \in Thread \ {solo} : todo[e] \in Seq(Boot)
       /\ \/ Early(todo[solo])
          \/ \E s \in AnySource : Aimed(s, todo[solo])
          \/ \E p \in ProfileId : Bound(p, todo[solo])
          \/ Settled(todo[solo])
-----------------------------------------------------------------------------
(* Queues.                                                                 *)

\* The positions of a queue whose first step was replaced by others.
LEMMA Positions ==
  ASSUME NEW S, NEW q \in Seq(S), q # <<>>, NEW more \in Seq(S)
  PROVE  /\ Head(q) = q[1] /\ 1 \in 1..Len(q) /\ Len(q) \in Nat /\ Len(more) \in Nat
         /\ Tail(q) \in Seq(S) /\ more \o Tail(q) \in Seq(S)
         /\ Len(Tail(q)) = Len(q) - 1
         /\ \A i \in 1..Len(q) - 1 : Tail(q)[i] = q[i + 1]
         /\ Len(more \o Tail(q)) = Len(more) + Len(q) - 1
         /\ \A i \in 1..Len(more) : (more \o Tail(q))[i] = more[i]
         /\ \A i \in 1..Len(more) + Len(q) - 1 :
              i > Len(more) => (more \o Tail(q))[i] = q[i - Len(more) + 1]
<1>1. /\ Head(q) = q[1] /\ Len(q) \in Nat \ {0} /\ Len(more) \in Nat /\ Tail(q) \in Seq(S)
      /\ Len(Tail(q)) = Len(q) - 1
      /\ \A i \in 1..Len(q) - 1 : Tail(q)[i] = q[i + 1]
  BY HeadTailProperties, EmptySeq, LenProperties
<1>2. /\ more \o Tail(q) \in Seq(S)
      /\ Len(more \o Tail(q)) = Len(more) + Len(Tail(q))
      /\ \A i \in 1..Len(more) + Len(Tail(q)) :
           (more \o Tail(q))[i] = IF i <= Len(more) THEN more[i] ELSE Tail(q)[i - Len(more)]
  BY <1>1, ConcatProperties
<1>3. Len(more \o Tail(q)) = Len(more) + Len(q) - 1
  BY <1>1, <1>2
<1>4. ASSUME NEW i \in 1..Len(more) + Len(q) - 1
      PROVE  (more \o Tail(q))[i] = IF i <= Len(more) THEN more[i] ELSE Tail(q)[i - Len(more)]
  BY <1>1, <1>2
<1>5. \A i \in 1..Len(more) : (more \o Tail(q))[i] = more[i]
  BY <1>1, <1>4
<1>6. ASSUME NEW i \in 1..Len(more) + Len(q) - 1, i > Len(more)
      PROVE  (more \o Tail(q))[i] = q[i - Len(more) + 1]
  <2>1. (more \o Tail(q))[i] = Tail(q)[i - Len(more)] /\ i - Len(more) \in 1..Len(q) - 1
    BY <1>1, <1>4, <1>6
  <2>2. QED
    BY <1>1, <2>1
<1>7. QED
  BY <1>1, <1>2, <1>3, <1>5, <1>6

\* What is ahead after a step was ahead before, or is what the step put in front.
LEMMA AheadGo ==
  ASSUME NEW S, NEW q \in Seq(S), q # <<>>, NEW more \in Seq(S), NEW ops
  PROVE  /\ Ahead(q, ops) => Head(q).op \in ops \/ Ahead(more \o Tail(q), ops)
         /\ Ahead(more, ops) => Ahead(more \o Tail(q), ops)
         /\ Ahead(more \o Tail(q), ops) => Ahead(more, ops) \/ Ahead(q, ops)
<1> DEFINE new == more \o Tail(q)
           m == Len(more)
           n == Len(q)
<1>1. /\ Head(q) = q[1] /\ m \in Nat /\ n \in Nat /\ Len(new) = m + n - 1
      /\ \A i \in 1..m : new[i] = more[i]
      /\ \A i \in 1..m + n - 1 : i > m => new[i] = q[i - m + 1]
  BY Positions
<1>2. ASSUME Ahead(q, ops), Head(q).op \notin ops PROVE Ahead(new, ops)
  <2>1. PICK i \in 1..n : q[i].op \in ops
    BY <1>2 DEF Ahead
  <2>2. i # 1
    BY <1>1, <1>2, <2>1
  <2>3. i + m - 1 \in 1..m + n - 1 /\ i + m - 1 > m /\ (i + m - 1) - m + 1 = i
    BY <1>1, <2>2
  <2>4. new[i + m - 1] = q[i]
    BY <1>1, <2>3
  <2> HIDE DEF new, m, n
  <2>5. QED
    BY <1>1, <2>1, <2>3, <2>4 DEF Ahead
<1>3. ASSUME Ahead(more, ops) PROVE Ahead(new, ops)
  <2>1. PICK i \in 1..m : more[i].op \in ops
    BY <1>3 DEF Ahead
  <2>2. i \in 1..m + n - 1
    BY <1>1, Positions
  <2> HIDE DEF new, m, n
  <2>3. QED
    BY <1>1, <2>1, <2>2 DEF Ahead
<1>4. ASSUME Ahead(new, ops) PROVE Ahead(more, ops) \/ Ahead(q, ops)
  <2>1. PICK i \in 1..m + n - 1 : new[i].op \in ops
    BY <1>1, <1>4 DEF Ahead
  <2>2. CASE i <= m
    BY <1>1, <2>1, <2>2 DEF Ahead
  <2>3. CASE i > m
    <3>1. new[i] = q[i - m + 1] /\ i - m + 1 \in 1..n
      BY <1>1, <2>3
    <3>2. QED
      BY <2>1, <3>1 DEF Ahead
  <2>4. QED
    BY <1>1, <2>2, <2>3
<1>5. QED
  BY <1>2, <1>3, <1>4

\* A property of every step of a queue.
LEMMA StepsGo ==
  ASSUME NEW S, NEW T, NEW q \in Seq(S), q # <<>>, NEW more \in Seq(S),
         \A i \in 1..Len(q) : q[i] \in T, \A i \in 1..Len(more) : more[i] \in T
  PROVE  \A i \in 1..Len(more \o Tail(q)) : (more \o Tail(q))[i] \in T
<1> DEFINE new == more \o Tail(q)
           m == Len(more)
           n == Len(q)
<1>1. /\ m \in Nat /\ n \in Nat /\ Len(new) = m + n - 1
      /\ \A i \in 1..m : new[i] = more[i]
      /\ \A i \in 1..m + n - 1 : i > m => new[i] = q[i - m + 1]
  BY Positions
<1>2. ASSUME NEW i \in 1..m + n - 1 PROVE new[i] \in T
  <2>1. CASE i <= m
    BY <1>1, <2>1
  <2>2. CASE i > m
    <3>1. new[i] = q[i - m + 1] /\ i - m + 1 \in 1..n
      BY <1>1, <2>2
    <3>2. QED
      BY <3>1
  <2>3. QED
    BY <1>1, <2>1, <2>2
<1> HIDE DEF new, m, n
<1>3. QED
  BY <1>1, <1>2 DEF new

\* A sequence whose elements are all of one kind is a sequence of that kind.
LEMMA StepsAreSeq ==
  ASSUME NEW S, NEW T, NEW q \in Seq(S), \A i \in 1..Len(q) : q[i] \in T
  PROVE  q \in Seq(T)
<1>1. Len(q) \in Nat /\ q \in [1..Len(q) -> S]
  BY LenProperties
<1>2. q \in [1..Len(q) -> T]
  BY <1>1
<1>3. QED
  BY <1>1, <1>2, SeqDef

\* A step that turns a queue is followed by main's last two steps only.
LEMMA OrderedTail ==
  ASSUME NEW S, NEW q \in Seq(S), q # <<>>, Ordered(q), Head(q).op \in Turning
  PROVE  Tail(q) \in Seq(Boot)
<1>1. /\ Head(q) = q[1] /\ 1 \in 1..Len(q) /\ Len(q) \in Nat
      /\ Tail(q) \in Seq(S) /\ Len(Tail(q)) = Len(q) - 1
      /\ \A i \in 1..Len(q) - 1 : Tail(q)[i] = q[i + 1]
  BY Positions, EmptySeq
<1>2. ASSUME NEW i \in 1..Len(Tail(q)) PROVE Tail(q)[i] \in Boot
  <2>1. i + 1 \in 1..Len(q) /\ 1 < i + 1 /\ Tail(q)[i] = q[i + 1]
    BY <1>1
  <2>2. QED
    BY <1>1, <2>1 DEF Ordered
<1>3. QED
  BY <1>1, <1>2, StepsAreSeq

\* Other steps leave the order as it was.
LEMMA OrderedGo ==
  ASSUME NEW S, NEW q \in Seq(S), q # <<>>, Ordered(q), NEW more \in Seq(S),
         \A i \in 1..Len(more) : more[i].op \notin Turning
  PROVE  Ordered(more \o Tail(q))
<1> DEFINE new == more \o Tail(q)
           m == Len(more)
           n == Len(q)
<1>1. /\ m \in Nat /\ n \in Nat /\ Len(new) = m + n - 1
      /\ \A i \in 1..m : new[i] = more[i]
      /\ \A i \in 1..m + n - 1 : i > m => new[i] = q[i - m + 1]
  BY Positions
<1>2. ASSUME NEW i \in 1..m + n - 1, NEW j \in 1..m + n - 1, i < j, new[i].op \in Turning
      PROVE  new[j] \in Boot
  <2>1. i > m
    BY <1>1, <1>2
  <2>2. /\ new[i] = q[i - m + 1] /\ new[j] = q[j - m + 1]
        /\ i - m + 1 \in 1..n /\ j - m + 1 \in 1..n /\ i - m + 1 < j - m + 1
    BY <1>1, <1>2, <2>1
  <2>3. QED
    BY <1>2, <2>2 DEF Ordered
<1> HIDE DEF new, m, n
<1>3. QED
  BY <1>1, <1>2 DEF Ordered, new

\* An ordered program in front of main's last steps is ordered.
LEMMA OrderedBoot ==
  ASSUME NEW S, NEW more \in Seq(S), NEW t \in Seq(S), t \in Seq(Boot), Ordered(more)
  PROVE  Ordered(more \o t)
<1> DEFINE new == more \o t
           m == Len(more)
           n == Len(t)
<1>1. /\ m \in Nat /\ n \in Nat /\ Len(new) = m + n
      /\ \A i \in 1..m + n : new[i] = IF i <= m THEN more[i] ELSE t[i - m]
      /\ \A i \in 1..n : t[i] \in Boot
  BY ConcatProperties, LenProperties, ElementOfSeq
<1>2. ASSUME NEW i \in 1..m + n, NEW j \in 1..m + n, i < j, new[i].op \in Turning
      PROVE  new[j] \in Boot
  <2>1. CASE j <= m
    BY <1>1, <1>2, <2>1 DEF Ordered
  <2>2. CASE j > m
    <3>1. new[j] = t[j - m] /\ j - m \in 1..n
      BY <1>1, <2>2
    <3>2. QED
      BY <1>1, <3>1
  <2>3. QED
    BY <1>1, <2>1, <2>2
<1> HIDE DEF new, m, n
<1>3. QED
  BY <1>1, <1>2 DEF Ordered, new
-----------------------------------------------------------------------------
(* What each step puts in front of the rest.                               *)

Plain == {s \in TypedStep : s.op \notin Turning}

\* Steps that turn no queue.
LEMMA StepPlain ==
  /\ \A p \in ProfileId : Do("activate", p) \in Plain
  /\ Do("deactivate", None) \in Plain
  /\ \A c \in CurveId : Do("profile_fan", c) \in Plain /\ Do("apply_curve", c) \in Plain
  /\ \A c \in CurveId : Must("find_curve", c) \in Plain
  /\ \A c \in CurveId \cup {None} : Do("curve", c) \in Plain
  /\ \A m \in {"auto", "curve"} :
       Do("mode", m) \in Plain /\ Must("mode", m) \in Plain /\ Do("reset", m) \in Plain
  /\ \A l \in {"state", "power"} : Do("release", l) \in Plain
  /\ \A n \in Charge \cup {None} : Do("save_charge", n) \in Plain
  /\ \A n \in Charge :
       Do("charge", n) \in Plain /\ Must("charge", n) \in Plain /\ Do("known", n) \in Plain
  /\ \A s \in AnySource :
       /\ Do("update", s) \in Plain /\ Do("callback", s) \in Plain
       /\ Do("auto_apply", s) \in Plain /\ Do("ceiling", s) \in Plain
  /\ \A op \in {"gate", "restore", "apply_charge", "read_source", "ceiling_of_current"} :
       Do(op, None) \in Plain
  /\ \A l \in Limits : WriteTdp(l, TRUE) \in Seq(Plain) /\ WriteTdp(l, FALSE) \in Seq(Plain)
<1>1. \A s \in Quiet : s.op \notin Turning => s \in Plain
  BY DEF Quiet, Plain
<1>2. \A l \in Limits : /\ [op |-> "stapm", arg |-> l, must |-> TRUE] \in Plain
                        /\ [op |-> "stapm", arg |-> l, must |-> FALSE] \in Plain
  BY DEF Plain, TypedStep, Step, Op, Turning
<1>3. \A l \in Limits : WriteTdp(l, TRUE) \in Seq(Plain) /\ WriteTdp(l, FALSE) \in Seq(Plain)
  <2> SUFFICES ASSUME NEW l \in Limits
               PROVE  WriteTdp(l, TRUE) \in Seq(Plain) /\ WriteTdp(l, FALSE) \in Seq(Plain)
    OBVIOUS
  <2>1. /\ [op |-> "stapm", arg |-> l, must |-> TRUE] \in Plain
        /\ [op |-> "stapm", arg |-> l, must |-> FALSE] \in Plain
    BY <1>2
  <2>2. QED
    BY <2>1 DEF WriteTdp
<1>4. QED
  BY <1>1, <1>3, StepTyped DEF Do, Must, Turning

\* A default profile is applied by steps that turn no queue.
LEMMA AppliedPlain ==
  ASSUME NEW p \in ProfileId
  PROVE  Applied(p) \in Seq(Plain)
<1>1. CASE p \in Adaptive
  BY <1>1, StepPlain DEF Applied
<1>2. CASE p \notin Adaptive
  <2>1. p \in Limits /\ FixedCurve[p] \in CurveId \cup {None}
    BY <1>2, HardwareAssumption DEF Limits, Fixed
  <2> DEFINE fan_steps == IF FixedCurve[p] = None THEN <<Do("mode", "auto")>>
                          ELSE <<Do("apply_curve", FixedCurve[p])>>
  <2>2. fan_steps \in Seq(Plain)
    BY <2>1, StepPlain
  <2>2a. WriteTdp(p, FALSE) \in Seq(Plain)
    BY ONLY <2>1, StepPlain
  <2>3. Applied(p) = WriteTdp(p, FALSE) \o fan_steps
    BY <1>2 DEF Applied
  <2> HIDE DEF fan_steps
  <2>4. QED
    BY <2>2, <2>2a, <2>3, ConcatProperties
<1>3. QED
  BY <1>1, <1>2

\* A step that turns no queue is followed by such steps, or ends its command.
LEMMA PlainMoves ==
  ASSUME TypeInv, NEW d \in Thread, Run(d), Head(todo[d]).op \notin Turning
  PROVE  /\ Busy(d) /\ Head(todo[d]) \in TypedStep
         /\ End(d) \/ \E more \in Seq(Plain) : Go(d, more)
<1> DEFINE Goal == End(d) \/ \E more \in Seq(Plain) : Go(d, more)
<1>0. <<>> \in Seq(Plain)
  BY EmptySeq
<1>a. Busy(d)
  <2>1. \A op : At(d, op) => Busy(d)
    BY DEF At
  <2>2. QED
    BY <2>1 DEF Run, CheckPersist, FindProfile, FindCurve, ProfileFan, Release, SetPersist, SaveCharge,
       ResetConfig, Done, SetMode, SetCurve, WriteStapm, WriteFast, WriteSlow, SetCeiling, SetActive,
       WriteCharge, KnowCharge, ApplyCharge, ReadSource, UpdatePower, Callback, ApplyDefault, ReadCurrent,
       ApplyCurve, ApplyAtStartup, Serve
<1>b. Head(todo[d]) \in TypedStep
  <2>1. todo[d] \in Seq(TypedStep) /\ todo[d] # <<>>
    BY <1>a DEF TypeInv, Queue, Busy
  <2>2. QED
    BY <2>1, HeadTailProperties
<1>c. \A op : At(d, op) => Head(todo[d]).op = op
  BY DEF At
<1>d. Fault(d) => Goal
  BY <1>0 DEF Fault
<1>1. ASSUME \/ CheckPersist(d) \/ FindCurve(d) \/ Release(d) \/ SaveCharge(d) \/ ResetConfig(d)
             \/ SetCurve(d) \/ SetCeiling(d) \/ SetActive(d) \/ KnowCharge(d)
      PROVE  Goal
  BY <1>0, <1>1 DEF CheckPersist, FindCurve, Release, SaveCharge, ResetConfig, SetCurve, SetCeiling,
       SetActive, KnowCharge
<1>2. ASSUME FindProfile(d) \/ SetPersist(d) \/ Done(d) \/ ApplyAtStartup(d) \/ Serve(d)
      PROVE  FALSE
  BY <1>2, <1>c DEF FindProfile, SetPersist, Done, ApplyAtStartup, Serve, Turning
<1>3. ASSUME ProfileFan(d) PROVE Goal
  <2>1. Arg(d) \in CurveId
    BY <1>3, <1>b, <1>c DEF ProfileFan, TypedStep, Arg
  <2> DEFINE fan_steps == IF HasCurve(Arg(d)) THEN <<Do("mode", "curve"), Do("curve", Arg(d))>>
                          ELSE <<Do("mode", "auto"), Do("curve", None)>>
  <2>2. fan_steps \in Seq(Plain) /\ <<Do("release", "state")>> \in Seq(Plain)
    BY <2>1, StepPlain
  <2>3. Go(d, fan_steps \o <<Do("release", "state")>>)
    BY <1>3 DEF ProfileFan
  <2> HIDE DEF fan_steps
  <2>4. QED
    BY <2>2, <2>3, ConcatProperties
<1>4. ASSUME SetMode(d) PROVE Goal
  BY <1>0, <1>4, <1>d DEF SetMode
<1>5. ASSUME WriteStapm(d) \/ WriteFast(d) \/ WriteSlow(d) PROVE Goal
  <2>1. /\ Head(todo[d]).op = "stapm" => <<[Head(todo[d]) EXCEPT !.op = "fast"]>> \in Seq(Plain)
        /\ Head(todo[d]).op = "fast" => <<[Head(todo[d]) EXCEPT !.op = "slow"]>> \in Seq(Plain)
    BY <1>b DEF TypedStep, Step, Op, Plain, Turning
  <2>2. QED
    BY <1>0, <1>5, <1>c, <1>d, <2>1 DEF WriteStapm, WriteFast, WriteSlow
<1>6. ASSUME WriteCharge(d) PROVE Goal
  <2>1. Arg(d) \in Charge
    BY <1>6, <1>b, <1>c DEF WriteCharge, TypedStep, Arg
  <2>2. <<Do("known", Arg(d))>> \in Seq(Plain)
    BY <2>1, StepPlain
  <2>3. QED
    BY <1>6, <1>d, <2>2 DEF WriteCharge
<1>7. ASSUME ApplyCharge(d) PROVE Goal
  <2>1. charge.config # None => <<Do("charge", charge.config)>> \in Seq(Plain)
    BY StepPlain DEF TypeInv, TypeOK
  <2>2. QED
    BY <1>0, <1>7, <2>1 DEF ApplyCharge
<1>8. ASSUME ReadSource(d) PROVE Goal
  <2>1. <<Do("update", source)>> \in Seq(Plain) /\ <<Do("update", Unknown)>> \in Seq(Plain)
    BY StepPlain DEF TypeInv, TypeOK, AnySource
  <2>2. QED
    BY <1>8, <2>1 DEF ReadSource
<1>9. ASSUME UpdatePower(d) PROVE Goal
  <2>1. Arg(d) \in AnySource
    BY <1>9, <1>b, <1>c DEF UpdatePower, TypedStep, Arg
  <2>2. <<Do("callback", Arg(d)), Do("release", "power")>> \in Seq(Plain)
    BY <2>1, StepPlain
  <2>3. QED
    BY <1>0, <1>9, <2>2 DEF UpdatePower
<1>10. ASSUME Callback(d) PROVE Goal
  <2>1. Arg(d) \in AnySource
    BY <1>10, <1>b, <1>c DEF Callback, TypedStep, Arg
  <2>2. <<Do("ceiling", Arg(d)), Do("auto_apply", Arg(d))>> \in Seq(Plain)
    BY <2>1, StepPlain
  <2>3. QED
    BY <1>0, <1>10, <2>2 DEF Callback
<1>11. ASSUME ApplyDefault(d) PROVE Goal
  <2> DEFINE p == DefaultOf(Arg(d))
             stop == <<Do("deactivate", None)>>
  <2>1. At(d, "auto_apply") /\ Head(todo[d]).op = "auto_apply"
    BY <1>11, <1>c DEF ApplyDefault, Turning
  <2>2. /\ p = None => Go(d, <<>>)
        /\ p \in Adaptive /\ p # None => Go(d, Applied(p) \o <<>>)
        /\ p \in Fixed /\ p # None => Go(d, Applied(p) \o stop)
    <3>1. PICK op \in {"auto_apply", "select_for", "startup_select"} :
            /\ At(d, op)
            /\ Go(d, CASE p = None -> IF op = "select_for" THEN stop ELSE <<>>
                      [] p \in Adaptive ->
                           Applied(p) \o (IF op = "auto_apply" THEN <<>> ELSE <<Do("done", p)>>)
                      [] p \in Fixed /\ op = "auto_apply" -> Applied(p) \o stop
                      [] p \in Fixed /\ op = "select_for" -> Applied(p) \o stop \o <<Do("done", p)>>
                      [] p \in Fixed /\ op = "startup_select" -> Applied(p) \o <<Do("done", p)>>)
      BY <1>11 DEF ApplyDefault
    <3>2. op = "auto_apply"
      BY <1>c, <2>1, <3>1
    <3>3. None \notin ProfileId /\ Adaptive \subseteq ProfileId /\ Fixed = ProfileId \ Adaptive
      BY HardwareAssumption DEF Fixed
    <3> HIDE DEF p, stop
    <3>4. QED
      BY <3>1, <3>2, <3>3
  <2>3. p \in ProfileId \cup {None}
    BY <1>b, <2>1, HardwareAssumption DEF TypedStep, Arg, DefaultOf
  <2>4. stop \in Seq(Plain)
    BY StepPlain
  <2>5. p # None => Applied(p) \in Seq(Plain) /\ (p \in Adaptive \/ p \in Fixed)
    BY <2>3, AppliedPlain DEF Fixed
  <2> HIDE DEF p, stop
  <2>6. p # None => Applied(p) \o <<>> \in Seq(Plain) /\ Applied(p) \o stop \in Seq(Plain)
    BY <1>0, <2>4, <2>5, ConcatProperties
  <2>7. QED
    BY <1>0, <2>2, <2>5, <2>6
<1>12. ASSUME ReadCurrent(d) PROVE Goal
  <2>1. <<Do("ceiling", current)>> \in Seq(Plain)
    BY StepPlain DEF TypeInv, TypeOK
  <2>2. QED
    BY <1>12, <1>c, <2>1 DEF ReadCurrent, Turning
<1>13. ASSUME ApplyCurve(d) PROVE Goal
  <2>1. Arg(d) \in CurveId
    BY <1>13, <1>b, <1>c DEF ApplyCurve, TypedStep, Arg
  <2>2. <<Do("mode", "curve"), Do("curve", Arg(d))>> \in Seq(Plain)
    BY <2>1, StepPlain
  <2>3. QED
    BY <1>0, <1>13, <2>2 DEF ApplyCurve
<1> HIDE DEF Goal
<1>14. Goal
  BY <1>1, <1>2, <1>3, <1>4, <1>5, <1>6, <1>7, <1>8, <1>9, <1>10, <1>11, <1>12, <1>13 DEF Run
<1>15. QED
  BY <1>a, <1>b, <1>14 DEF Goal
-----------------------------------------------------------------------------
(* The order of the queues.                                                *)

\* Steps that turn no queue, and one more.
LEMMA OrderedLast ==
  ASSUME NEW S, Plain \subseteq S, NEW body \in Seq(Plain), NEW s \in S
  PROVE  body \o <<s>> \in Seq(S) /\ Ordered(body \o <<s>>)
<1> DEFINE new == body \o <<s>>
           m == Len(body)
<1>1. body \in Seq(S) /\ <<s>> \in Seq(S) /\ Len(<<s>>) = 1 /\ <<s>>[1] = s
  BY SeqMonotonic
<1>2. /\ new \in Seq(S) /\ m \in Nat /\ Len(new) = m + 1
      /\ \A i \in 1..m + 1 : i <= m => new[i] = body[i]
  BY <1>1, ConcatProperties, LenProperties
<1>3. \A i \in 1..m : body[i] \in Plain
  BY ElementOfSeq
<1>4. ASSUME NEW i \in 1..m + 1, NEW j \in 1..m + 1, i < j, new[i].op \in Turning
      PROVE  FALSE
  <2>1. i \in 1..m /\ new[i] = body[i]
    BY <1>2, <1>4
  <2>2. QED
    BY <1>3, <1>4, <2>1 DEF Plain
<1> HIDE DEF new, m
<1>5. QED
  BY <1>2, <1>4 DEF Ordered, new

\* The program of a profile ends with the step that answers.
LEMMA ChosenPlain ==
  ASSUME NEW p \in ProfileId
  PROVE  \E body \in Seq(Plain) : Chosen(p) = body \o <<Do("done", p)>>
<1>1. <<Ceiling(p)>> \in Seq(Plain)
  BY HardwareAssumption, StepPlain DEF Ceiling, AnySource
<1>2. CASE p \in Adaptive
  <2>1. <<Do("activate", p)>> \in Seq(Plain)
    BY StepPlain
  <2>2. <<Ceiling(p)>> \o <<Do("activate", p)>> \in Seq(Plain)
    BY <1>1, <2>1, ConcatProperties
  <2>3. QED
    BY <1>2, <2>2 DEF Chosen
<1>3. CASE p \notin Adaptive
  <2>1. p \in Limits /\ FixedCurve[p] \in CurveId \cup {None}
    BY <1>3, HardwareAssumption DEF Limits, Fixed
  <2> DEFINE fan_steps == IF FixedCurve[p] = None THEN <<Do("mode", "auto"), Do("curve", None)>>
                          ELSE <<Do("profile_fan", FixedCurve[p])>>
             body == <<Ceiling(p)>> \o (WriteTdp(p, TRUE) \o fan_steps \o <<Do("deactivate", None)>>)
  <2>2. fan_steps \in Seq(Plain) /\ <<Do("deactivate", None)>> \in Seq(Plain)
    BY <2>1, StepPlain
  <2>3. WriteTdp(p, TRUE) \in Seq(Plain)
    BY ONLY <2>1, StepPlain
  <2>4. Chosen(p) = body \o <<Do("done", p)>>
    BY <1>3 DEF Chosen
  <2> HIDE DEF fan_steps
  <2>5. WriteTdp(p, TRUE) \o fan_steps \in Seq(Plain)
    BY <2>2, <2>3, ConcatProperties
  <2>6. WriteTdp(p, TRUE) \o fan_steps \o <<Do("deactivate", None)>> \in Seq(Plain)
    BY <2>2, <2>5, ConcatProperties
  <2>7. body \in Seq(Plain)
    BY <1>1, <2>6, ConcatProperties
  <2>8. QED
    BY <2>4, <2>7
<1>4. QED
  BY <1>2, <1>3

\* A default profile is none, or one whose power_state is the source.
LEMMA DefaultAssigned ==
  ASSUME NEW s \in AnySource
  PROVE  /\ DefaultOf(s) \in ProfileId \cup {None}
         /\ DefaultOf(s) # None => Assigned[DefaultOf(s)] = s /\ ~cleared
         /\ DefaultOf(s) = None => DefaultOf(s) \notin Adaptive /\ DefaultOf(s) \notin Fixed
         /\ DefaultOf(s) # None => (DefaultOf(s) \in Adaptive <=> DefaultOf(s) \notin Fixed)
BY HardwareAssumption DEF DefaultOf, Fixed

\* What applying a default puts in front, for each of its three callers.
LEMMA ApplyDefaultGo ==
  ASSUME NEW d \in Thread, ApplyDefault(d)
  PROVE  LET op == Head(todo[d]).op
             p == DefaultOf(Arg(d))
             stop == <<Do("deactivate", None)>>
             done == <<Do("done", p)>>
         IN  /\ Busy(d) /\ op \in {"auto_apply", "select_for", "startup_select"}
             /\ Go(d, CASE p = None -> IF op = "select_for" THEN stop ELSE <<>>
                        [] p \in Adaptive ->
                             Applied(p) \o (IF op = "auto_apply" THEN <<>> ELSE done)
                        [] p \in Fixed /\ op = "auto_apply" -> Applied(p) \o stop
                        [] p \in Fixed /\ op = "select_for" -> Applied(p) \o stop \o done
                        [] p \in Fixed /\ op = "startup_select" -> Applied(p) \o done)
<1>1. PICK op \in {"auto_apply", "select_for", "startup_select"} :
        /\ At(d, op)
        /\ LET p == DefaultOf(Arg(d))
               stop == <<Do("deactivate", None)>>
               done == <<Do("done", p)>>
           IN  Go(d, CASE p = None -> IF op = "select_for" THEN stop ELSE <<>>
                      [] p \in Adaptive ->
                           Applied(p) \o (IF op = "auto_apply" THEN <<>> ELSE done)
                      [] p \in Fixed /\ op = "auto_apply" -> Applied(p) \o stop
                      [] p \in Fixed /\ op = "select_for" -> Applied(p) \o stop \o done
                      [] p \in Fixed /\ op = "startup_select" -> Applied(p) \o done)
  BY DEF ApplyDefault
<1>2. op = Head(todo[d]).op /\ Busy(d)
  BY <1>1 DEF At
<1>3. QED
  BY <1>1, <1>2

\* What apply_all_settings and main put in front when they have chosen the default of
\* a source: a program that stops with its answer, one that touches nothing but the
\* adaptive controller, or nothing.
LEMMA SelectGo ==
  ASSUME TypeInv, NEW d \in Thread, ApplyDefault(d), Head(todo[d]).op # "auto_apply"
  PROVE  LET op == Head(todo[d]).op
             p == DefaultOf(Arg(d))
             stop == IF op = "select_for" THEN <<Do("deactivate", None)>> ELSE <<>>
         IN  /\ Arg(d) \in AnySource /\ stop \in Seq(Plain)
             /\ p = None => Go(d, stop)
             /\ p # None => /\ p \in ProfileId /\ Applied(p) \in Seq(Plain)
                            /\ p \in Adaptive => Go(d, Applied(p) \o <<Do("done", p)>>)
                            /\ p \in Fixed => Go(d, (Applied(p) \o stop) \o <<Do("done", p)>>)
<1> DEFINE op == Head(todo[d]).op
           p == DefaultOf(Arg(d))
           stop == IF op = "select_for" THEN <<Do("deactivate", None)>> ELSE <<>>
<1>1. op \in {"select_for", "startup_select"} /\ Busy(d)
  BY ApplyDefaultGo
<1>2. Head(todo[d]) \in TypedStep
  <2>1. todo[d] \in Seq(TypedStep) /\ todo[d] # <<>>
    BY <1>1 DEF TypeInv, Queue, Busy
  <2>2. QED
    BY <2>1, HeadTailProperties
<1>3. Arg(d) \in AnySource
  BY <1>1, <1>2 DEF TypedStep, Arg
<1>4. stop \in Seq(Plain)
  BY StepPlain, EmptySeq
<1>5. /\ p \in ProfileId \cup {None} /\ None \notin ProfileId
      /\ p = None => p \notin Adaptive /\ p \notin Fixed
      /\ p # None => (p \in Adaptive <=> p \notin Fixed)
  BY <1>3, DefaultAssigned, HardwareAssumption
<1>6. p = None => Go(d, stop)
  <2> HAVE p = None
  <2>1. Go(d, IF op = "select_for" THEN <<Do("deactivate", None)>> ELSE <<>>)
    BY <1>5, ApplyDefaultGo
  <2>2. QED
    BY <2>1
<1>7. p # None => p \in ProfileId /\ Applied(p) \in Seq(Plain)
  BY <1>5, AppliedPlain
<1>8. p # None /\ p \in Adaptive => Go(d, Applied(p) \o <<Do("done", p)>>)
  BY <1>1, <1>5, ApplyDefaultGo
<1>9. p # None /\ p \in Fixed => Go(d, (Applied(p) \o stop) \o <<Do("done", p)>>)
  <2> HAVE p # None /\ p \in Fixed
  <2>1. CASE op = "select_for"
    BY <1>5, <2>1, ApplyDefaultGo
  <2>2. CASE op = "startup_select"
    <3>1. Go(d, Applied(p) \o <<Do("done", p)>>)
      BY <1>5, <2>2, ApplyDefaultGo
    <3>2. Applied(p) \o <<>> = Applied(p)
      BY <1>7, ConcatEmptySeq
    <3>3. stop = <<>>
      BY <2>2
    <3> HIDE DEF p, stop
    <3>4. QED
      BY <3>1, <3>2, <3>3
  <2>3. QED
    BY <1>1, <2>1, <2>2
<1> HIDE DEF op, p, stop
<1>10. QED
  BY <1>3, <1>4, <1>6, <1>7, <1>8, <1>9 DEF op, p, stop

\* The steps of main's end are Serve's.
LEMMA StepIsServe ==
  ASSUME NEW d \in Thread, Run(d), Head(todo[d]).op \in {"serve", "register"}
  PROVE  Serve(d) /\ Busy(d)
<1>1. \A op : At(d, op) => Head(todo[d]).op = op
  BY DEF At
<1>2. ~(CheckPersist(d) \/ FindProfile(d) \/ FindCurve(d) \/ ProfileFan(d) \/ Release(d) \/ SetPersist(d)
        \/ SaveCharge(d) \/ ResetConfig(d) \/ Done(d) \/ SetMode(d) \/ SetCurve(d))
  BY <1>1 DEF CheckPersist, FindProfile, FindCurve, ProfileFan, Release, SetPersist, SaveCharge, ResetConfig,
     Done, SetMode, SetCurve
<1>3. ~(WriteStapm(d) \/ WriteFast(d) \/ WriteSlow(d) \/ SetCeiling(d) \/ SetActive(d)
        \/ WriteCharge(d) \/ KnowCharge(d) \/ ApplyCharge(d))
  BY <1>1 DEF WriteStapm, WriteFast, WriteSlow, SetCeiling, SetActive, WriteCharge, KnowCharge, ApplyCharge
<1>4. ~(ReadSource(d) \/ UpdatePower(d) \/ Callback(d) \/ ApplyDefault(d) \/ ReadCurrent(d) \/ ApplyCurve(d)
        \/ ApplyAtStartup(d))
  BY <1>1 DEF ReadSource, UpdatePower, Callback, ApplyDefault, ReadCurrent, ApplyCurve, ApplyAtStartup
<1>5. Serve(d)
  BY <1>2, <1>3, <1>4 DEF Run
<1>6. QED
  BY <1>5 DEF Serve, At

\* update_power_state's two steps are its own.
LEMMA StepReadsSource ==
  ASSUME NEW d \in Thread, Run(d), Head(todo[d]).op \in {"read_source", "update"}
  PROVE  ReadSource(d) \/ UpdatePower(d)
<1>1. \A op : At(d, op) => Head(todo[d]).op = op
  BY DEF At
<1>2. ~(CheckPersist(d) \/ FindProfile(d) \/ FindCurve(d) \/ ProfileFan(d) \/ Release(d) \/ SetPersist(d)
        \/ SaveCharge(d) \/ ResetConfig(d) \/ Done(d) \/ SetMode(d) \/ SetCurve(d))
  BY <1>1 DEF CheckPersist, FindProfile, FindCurve, ProfileFan, Release, SetPersist, SaveCharge, ResetConfig,
     Done, SetMode, SetCurve
<1>3. ~(WriteStapm(d) \/ WriteFast(d) \/ WriteSlow(d) \/ SetCeiling(d) \/ SetActive(d)
        \/ WriteCharge(d) \/ KnowCharge(d) \/ ApplyCharge(d))
  BY <1>1 DEF WriteStapm, WriteFast, WriteSlow, SetCeiling, SetActive, WriteCharge, KnowCharge, ApplyCharge
<1>4. ~(Serve(d) \/ Callback(d) \/ ApplyDefault(d) \/ ReadCurrent(d) \/ ApplyCurve(d) \/ ApplyAtStartup(d))
  BY <1>1 DEF Serve, Callback, ApplyDefault, ReadCurrent, ApplyCurve, ApplyAtStartup
<1>5. QED
  BY <1>2, <1>3, <1>4 DEF Run

\* A step that turns its queue is followed by an ordered program of its thread's kind.
LEMMA TurnMoves ==
  ASSUME TypeInv, NEW d \in Thread, Run(d), Head(todo[d]).op \in Turning,
         todo[d] \in Seq(StepsOf(d))
  PROVE  /\ Busy(d) /\ Head(todo[d]) \in TypedStep
         /\ End(d) \/ \E more \in Seq(StepsOf(d)) : Go(d, more) /\ Ordered(more)
         /\ phase' = phase \/ (Head(todo[d]).op \in {"serve", "register"} /\ phase' # "startup")
<1> DEFINE S == StepsOf(d)
           Goal == End(d) \/ \E more \in Seq(S) : Go(d, more) /\ Ordered(more)
<1>c. \A op : At(d, op) => Head(todo[d]).op = op /\ Busy(d)
  BY DEF At
<1>a. Busy(d)
  BY <1>c DEF Run, CheckPersist, FindProfile, FindCurve, ProfileFan, Release, SetPersist, SaveCharge,
     ResetConfig, Done, SetMode, SetCurve, WriteStapm, WriteFast, WriteSlow, SetCeiling, SetActive,
     WriteCharge, KnowCharge, ApplyCharge, ReadSource, UpdatePower, Callback, ApplyDefault, ReadCurrent,
     ApplyCurve, ApplyAtStartup, Serve
<1>b. Head(todo[d]) \in TypedStep /\ Head(todo[d]) \in S
  <2>1. todo[d] \in Seq(TypedStep) /\ todo[d] # <<>>
    BY <1>a DEF TypeInv, Queue, Busy
  <2>2. QED
    BY <2>1, HeadTailProperties
<1>0. Plain \subseteq S
  BY DEF Plain, StepsOf, Turning
<1>00. <<>> \in Seq(S) /\ Ordered(<<>>)
  BY EmptySeq DEF Ordered
<1>1. ASSUME FindProfile(d) PROVE Goal
  <2>1. Arg(d) \in ProfileId /\ d # Main
    BY <1>1, <1>b, <1>c DEF FindProfile, TypedStep, Arg, StepsOf
  <2>2. PICK body \in Seq(Plain) : Chosen(Arg(d)) = body \o <<Do("done", Arg(d))>>
    BY <2>1, ChosenPlain
  <2>3. Do("done", Arg(d)) \in S
    BY <2>1, StepTyped DEF StepsOf, Quiet, Do
  <2>4. Chosen(Arg(d)) \in Seq(S) /\ Ordered(Chosen(Arg(d)))
    BY <1>0, <2>2, <2>3, OrderedLast
  <2>5. QED
    BY <1>1, <2>4 DEF FindProfile
<1>2. ASSUME SetPersist(d) PROVE Goal
  <2>1. d # Main
    BY <1>2, <1>b, <1>c DEF SetPersist, StepsOf
  <2>2. <<Do("apply_charge", None), Do("read_source", None)>> \in Seq(Plain)
    BY StepPlain
  <2>3. Do("select", None) \in S
    BY <2>1, StepTyped DEF StepsOf, Quiet, Do
  <2>4. ApplyAll = <<Do("apply_charge", None), Do("read_source", None)>> \o <<Do("select", None)>>
    BY DEF ApplyAll
  <2>5. ApplyAll \in Seq(S) /\ Ordered(ApplyAll)
    BY <1>0, <2>2, <2>3, <2>4, OrderedLast
  <2>6. QED
    BY <1>00, <1>2, <2>5 DEF SetPersist
<1>3. ASSUME ReadCurrent(d) PROVE Goal
  <2>1. At(d, "select")
    BY <1>3, <1>c DEF ReadCurrent, Turning
  <2>2. Go(d, <<Do("ceiling", current), Do("select_for", current)>>) /\ d # Main
    BY <1>3, <1>b, <1>c, <2>1 DEF ReadCurrent, StepsOf
  <2>3. <<Do("ceiling", current)>> \in Seq(Plain)
    BY StepPlain DEF TypeInv, TypeOK
  <2>4. Do("select_for", current) \in S
    BY <2>2, StepTyped DEF StepsOf, Quiet, Do, TypeInv, TypeOK
  <2>5. <<Do("ceiling", current), Do("select_for", current)>>
          = <<Do("ceiling", current)>> \o <<Do("select_for", current)>>
    OBVIOUS
  <2>6. QED
    BY <1>0, <2>2, <2>3, <2>4, <2>5, OrderedLast
<1>4. ASSUME ApplyAtStartup(d) PROVE Goal
  <2>1. d = Main
    BY <1>4, <1>b, <1>c DEF ApplyAtStartup, StepsOf
  <2>2. <<Do("ceiling", current), Do("apply_charge", None)>> \in Seq(Plain)
    BY StepPlain DEF TypeInv, TypeOK
  <2>3. Do("startup_select", current) \in S
    BY <2>1, StepTyped DEF StepsOf, Quiet, Do, TypeInv, TypeOK
  <2>4. <<Do("ceiling", current), Do("apply_charge", None), Do("startup_select", current)>>
          = <<Do("ceiling", current), Do("apply_charge", None)>> \o <<Do("startup_select", current)>>
    OBVIOUS
  <2> DEFINE program == <<Do("ceiling", current), Do("apply_charge", None), Do("startup_select", current)>>
  <2>5. program \in Seq(S) /\ Ordered(program)
    BY <1>0, <2>2, <2>3, <2>4, OrderedLast
  <2>6. Go(d, program) \/ Go(d, <<>>)
    BY <1>4 DEF ApplyAtStartup
  <2> HIDE DEF program
  <2>7. QED
    BY <1>00, <2>5, <2>6
<1>5. ASSUME ApplyDefault(d) PROVE Goal
  <2> DEFINE p == DefaultOf(Arg(d))
             stop == IF Head(todo[d]).op = "select_for" THEN <<Do("deactivate", None)>> ELSE <<>>
  <2>1. /\ stop \in Seq(Plain)
        /\ p = None => Go(d, stop)
        /\ p # None => /\ p \in ProfileId /\ Applied(p) \in Seq(Plain)
                       /\ p \in Adaptive => Go(d, Applied(p) \o <<Do("done", p)>>)
                       /\ p \in Fixed => Go(d, (Applied(p) \o stop) \o <<Do("done", p)>>)
    BY <1>5, SelectGo DEF Turning
  <2>2. p # None => Do("done", p) \in S
    BY <2>1, StepTyped DEF StepsOf, Quiet, Do
  <2> HIDE DEF p, stop
  <2>3. CASE p = None
    <3>1. stop \in Seq(S)
      BY <1>0, <2>1, SeqMonotonic
    <3>2. \A i \in 1..Len(stop) : stop[i] \in Plain
      BY <2>1, ElementOfSeq
    <3>3. Ordered(stop)
      BY <3>2 DEF Ordered, Plain
    <3>4. QED
      BY <2>1, <2>3, <3>1, <3>3
  <2>4. CASE p # None /\ p \in Adaptive
    BY <1>0, <2>1, <2>2, <2>4, OrderedLast
  <2>5. CASE p # None /\ p \in Fixed
    <3>1. Applied(p) \o stop \in Seq(Plain)
      BY <2>1, <2>5, ConcatProperties
    <3>2. QED
      BY <1>0, <2>1, <2>2, <2>5, <3>1, OrderedLast
  <2>6. QED
    BY <2>1, <2>3, <2>4, <2>5 DEF Fixed
<1>6. ASSUME Done(d) \/ Serve(d) PROVE Goal
  BY <1>00, <1>6 DEF Done, Serve
<1>7. FindProfile(d) \/ SetPersist(d) \/ ReadCurrent(d) \/ ApplyAtStartup(d) \/ ApplyDefault(d)
      \/ Done(d) \/ Serve(d)
  <2>1. ~(CheckPersist(d) \/ FindCurve(d) \/ ProfileFan(d) \/ Release(d) \/ SaveCharge(d) \/ ResetConfig(d)
          \/ SetMode(d) \/ SetCurve(d))
    BY <1>c DEF CheckPersist, FindCurve, ProfileFan, Release, SaveCharge, ResetConfig, SetMode, SetCurve, Turning
  <2>2. ~(WriteStapm(d) \/ WriteFast(d) \/ WriteSlow(d) \/ SetCeiling(d) \/ SetActive(d)
          \/ WriteCharge(d) \/ KnowCharge(d) \/ ApplyCharge(d))
    BY <1>c DEF WriteStapm, WriteFast, WriteSlow, SetCeiling, SetActive, WriteCharge, KnowCharge, ApplyCharge,
       Turning
  <2>3. ~(ReadSource(d) \/ UpdatePower(d) \/ Callback(d) \/ ApplyCurve(d))
    BY <1>c DEF ReadSource, UpdatePower, Callback, ApplyCurve, Turning
  <2>4. QED
    BY <2>1, <2>2, <2>3 DEF Run
<1>8. Goal
  BY <1>1, <1>2, <1>3, <1>4, <1>5, <1>6, <1>7
<1>9. phase' = phase \/ (Head(todo[d]).op \in {"serve", "register"} /\ phase' # "startup")
  BY <1>7, <1>c DEF FindProfile, SetPersist, ReadCurrent, ApplyAtStartup, ApplyDefault, Done, Serve, environment
<1>10. QED
  BY <1>a, <1>b, <1>8, <1>9 DEF Goal

\* The other steps leave the phase.
LEMMA PlainPhase ==
  ASSUME NEW d \in Thread, Run(d), Head(todo[d]).op \notin Turning
  PROVE  phase' = phase
<1>1. ~Serve(d)
  BY DEF Serve, At, Turning
<1>2. QED
  BY <1>1 DEF Run, CheckPersist, FindProfile, FindCurve, ProfileFan, Release, SetPersist, SaveCharge,
     ResetConfig, Done, SetMode, SetCurve, WriteStapm, WriteFast, WriteSlow, SetCeiling, SetActive,
     WriteCharge, KnowCharge, ApplyCharge, ReadSource, UpdatePower, Callback, ApplyDefault, ReadCurrent,
     ApplyCurve, ApplyAtStartup, environment

\* A thread's step keeps the order of its queue.
LEMMA QueueRun ==
  ASSUME TypeInv, QueueInv, NEW d \in Thread, Run(d)
  PROVE  QueueInv'
<1> DEFINE q == todo[d]
           S == StepsOf(d)
<1>1. q \in Seq(S) /\ Ordered(q)
  BY DEF QueueInv
<1>2. Busy(d) /\ q # <<>> /\ q \in Seq(TypedStep) /\ Head(q) \in TypedStep
  <2>1. Busy(d) /\ Head(q) \in TypedStep
    BY <1>1, PlainMoves, TurnMoves
  <2>2. QED
    BY <2>1 DEF TypeInv, Queue, Busy
<1>3. Main \in Thread /\ todo \in [Thread -> Queue]
  BY DEF Thread, TypeInv
<1>5. \A e \in Thread \ {d} : todo'[e] = todo[e]
  <2>1. End(d) \/ \E more : Go(d, more)
    BY <1>1, PlainMoves, TurnMoves
  <2>2. QED
    BY <1>3, <2>1 DEF End, Go
<1>6. todo'[d] \in Seq(S) /\ Ordered(todo'[d])
  <2>1. CASE End(d)
    BY <1>3, <2>1, EmptySeq DEF End, Ordered
  <2>2. CASE Head(q).op \notin Turning /\ ~End(d)
    <3>1. PICK more \in Seq(Plain) : Go(d, more)
      BY <2>2, PlainMoves
    <3>2. todo'[d] = more \o Tail(q)
      BY <1>3, <3>1 DEF Go
    <3>3. more \in Seq(S) /\ \A i \in 1..Len(more) : more[i] \in Plain
      <4>1. Plain \subseteq S
        BY DEF Plain, StepsOf, Turning
      <4>2. QED
        BY <4>1, SeqMonotonic, ElementOfSeq
    <3>4. \A i \in 1..Len(more) : more[i].op \notin Turning
      BY <3>3 DEF Plain
    <3> HIDE DEF q, S
    <3>5. more \o Tail(q) \in Seq(S)
      BY <1>1, <1>2, <3>3, Positions
    <3>6. QED
      BY <1>1, <1>2, <3>2, <3>3, <3>4, <3>5, OrderedGo
  <2>3. CASE Head(q).op \in Turning /\ ~End(d)
    <3>1. PICK more \in Seq(S) : Go(d, more) /\ Ordered(more)
      BY <1>1, <2>3, TurnMoves
    <3>2. todo'[d] = more \o Tail(q)
      BY <1>3, <3>1 DEF Go
    <3> HIDE DEF q, S
    <3>3. Tail(q) \in Seq(Boot) /\ Tail(q) \in Seq(S)
      BY <1>1, <1>2, <2>3, OrderedTail, HeadTailProperties
    <3>4. more \o Tail(q) \in Seq(S)
      BY <3>3, ConcatProperties
    <3>5. QED
      BY <3>1, <3>2, <3>3, <3>4, OrderedBoot
  <2>4. QED
    BY <2>1, <2>2, <2>3
<1>7. CASE phase' = "startup"
  <2>1. phase = "startup"
    BY <1>1, <1>7, PlainPhase, TurnMoves
  <2>2. d = Main
    BY <1>2, <2>1 DEF QueueInv, Thread, Busy
  <2>3. \A e \in Dispatcher : todo'[e] = <<>>
    BY <1>5, <2>1, <2>2, HardwareAssumption DEF QueueInv, Thread
  <2>4. QED
    BY <1>5, <1>6, <1>7, <2>3 DEF QueueInv
<1>8. CASE phase' # "startup"
  <2>1. todo'[Main] \in Seq(Boot)
    <3>1. CASE d # Main
      <4>1. phase = phase'
        <5>1. Head(q) \in S
          BY <1>1, <1>2, HeadTailProperties
        <5>2. Head(q).op \notin {"serve", "register"}
          BY <3>1, <5>1 DEF StepsOf
        <5>3. QED
          BY <1>1, <5>2, PlainPhase, TurnMoves
      <4>2. QED
        BY <1>3, <1>5, <1>8, <3>1, <4>1 DEF QueueInv
    <3>2. CASE d = Main
      <4>1. Head(q) \in Boot \/ Head(q).op \in {"serve", "register"}
        <5>1. CASE phase = "startup"
          BY <1>1, <1>8, <5>1, PlainPhase, TurnMoves
        <5>2. CASE phase # "startup"
          <6>1. q \in Seq(Boot)
            BY <3>2, <5>2 DEF QueueInv
          <6>2. QED
            BY <1>2, <6>1, HeadTailProperties
        <5>3. QED
          BY <5>1, <5>2
      <4>2. Head(q).op \in {"serve", "register"}
        BY <4>1 DEF Boot, Do
      <4>3. Serve(d)
        BY <4>2, StepIsServe
      <4>4. todo'[d] = <<>> \o Tail(q)
        BY <1>3, <4>3 DEF Serve, Go
      <4>5. Tail(q) \in Seq(Boot)
        BY <1>1, <1>2, <4>2, OrderedTail DEF Turning
      <4>6. QED
        BY <3>2, <4>4, <4>5, ConcatEmptySeq
    <3>3. QED
      BY <3>1, <3>2
  <2>2. QED
    BY <1>5, <1>6, <1>8, <2>1 DEF QueueInv
<1>9. QED
  BY <1>7, <1>8

\* The commands a dispatcher can start.
LEMMA CommandsOrdered ==
  ASSUME NEW d \in Dispatcher, NEW program \in Command
  PROVE  /\ program \in Seq(StepsOf(d)) /\ Ordered(program)
         /\ ~Ahead(program, {"select_for", "startup_select", "done", "startup"})
<1> DEFINE Fit == {q \in Seq(StepsOf(d)) :
                     Ordered(q) /\ ~Ahead(q, {"select_for", "startup_select", "done", "startup"})}
<1>0. Plain \subseteq StepsOf(d) /\ d # Main
  BY HardwareAssumption DEF Plain, StepsOf, Turning
<1>1. ASSUME NEW q \in Seq(Plain) PROVE q \in Fit
  <2>1. q \in Seq(StepsOf(d)) /\ \A i \in 1..Len(q) : q[i] \in Plain
    BY <1>0, SeqMonotonic, ElementOfSeq
  <2>2. \A i \in 1..Len(q) : q[i].op \notin Turning
    BY <2>1 DEF Plain
  <2>3. QED
    BY <2>1, <2>2 DEF Ordered, Ahead, Turning
<1>2. ASSUME NEW c \in CurveId \cup {None} PROVE SetFanCurve(c) \in Seq(Plain)
  <2> DEFINE find == IF c = None THEN <<>> ELSE <<Must("find_curve", c)>>
  <2>1. find \in Seq(Plain)
    BY StepPlain
  <2>2. <<Gate, Must("mode", "curve")>> \in Seq(Plain)
    BY StepPlain DEF Gate
  <2>3. SetFanCurve(c) = <<Gate, Must("mode", "curve")>> \o find
    BY DEF SetFanCurve
  <2> HIDE DEF find
  <2>4. QED
    BY <2>1, <2>2, <2>3, ConcatProperties
<1>3. SetTdp(Manual) \in Seq(Plain)
  <2>1. <<Gate>> \in Seq(Plain)
    BY StepPlain DEF Gate
  <2>2. Manual \in Limits
    BY DEF Limits
  <2>3. WriteTdp(Manual, TRUE) \in Seq(Plain)
    BY ONLY <2>2, StepPlain
  <2>4. QED
    BY <2>1, <2>3, ConcatProperties DEF SetTdp
<1>4. ASSUME NEW n \in Charge PROVE SetChargeLimit(n) \in Seq(Plain)
  BY StepPlain DEF SetChargeLimit, Gate
<1>5. SetFanAuto \in Seq(Plain) /\ RestoreDefaults \in Seq(Plain)
  BY StepPlain DEF SetFanAuto, Gate, RestoreDefaults
<1>6. ASSUME NEW n \in Charge \cup {None} PROVE <<Do("save_charge", n)>> \in Seq(Plain)
  BY StepPlain
<1>7. ASSUME NEW p \in ProfileId PROVE SetProfile(p) \in Fit
  <2>1. <<Gate>> \in Seq(Plain) /\ Len(<<Gate>>) = 1 /\ <<Gate>>[1] = Gate
    BY StepPlain DEF Gate
  <2>2. Do("find", p) \in StepsOf(d)
    BY <1>0, StepTyped DEF StepsOf, Quiet, Do
  <2>3. SetProfile(p) = <<Gate>> \o <<Do("find", p)>>
    BY DEF SetProfile
  <2>4. SetProfile(p) \in Seq(StepsOf(d)) /\ Ordered(SetProfile(p))
    BY <1>0, <2>1, <2>2, <2>3, OrderedLast
  <2>5. ~Ahead(SetProfile(p), {"select_for", "startup_select", "done", "startup"})
    BY DEF SetProfile, Ahead, Gate, Do
  <2>6. QED
    BY <2>4, <2>5
<1>8. ASSUME NEW s \in {"on", "off"} PROVE <<Do("persist", s)>> \in Fit
  <2>1. Do("persist", s) \in StepsOf(d)
    BY <1>0, StepTyped DEF StepsOf, Quiet, Do
  <2>2. <<Do("persist", s)>> \in Seq(StepsOf(d))
    BY <2>1
  <2>3. ~Ahead(<<Do("persist", s)>>, {"select_for", "startup_select", "done", "startup"})
    BY DEF Ahead, Do
  <2>4. Ordered(<<Do("persist", s)>>)
    BY DEF Ordered
  <2>5. QED
    BY <2>2, <2>3, <2>4
<1> HIDE DEF Fit
<1>9. program \in Fit
  BY <1>1, <1>2, <1>3, <1>4, <1>5, <1>6, <1>7, <1>8 DEF Command
<1>10. QED
  BY <1>9 DEF Fit

\* A dispatcher's new command.
LEMMA BeginQueue ==
  ASSUME TypeInv, QueueInv, NEW d \in Dispatcher, Begin(d)
  PROVE  /\ QueueInv' /\ todo'[d] \in Command
         /\ \A e \in Thread \ {d} : todo'[e] = todo[e]
<1>1. PICK program \in Command : todo' = [todo EXCEPT ![d] = program]
  BY DEF Begin
<1>2. d \in Thread /\ d # Main /\ phase # "startup" /\ phase' = phase
  BY HardwareAssumption DEF Thread, Begin
<1>3. todo'[d] = program /\ \A e \in Thread \ {d} : todo'[e] = todo[e]
  BY <1>1, <1>2 DEF TypeInv
<1>4. program \in Seq(StepsOf(d)) /\ Ordered(program)
  BY CommandsOrdered
<1>5. QED
  BY <1>2, <1>3, <1>4 DEF QueueInv, Thread

\* The queues keep their order.
LEMMA QueueStep == TypeInv /\ QueueInv /\ [Next]_vars => QueueInv'
<1> SUFFICES ASSUME TypeInv, QueueInv, [Next]_vars PROVE QueueInv'
  OBVIOUS
<1>1. ASSUME NEW d \in Dispatcher, Begin(d) PROVE QueueInv'
  BY <1>1, BeginQueue
<1>2. ASSUME NEW d \in Thread, Run(d) PROVE QueueInv'
  BY <1>2, QueueRun
<1>3. CASE Tick \/ ChangeSource \/ UNCHANGED vars
  BY <1>3 DEF Tick, ChangeSource, vars, QueueInv
<1>4. QED
  BY <1>1, <1>2, <1>3 DEF Next

\* The order at the start.
LEMMA InitQueue == Init => QueueInv
<1> SUFFICES ASSUME Init PROVE QueueInv
  OBVIOUS
<1>1. todo[Main] = Startup /\ \A e \in Dispatcher : todo[e] = <<>>
  BY HardwareAssumption DEF Init, Thread
<1>2. Ordered(<<>>)
  BY DEF Ordered
<1>3. Startup \in Seq(StepsOf(Main))
  <2>1. \A op \in {"read_source", "startup", "serve", "register"} : Do(op, None) \in StepsOf(Main)
    BY StepTyped DEF StepsOf, Quiet, Do
  <2>2. QED
    BY <2>1 DEF Startup
<1>4. Ordered(Startup)
  <2>1. Len(Startup) = 4 /\ Startup[1].op \notin Turning /\ Startup[3] \in Boot /\ Startup[4] \in Boot
    BY DEF Startup, Do, Turning, Boot
  <2>2. QED
    BY <2>1 DEF Ordered
<1>5. phase = "startup"
  BY DEF Init
<1>6. QED
  BY <1>1, <1>2, <1>3, <1>4, <1>5, EmptySeq DEF QueueInv, Thread
-----------------------------------------------------------------------------
(* The programs of a profile.                                              *)

\* What is ahead in one of two parts is ahead.
LEMMA AheadConcat ==
  ASSUME NEW S, NEW q \in Seq(S), NEW r \in Seq(S), NEW ops
  PROVE  /\ Ahead(q, ops) => Ahead(q \o r, ops)
         /\ Ahead(r, ops) => Ahead(q \o r, ops)
         /\ Ahead(q \o r, ops) => Ahead(q, ops) \/ Ahead(r, ops)
<1> DEFINE new == q \o r
           m == Len(q)
           n == Len(r)
<1>1. /\ m \in Nat /\ n \in Nat /\ Len(new) = m + n
      /\ \A i \in 1..m + n : new[i] = IF i <= m THEN q[i] ELSE r[i - m]
  BY ConcatProperties, LenProperties
<1>2. ASSUME Ahead(q, ops) PROVE Ahead(new, ops)
  <2>1. PICK i \in 1..m : q[i].op \in ops
    BY <1>2 DEF Ahead
  <2>2. i \in 1..m + n /\ new[i] = q[i]
    BY <1>1
  <2> HIDE DEF new, m, n
  <2>3. QED
    BY <1>1, <2>1, <2>2 DEF Ahead
<1>3. ASSUME Ahead(r, ops) PROVE Ahead(new, ops)
  <2>1. PICK i \in 1..n : r[i].op \in ops
    BY <1>3 DEF Ahead
  <2>2. i + m \in 1..m + n /\ new[i + m] = r[i]
    BY <1>1
  <2> HIDE DEF new, m, n
  <2>3. QED
    BY <1>1, <2>1, <2>2 DEF Ahead
<1>4. ASSUME Ahead(new, ops) PROVE Ahead(q, ops) \/ Ahead(r, ops)
  <2>1. PICK i \in 1..m + n : new[i].op \in ops
    BY <1>1, <1>4 DEF Ahead
  <2>2. CASE i <= m
    BY <1>1, <2>1, <2>2 DEF Ahead
  <2>3. CASE i > m
    <3>1. new[i] = r[i - m] /\ i - m \in 1..n
      BY <1>1, <2>3
    <3>2. QED
      BY <2>1, <3>1 DEF Ahead
  <2>4. QED
    BY <1>1, <2>2, <2>3
<1>5. QED
  BY <1>2, <1>3, <1>4

\* The operations ahead in a queue of main's last two steps, in none, and in one step.
LEMMA AheadFew ==
  ASSUME NEW ops
  PROVE  /\ \A q \in Seq(Boot) : Ahead(q, ops) => "serve" \in ops \/ "register" \in ops
         /\ ~Ahead(<<>>, ops)
         /\ \A s : Ahead(<<s>>, ops) <=> s.op \in ops
         /\ \A s, t : Ahead(<<s, t>>, ops) <=> s.op \in ops \/ t.op \in ops
<1>1. ASSUME NEW q \in Seq(Boot), Ahead(q, ops) PROVE "serve" \in ops \/ "register" \in ops
  <2>1. PICK i \in 1..Len(q) : q[i].op \in ops
    BY <1>1 DEF Ahead
  <2>2. q[i] \in Boot
    BY ElementOfSeq
  <2>3. QED
    BY <2>1, <2>2 DEF Boot, Do
<1>2. ASSUME NEW s PROVE Ahead(<<s>>, ops) <=> s.op \in ops
  BY DEF Ahead
<1>3. ASSUME NEW s, NEW t PROVE Ahead(<<s, t>>, ops) <=> s.op \in ops \/ t.op \in ops
  <2>1. Len(<<s, t>>) = 2 /\ <<s, t>>[1] = s /\ <<s, t>>[2] = t
    OBVIOUS
  <2>2. QED
    BY <2>1 DEF Ahead
<1>4. QED
  BY <1>1, <1>2, <1>3 DEF Ahead

\* A step is ahead of itself.
LEMMA AheadOne ==
  ASSUME NEW s, NEW ops, s.op \in ops
  PROVE  Ahead(<<s>>, ops)
BY AheadFew

\* A program of one step, or of two.
LEMMA AheadDo ==
  ASSUME NEW op, NEW arg, NEW ops
  PROVE  /\ Ahead(<<Do(op, arg)>>, ops) <=> op \in ops
         /\ \A op2, arg2 : Ahead(<<Do(op, arg), Do(op2, arg2)>>, ops) <=> op \in ops \/ op2 \in ops
<1>1. Do(op, arg).op = op
  BY DEF Do
<1>2. Ahead(<<Do(op, arg)>>, ops) <=> op \in ops
  BY <1>1, AheadFew
<1>3. ASSUME NEW op2, NEW arg2
      PROVE  Ahead(<<Do(op, arg), Do(op2, arg2)>>, ops) <=> op \in ops \/ op2 \in ops
  <2>1. Do(op2, arg2).op = op2
    BY DEF Do
  <2> DEFINE s == Do(op, arg)
             t == Do(op2, arg2)
  <2>2. s.op = op /\ t.op = op2
    BY <1>1, <2>1
  <2> HIDE DEF s, t
  <2>3. Ahead(<<s, t>>, ops) <=> op \in ops \/ op2 \in ops
    BY <2>2, AheadFew
  <2>4. QED
    BY <2>3 DEF s, t
<1>4. QED
  BY <1>2, <1>3

\* The steps that a profile's programs are made of.
LEMMA RightSteps ==
  ASSUME TypeInv, NEW p \in ProfileId
  PROVE  /\ Ceiling(p) \in Right(p) /\ Do("done", p) \in Right(p)
         /\ Boot \subseteq Right(p)
         /\ p \in Adaptive => Do("activate", p) \in Right(p)
         /\ p \in Fixed =>
              /\ Do("deactivate", None) \in Right(p)
              /\ \A b \in BOOLEAN : WriteTdp(p, b) \in Seq(Right(p)) /\ Ahead(WriteTdp(p, b), StapmSteps)
              /\ Do("mode", ModeOf(p)) \in Right(p) /\ Do("curve", FixedCurve[p]) \in Right(p)
              /\ Do("release", "state") \in Right(p)
              /\ FixedCurve[p] # None => /\ Do("profile_fan", FixedCurve[p]) \in Right(p)
                                         /\ Do("apply_curve", FixedCurve[p]) \in Right(p)
<1> USE DEF Right, ActiveOf, ModeOf, CeilingOf
<1>0. \A s \in Quiet : s \in TypedStep
  BY DEF Quiet
<1>1. Ceiling(p) \in Right(p)
  BY <1>0, StepTyped, HardwareAssumption DEF Ceiling, Do, AnySource
<1>2. Do("done", p) \in Right(p) /\ Boot \subseteq Right(p)
  <2>1. Do("serve", None) \in TypedStep /\ Do("register", None) \in TypedStep /\ Do("done", p) \in TypedStep
    BY <1>0, StepTyped
  <2>2. QED
    BY <2>1 DEF Do, Boot
<1>3. p \in Adaptive => Do("activate", p) \in Right(p)
  BY <1>0, StepTyped DEF Do
<1>4. ASSUME p \in Fixed
      PROVE  /\ Do("deactivate", None) \in Right(p)
             /\ \A b \in BOOLEAN : WriteTdp(p, b) \in Seq(Right(p)) /\ Ahead(WriteTdp(p, b), StapmSteps)
             /\ Do("mode", ModeOf(p)) \in Right(p) /\ Do("curve", FixedCurve[p]) \in Right(p)
             /\ Do("release", "state") \in Right(p)
             /\ FixedCurve[p] # None => /\ Do("profile_fan", FixedCurve[p]) \in Right(p)
                                        /\ Do("apply_curve", FixedCurve[p]) \in Right(p)
  <2>1. p \in Limits /\ p \notin Adaptive /\ FixedCurve[p] \in CurveId \cup {None}
    BY <1>4, HardwareAssumption DEF Limits, Fixed
  <2>2. Do("deactivate", None) \in Right(p) /\ Do("release", "state") \in Right(p)
    BY <1>0, <1>4, <2>1, StepTyped DEF Do
  <2>3. Do("mode", ModeOf(p)) \in Right(p) /\ Do("curve", FixedCurve[p]) \in Right(p)
    BY <1>0, <1>4, <2>1, StepTyped DEF Do
  <2>4. FixedCurve[p] # None => /\ Do("profile_fan", FixedCurve[p]) \in Right(p)
                                /\ Do("apply_curve", FixedCurve[p]) \in Right(p)
    BY <1>0, <1>4, <2>1, StepTyped DEF Do
  <2>5. ASSUME NEW b \in BOOLEAN PROVE WriteTdp(p, b) \in Seq(Right(p)) /\ Ahead(WriteTdp(p, b), StapmSteps)
    <3> DEFINE s == [op |-> "stapm", arg |-> p, must |-> b]
    <3>1. s \in TypedStep
      BY <2>1 DEF TypedStep, Step, Op
    <3>2. s \in Right(p)
      BY <1>4, <3>1
    <3>3. WriteTdp(p, b) = <<s>> /\ s.op \in StapmSteps
      BY DEF WriteTdp, StapmSteps
    <3> HIDE DEF s
    <3>4. <<s>> \in Seq(Right(p))
      BY <3>2
    <3>5. QED
      BY <3>3, <3>4, AheadFew
  <2>6. QED
    BY <2>2, <2>3, <2>4, <2>5
<1>5. QED
  BY <1>1, <1>2, <1>3, <1>4

\* Everything that a profile asks is ahead in set_profile's program.
LEMMA ChosenRight ==
  ASSUME TypeInv, NEW p \in ProfileId
  PROVE  Chosen(p) \in Seq(Right(p)) /\ Heading(p, Chosen(p))
<1> DEFINE R == Right(p)
           c == <<Ceiling(p)>>
           z == <<Do("done", p)>>
<1>1. c \in Seq(R) /\ z \in Seq(R)
  BY RightSteps
<1>2. Ahead(c, CeilingSteps)
  BY AheadDo DEF Ceiling, CeilingSteps
<1>3. CASE p \in Adaptive
  <2> DEFINE a == <<Do("activate", p)>>
  <2>1. a \in Seq(R)
    BY <1>3, RightSteps
  <2>1a. Ahead(a, ActiveSteps)
    BY AheadDo DEF ActiveSteps
  <2>2. Chosen(p) = (c \o a) \o z /\ p \notin Fixed
    BY <1>3 DEF Chosen, Fixed
  <2> HIDE DEF R, c, a, z
  <2>3. c \o a \in Seq(R) /\ Ahead(c \o a, ActiveSteps) /\ Ahead(c \o a, CeilingSteps)
    BY <1>1, <1>2, <2>1, <2>1a, ConcatProperties, AheadConcat
  <2>4. /\ (c \o a) \o z \in Seq(R)
        /\ Ahead((c \o a) \o z, ActiveSteps) /\ Ahead((c \o a) \o z, CeilingSteps)
    BY <1>1, <2>3, ConcatProperties, AheadConcat
  <2>5. QED
    BY <2>2, <2>4 DEF Heading, R
<1>4. CASE p \notin Adaptive
  <2> DEFINE t == WriteTdp(p, TRUE)
             f == IF FixedCurve[p] = None THEN <<Do("mode", "auto"), Do("curve", None)>>
                  ELSE <<Do("profile_fan", FixedCurve[p])>>
             a == <<Do("deactivate", None)>>
  <2>1. p \in Fixed
    BY <1>4 DEF Fixed
  <2>2. t \in Seq(R) /\ Ahead(t, StapmSteps)
    BY <2>1, RightSteps
  <2>3. a \in Seq(R)
    BY <2>1, RightSteps
  <2>3a. Ahead(a, ActiveSteps)
    BY AheadDo DEF ActiveSteps
  <2>4. f \in Seq(R)
    BY <2>1, RightSteps DEF ModeOf
  <2>4a. Ahead(f, ModeSteps) /\ Ahead(f, CurveSteps)
    <3>1. "mode" \in ModeSteps /\ "curve" \in CurveSteps
      BY DEF ModeSteps, CurveSteps
    <3>2. /\ Ahead(<<Do("mode", "auto"), Do("curve", None)>>, ModeSteps)
          /\ Ahead(<<Do("mode", "auto"), Do("curve", None)>>, CurveSteps)
      BY <3>1, AheadDo
    <3>3. /\ Ahead(<<Do("profile_fan", FixedCurve[p])>>, ModeSteps)
          /\ Ahead(<<Do("profile_fan", FixedCurve[p])>>, CurveSteps)
      BY AheadDo DEF ModeSteps, CurveSteps
    <3>4. QED
      BY <3>2, <3>3
  <2>5. Chosen(p) = (c \o ((t \o f) \o a)) \o z
    BY <1>4 DEF Chosen
  <2> HIDE DEF R, c, t, f, a, z
  <2>6. /\ t \o f \in Seq(R) /\ Ahead(t \o f, StapmSteps)
        /\ Ahead(t \o f, ModeSteps) /\ Ahead(t \o f, CurveSteps)
    BY <2>2, <2>4, <2>4a, ConcatProperties, AheadConcat
  <2>7. /\ (t \o f) \o a \in Seq(R) /\ Ahead((t \o f) \o a, StapmSteps) /\ Ahead((t \o f) \o a, ActiveSteps)
        /\ Ahead((t \o f) \o a, ModeSteps) /\ Ahead((t \o f) \o a, CurveSteps)
    BY <2>3, <2>3a, <2>6, ConcatProperties, AheadConcat
  <2> DEFINE g == (t \o f) \o a
  <2> HIDE DEF g
  <2>8. /\ c \o g \in Seq(R) /\ Ahead(c \o g, StapmSteps) /\ Ahead(c \o g, ActiveSteps)
        /\ Ahead(c \o g, ModeSteps) /\ Ahead(c \o g, CurveSteps) /\ Ahead(c \o g, CeilingSteps)
    BY <1>1, <1>2, <2>7, ConcatProperties, AheadConcat DEF g
  <2> DEFINE w == (c \o g) \o z
  <2>9. /\ w \in Seq(R) /\ Ahead(w, StapmSteps) /\ Ahead(w, ActiveSteps)
        /\ Ahead(w, ModeSteps) /\ Ahead(w, CurveSteps) /\ Ahead(w, CeilingSteps)
    BY <1>1, <2>8, ConcatProperties, AheadConcat
  <2>10. Chosen(p) = w
    BY <2>5 DEF g
  <2> HIDE DEF w
  <2>11. Ahead(w, FastSteps) /\ Ahead(w, SlowSteps)
    BY <2>9 DEF Ahead, StapmSteps, FastSteps, SlowSteps
  <2>12. QED
    BY <2>9, <2>10, <2>11 DEF Heading, R
<1>5. QED
  BY <1>3, <1>4

\* Everything that a source's default asks is so or ahead in its program, once the
\* source's ceiling is set, and unless its caller leaves the adaptive controller alone.
LEMMA AppliedRight ==
  ASSUME TypeInv, NEW p \in ProfileId, adaptive.ceiling = CeilingOf(p),
         NEW stop \in {<<>>, <<Do("deactivate", None)>>},
         stop = <<>> => adaptive.active = None
  PROVE  /\ p \in Adaptive => /\ Applied(p) \o <<Do("done", p)>> \in Seq(Right(p))
                              /\ Heading(p, Applied(p) \o <<Do("done", p)>>)
         /\ p \in Fixed => /\ (Applied(p) \o stop) \o <<Do("done", p)>> \in Seq(Right(p))
                           /\ Heading(p, (Applied(p) \o stop) \o <<Do("done", p)>>)
<1> DEFINE R == Right(p)
           z == <<Do("done", p)>>
<1>1. z \in Seq(R)
  BY RightSteps
<1>2. CASE p \in Adaptive
  <2> DEFINE a == <<Do("activate", p)>>
  <2>1. a \in Seq(R)
    BY <1>2, RightSteps
  <2>1a. Ahead(a, ActiveSteps)
    BY AheadDo DEF ActiveSteps
  <2>2. Applied(p) = a /\ p \notin Fixed
    BY <1>2 DEF Applied, Fixed
  <2> HIDE DEF R, a, z
  <2>3. a \o z \in Seq(R) /\ Ahead(a \o z, ActiveSteps)
    BY <1>1, <2>1, <2>1a, ConcatProperties, AheadConcat
  <2>4. QED
    BY <2>2, <2>3 DEF Heading, R, z
<1>3. CASE p \notin Adaptive
  <2> DEFINE t == WriteTdp(p, FALSE)
             f == IF FixedCurve[p] = None THEN <<Do("mode", "auto")>>
                  ELSE <<Do("apply_curve", FixedCurve[p])>>
  <2>2. t \in Seq(R) /\ Ahead(t, StapmSteps)
    BY <1>3, RightSteps DEF Fixed
  <2>3. stop \in Seq(R)
    <3>1. <<>> \in Seq(R)
      BY EmptySeq
    <3>2. Do("deactivate", None) \in R
      BY <1>3, RightSteps DEF Fixed
    <3>3. <<Do("deactivate", None)>> \in Seq(R)
      BY <3>2
    <3> HIDE DEF R
    <3>4. QED
      BY <3>1, <3>3
  <2>3a. adaptive.active = ActiveOf(p) \/ Ahead(stop, ActiveSteps)
    BY <1>3, AheadDo DEF ActiveSteps, ActiveOf
  <2>4. f \in Seq(R)
    BY <1>3, RightSteps DEF ModeOf, Fixed
  <2>4a. Ahead(f, ModeSteps) /\ (ModeOf(p) = "auto" \/ Ahead(f, CurveSteps))
    BY AheadDo DEF ModeSteps, CurveSteps, ModeOf
  <2>5. Applied(p) = t \o f
    BY <1>3 DEF Applied
  <2> DEFINE g == (t \o f) \o stop
             w == g \o z
  <2> HIDE DEF R, t, f, z
  <2>6. /\ t \o f \in Seq(R) /\ Ahead(t \o f, StapmSteps)
        /\ Ahead(t \o f, ModeSteps) /\ (ModeOf(p) = "auto" \/ Ahead(t \o f, CurveSteps))
    BY <2>2, <2>4, <2>4a, ConcatProperties, AheadConcat
  <2>7. /\ g \in Seq(R) /\ Ahead(g, StapmSteps) /\ (adaptive.active = ActiveOf(p) \/ Ahead(g, ActiveSteps))
        /\ Ahead(g, ModeSteps) /\ (ModeOf(p) = "auto" \/ Ahead(g, CurveSteps))
    BY <2>3, <2>3a, <2>6, ConcatProperties, AheadConcat
  <2> HIDE DEF g
  <2>8. /\ w \in Seq(R) /\ Ahead(w, StapmSteps) /\ (adaptive.active = ActiveOf(p) \/ Ahead(w, ActiveSteps))
        /\ Ahead(w, ModeSteps) /\ (ModeOf(p) = "auto" \/ Ahead(w, CurveSteps))
    BY <1>1, <2>7, ConcatProperties, AheadConcat
  <2>9. w = (Applied(p) \o stop) \o <<Do("done", p)>>
    BY <2>5 DEF g, z
  <2> HIDE DEF w
  <2>10. Ahead(w, FastSteps) /\ Ahead(w, SlowSteps)
    BY <2>8 DEF Ahead, StapmSteps, FastSteps, SlowSteps
  <2>11. w \in Seq(Right(p)) /\ Heading(p, w)
    BY <2>8, <2>10 DEF Heading, R
  <2>12. QED
    BY <1>3, <2>9, <2>11
<1>4. QED
  BY <1>2, <1>3
-----------------------------------------------------------------------------
(* The only thread at work.                                                *)

\* What a thread's step does to the queue of the thread.
LEMMA QueueGo ==
  ASSUME TypeInv, NEW d \in Thread, Busy(d), NEW more \in Seq(TypedStep), Go(d, more)
  PROVE  /\ todo[d] \in Seq(TypedStep) /\ todo[d] # <<>> /\ todo'[d] = more \o Tail(todo[d])
         /\ \A ops : Ahead(todo[d], ops) => Head(todo[d]).op \in ops \/ Ahead(todo'[d], ops)
         /\ \A ops : Ahead(more, ops) => Ahead(todo'[d], ops)
         /\ \A ops : Ahead(todo'[d], ops) => Ahead(more, ops) \/ Ahead(todo[d], ops)
<1>1. todo[d] \in Seq(TypedStep) /\ todo[d] # <<>>
  BY DEF TypeInv, Queue, Busy
<1>2. todo'[d] = more \o Tail(todo[d])
  BY DEF TypeInv, Go
<1>3. QED
  BY <1>1, <1>2, AheadGo

\* A step of a profile's program leaves steps of its program.
LEMMA RightGo ==
  ASSUME TypeInv, NEW d \in Thread, Busy(d), NEW p, todo[d] \in Seq(Right(p)),
         NEW more \in Seq(Right(p)), Go(d, more), UNCHANGED current
  PROVE  /\ (todo[d] \in Seq(Right(p)))'
         /\ \A ops : Ahead(todo[d], ops) => Head(todo[d]).op \in ops \/ Ahead(todo[d], ops)'
         /\ \A ops : Ahead(more, ops) => Ahead(todo[d], ops)'
<1>1. more \in Seq(TypedStep)
  BY SeqMonotonic DEF Right
<1>2. todo[d] # <<>> /\ todo'[d] = more \o Tail(todo[d])
  BY <1>1, QueueGo
<1>3. more \o Tail(todo[d]) \in Seq(Right(p))
  BY <1>2, Positions
<1>4. Right(p)' = Right(p)
  BY DEF Right, CeilingOf
<1>5. QED
  BY <1>1, <1>2, <1>3, <1>4, QueueGo

\* The first of a queue's steps.
LEMMA HeadIn ==
  ASSUME NEW d, NEW S, todo[d] \in Seq(S), Busy(d)
  PROVE  Head(todo[d]) \in S /\ \A ops : Head(todo[d]).op \in ops => Ahead(todo[d], ops)
<1>1. todo[d] # <<>>
  BY DEF Busy
<1>2. Head(todo[d]) = todo[d][1] /\ 1 \in 1..Len(todo[d]) /\ Head(todo[d]) \in S
  BY <1>1, HeadTailProperties, LenProperties, EmptySeq
<1>3. QED
  BY <1>2 DEF Ahead

\* A step that leaves what a profile asks of one register or controller, or makes it so.
LEMMA HeadingGo ==
  ASSUME TypeInv, NEW d \in Thread, Busy(d), NEW p \in ProfileId, Bound(p, todo[d]),
         NEW more \in Seq(Right(p)), Go(d, more), UNCHANGED <<current, cleared, inforce>>,
         adaptive'.ceiling = adaptive.ceiling \/ adaptive'.ceiling = CeilingOf(p),
         adaptive'.active = adaptive.active \/ adaptive'.active = ActiveOf(p),
         \A l \in {"stapm", "fast", "slow"} : limits'[l] = limits[l] \/ limits'[l] = p,
         \/ fan'.mode = fan.mode /\ fan'.ec = fan.ec
         \/ fan'.mode = ModeOf(p) /\ fan'.ec = ModeOf(p),
         fan'.curve = fan.curve \/ fan'.curve = FixedCurve[p],
         Head(todo[d]).op \in CeilingSteps =>
           adaptive'.ceiling = CeilingOf(p) \/ Ahead(more, CeilingSteps),
         Head(todo[d]).op \in ActiveSteps => adaptive'.active = ActiveOf(p),
         Head(todo[d]).op \in StapmSteps => limits'["stapm"] = p,
         Head(todo[d]).op \in FastSteps => limits'["fast"] = p \/ Ahead(more, FastSteps),
         Head(todo[d]).op \in SlowSteps => limits'["slow"] = p \/ Ahead(more, SlowSteps),
         Head(todo[d]).op \in ModeSteps =>
           (fan'.mode = ModeOf(p) /\ fan'.ec = ModeOf(p)) \/ Ahead(more, ModeSteps),
         Head(todo[d]).op \in CurveSteps =>
           fan'.curve = FixedCurve[p] \/ Ahead(more, CurveSteps)
  PROVE  Bound(p, todo[d])'
<1>1. todo[d] \in Seq(Right(p)) /\ Heading(p, todo[d]) /\ ~cleared /\ inforce = None
  BY DEF Bound
<1>2. /\ (todo[d] \in Seq(Right(p)))'
      /\ \A ops : Ahead(todo[d], ops) => Head(todo[d]).op \in ops \/ Ahead(todo[d], ops)'
      /\ \A ops : Ahead(more, ops) => Ahead(todo[d], ops)'
  BY <1>1, RightGo
<1>3. CeilingOf(p)' = CeilingOf(p)
  BY DEF CeilingOf
<1>4. (adaptive.ceiling = CeilingOf(p) \/ Ahead(todo[d], CeilingSteps))'
  BY <1>1, <1>2, <1>3 DEF Heading
<1>5. (adaptive.active = ActiveOf(p) \/ Ahead(todo[d], ActiveSteps))'
  BY <1>1, <1>2 DEF Heading
<1>6. p \in Fixed => (limits["stapm"] = p \/ Ahead(todo[d], StapmSteps))'
  BY <1>1, <1>2 DEF Heading
<1>7. p \in Fixed => (limits["fast"] = p \/ Ahead(todo[d], FastSteps))'
  BY <1>1, <1>2 DEF Heading
<1>8. p \in Fixed => (limits["slow"] = p \/ Ahead(todo[d], SlowSteps))'
  BY <1>1, <1>2 DEF Heading
<1>9. p \in Fixed => ((fan.mode = ModeOf(p) /\ fan.ec = ModeOf(p)) \/ Ahead(todo[d], ModeSteps))'
  BY <1>1, <1>2 DEF Heading
<1>10. p \in Fixed => (ModeOf(p) = "auto" \/ fan.curve = FixedCurve[p] \/ Ahead(todo[d], CurveSteps))'
  BY <1>1, <1>2 DEF Heading
<1>11. Heading(p, todo[d])'
  BY <1>4, <1>5, <1>6, <1>7, <1>8, <1>9, <1>10 DEF Heading
<1>12. QED
  BY <1>1, <1>2, <1>11 DEF Bound

\* The steps of a profile's program lead on to it, and its answer finds it in force.
LEMMA BoundRun ==
  ASSUME TypeInv, QueueInv, NEW d \in Thread, Run(d), solo = d, solo' = d,
         NEW p \in ProfileId, Bound(p, todo[d])
  PROVE  Bound(p, todo[d])' \/ Settled(todo[d])'
<1> DEFINE h == Head(todo[d])
           Goal == Bound(p, todo[d])' \/ Settled(todo[d])'
<1>1. Busy(d)
  BY PlainMoves, TurnMoves DEF QueueInv
<1>2. todo[d] \in Seq(Right(p)) /\ Heading(p, todo[d]) /\ ~cleared /\ inforce = None
  BY DEF Bound
<1>3. h \in Right(p)
  BY <1>1, <1>2, HeadIn
<1>4. \A op : At(d, op) => h.op = op
  BY DEF At
<1>5. ~Fault(d)
  <2>1. d # None
    BY HardwareAssumption
  <2>2. QED
    BY <2>1 DEF Fault
<1>6. <<>> \in Seq(Right(p)) /\ p \in ProfileId
  BY EmptySeq
<1>7. /\ adaptive \in [active: ProfileId \cup {None}, ceiling: AnySource \cup {None}]
      /\ limits \in [{"stapm", "fast", "slow"} -> Limits]
      /\ fan \in [mode: {"auto", "curve"}, curve: CurveId \cup {None}, ec: {"auto", "curve"}]
  BY DEF TypeInv, TypeOK
<1>8. Arg(d) = h.arg
  BY DEF Arg
<1> USE DEF CeilingSteps, ActiveSteps, StapmSteps, FastSteps, SlowSteps, ModeSteps, CurveSteps
<1>9. ASSUME SetCeiling(d) PROVE Goal
  <2>1. h.op = "ceiling" /\ Go(d, <<>>) /\ adaptive' = [adaptive EXCEPT !.ceiling = CeilingOf(p)]
    BY <1>3, <1>4, <1>8, <1>9 DEF SetCeiling, Right
  <2>2. UNCHANGED <<limits, fan, current, cleared, inforce>>
    BY <1>9 DEF SetCeiling, config, history
  <2>3. QED
    BY <1>1, <1>6, <1>7, <2>1, <2>2, HeadingGo
<1>10. ASSUME ReadCurrent(d) PROVE Goal
  <2>1. h.op = "ceiling_of_current" /\ Go(d, <<Do("ceiling", current)>>) /\ Assigned[p] = None
    BY <1>3, <1>4, <1>10 DEF ReadCurrent, Right
  <2>2. UNCHANGED <<adaptive, limits, fan, current, cleared, inforce>>
    BY <1>10 DEF ReadCurrent, config, history, controllers
  <2>3. Do("ceiling", current) \in Right(p)
    <3>1. Do("ceiling", current) \in TypedStep
      BY StepTyped DEF Quiet, TypeInv, TypeOK
    <3>2. QED
      BY <2>1, <3>1 DEF Right, Do, CeilingOf
  <2>4. <<Do("ceiling", current)>> \in Seq(Right(p)) /\ Ahead(<<Do("ceiling", current)>>, CeilingSteps)
    BY <2>3, AheadDo
  <2>5. QED
    BY <1>1, <1>7, <2>1, <2>2, <2>4, HeadingGo
<1>11. ASSUME SetActive(d) PROVE Goal
  <2>1. /\ h.op \in {"activate", "deactivate"} /\ Go(d, <<>>)
        /\ adaptive' = [adaptive EXCEPT !.active = ActiveOf(p)]
    BY <1>3, <1>4, <1>8, <1>11 DEF SetActive, Right
  <2>2. UNCHANGED <<limits, fan, current, cleared, inforce>>
    BY <1>11 DEF SetActive, config, history
  <2>3. QED
    BY <1>1, <1>6, <1>7, <2>1, <2>2, HeadingGo
<1>12. ASSUME WriteStapm(d) PROVE Goal
  <2>1. /\ h.op = "stapm" /\ Go(d, <<[h EXCEPT !.op = "fast"]>>)
        /\ limits' = [limits EXCEPT !["stapm"] = p]
        /\ UNCHANGED <<adaptive, fan, current, cleared, inforce>>
    BY <1>3, <1>4, <1>5, <1>8, <1>12 DEF WriteStapm, Right, config, history
  <2>2. [h EXCEPT !.op = "fast"] \in Right(p) /\ [h EXCEPT !.op = "fast"].op = "fast"
    BY <1>3, <2>1 DEF Right, TypedStep, Step, Op
  <2> DEFINE s == [h EXCEPT !.op = "fast"]
  <2>3. <<s>> \in Seq(Right(p))
    BY <2>2
  <2>3a. Ahead(<<s>>, FastSteps) /\ Ahead(<<s>>, SlowSteps)
    <3>1. s.op = "fast" /\ "fast" \in SlowSteps /\ "fast" \in FastSteps
      BY <2>2
    <3> HIDE DEF s, FastSteps, SlowSteps
    <3>2. Ahead(<<s>>, FastSteps)
      BY ONLY <3>1, AheadOne
    <3>3. Ahead(<<s>>, SlowSteps)
      BY ONLY <3>1, AheadOne
    <3>4. QED
      BY <3>2, <3>3
  <2> HIDE DEF s
  <2>4. QED
    BY <1>1, <1>7, <2>1, <2>3, <2>3a, HeadingGo DEF s
<1>13. ASSUME WriteFast(d) PROVE Goal
  <2>1. /\ h.op = "fast" /\ Go(d, <<[h EXCEPT !.op = "slow"]>>)
        /\ limits' = [limits EXCEPT !["fast"] = p]
        /\ UNCHANGED <<adaptive, fan, current, cleared, inforce>>
    BY <1>3, <1>4, <1>5, <1>8, <1>13 DEF WriteFast, Right, config, history
  <2>2. [h EXCEPT !.op = "slow"] \in Right(p) /\ [h EXCEPT !.op = "slow"].op = "slow"
    BY <1>3, <2>1 DEF Right, TypedStep, Step, Op
  <2> DEFINE s == [h EXCEPT !.op = "slow"]
  <2>3. <<s>> \in Seq(Right(p))
    BY <2>2
  <2>3a. Ahead(<<s>>, SlowSteps)
    <3>1. s.op = "slow" /\ "slow" \in SlowSteps
      BY <2>2
    <3> HIDE DEF s, FastSteps, SlowSteps
    <3>2. QED
      BY <3>1, AheadFew
  <2> HIDE DEF s
  <2>4. QED
    BY <1>1, <1>7, <2>1, <2>3, <2>3a, HeadingGo DEF s
<1>14. ASSUME WriteSlow(d) PROVE Goal
  <2>1. /\ h.op = "slow" /\ Go(d, <<>>)
        /\ limits' = [limits EXCEPT !["slow"] = p]
        /\ UNCHANGED <<adaptive, fan, current, cleared, inforce>>
    BY <1>3, <1>4, <1>5, <1>8, <1>14 DEF WriteSlow, Right, config
  <2>2. QED
    BY <1>1, <1>6, <1>7, <2>1, HeadingGo
<1>15. ASSUME SetMode(d) PROVE Goal
  <2>1. /\ h.op = "mode" /\ Go(d, <<>>)
        /\ fan' = [fan EXCEPT !.mode = ModeOf(p), !.ec = ModeOf(p)]
        /\ UNCHANGED <<adaptive, limits, current, cleared, inforce>>
    BY <1>3, <1>4, <1>5, <1>8, <1>15 DEF SetMode, Right, config, history
  <2>2. QED
    BY <1>1, <1>6, <1>7, <2>1, HeadingGo
<1>16. ASSUME SetCurve(d) PROVE Goal
  <2>1. /\ h.op = "curve" /\ Go(d, <<>>)
        /\ fan' = [fan EXCEPT !.curve = FixedCurve[p]]
        /\ UNCHANGED <<adaptive, limits, current, cleared, inforce>>
    BY <1>3, <1>4, <1>8, <1>16 DEF SetCurve, Right, config, history
  <2>2. QED
    BY <1>1, <1>6, <1>7, <2>1, HeadingGo
<1>17. ASSUME ProfileFan(d) \/ ApplyCurve(d) PROVE Goal
  <2> DEFINE c == FixedCurve[p]
             two == <<Do("mode", "curve"), Do("curve", c)>>
             release == <<Do("release", "state")>>
  <2>1. h.op \in {"profile_fan", "apply_curve"} /\ Arg(d) = c /\ c \in CurveId /\ p \in Fixed
    BY <1>3, <1>4, <1>8, <1>17 DEF ProfileFan, ApplyCurve, Right, TypedStep
  <2>2. HasCurve(c) /\ c # None /\ ModeOf(p) = "curve"
    BY <1>2, <2>1, HardwareAssumption DEF HasCurve, ModeOf
  <2>3. Go(d, two \o release) \/ Go(d, two)
    BY <1>17, <2>1, <2>2 DEF ProfileFan, ApplyCurve
  <2>4. UNCHANGED <<adaptive, limits, fan, current, cleared, inforce>>
    BY <1>17 DEF ProfileFan, ApplyCurve, config, history, controllers
  <2>5. two \in Seq(Right(p)) /\ release \in Seq(Right(p))
    <3>1. Do("mode", "curve") \in Right(p) /\ Do("curve", c) \in Right(p) /\ Do("release", "state") \in Right(p)
      BY <2>1, <2>2, RightSteps
    <3>2. QED
      BY <3>1
  <2>6. Ahead(two, ModeSteps) /\ Ahead(two, CurveSteps)
    <3>1. "mode" \in ModeSteps /\ "curve" \in CurveSteps
      OBVIOUS
    <3> HIDE DEF ModeSteps, CurveSteps
    <3>2. QED
      BY <3>1, AheadDo
  <2> HIDE DEF two, release
  <2>7. /\ two \o release \in Seq(Right(p))
        /\ Ahead(two \o release, ModeSteps) /\ Ahead(two \o release, CurveSteps)
    BY <2>5, <2>6, ConcatProperties, AheadConcat
  <2>8. PICK more \in Seq(Right(p)) : Go(d, more) /\ Ahead(more, ModeSteps) /\ Ahead(more, CurveSteps)
    BY <2>3, <2>5, <2>6, <2>7
  <2>9. QED
    BY <1>1, <2>1, <2>4, <2>8, HeadingGo
<1>18. ASSUME Release(d) \/ Serve(d) PROVE Goal
  <2>1. /\ h.op \in {"release", "serve", "register"} /\ Go(d, <<>>)
        /\ UNCHANGED <<adaptive, limits, fan, current, cleared, inforce>>
    BY <1>4, <1>18 DEF Release, Serve, config, history, controllers
  <2>2. QED
    BY <1>1, <1>6, <2>1, HeadingGo
<1>19. ASSUME Done(d) PROVE Goal
  <2>1. /\ h.op = "done" /\ Go(d, <<>>) /\ inforce' = p
        /\ UNCHANGED <<adaptive, limits, fan, current, cleared>>
    BY <1>3, <1>4, <1>8, <1>19 DEF Done, Right, config, history, controllers
  <2>2. /\ todo[d] \in Seq(TypedStep) /\ todo[d] # <<>> /\ todo'[d] = <<>> \o Tail(todo[d])
        /\ \A ops : Ahead(todo[d], ops) => h.op \in ops \/ Ahead(todo'[d], ops)
    BY <1>1, <2>1, QueueGo, EmptySeq
  <2>3. Tail(todo[d]) \in Seq(Boot)
    <3>1. Ordered(todo[d]) /\ h.op \in Turning
      BY <2>1 DEF QueueInv, Turning
    <3>2. QED
      BY <2>2, <3>1, OrderedTail
  <2>4. todo'[d] \in Seq(Boot)
    BY <2>2, <2>3, ConcatEmptySeq
  <2>5. \A ops : Ahead(todo[d], ops) => "done" \in ops \/ "serve" \in ops \/ "register" \in ops
    BY <2>1, <2>2, <2>4, AheadFew
  <2>6. ~Ahead(todo[d], CeilingSteps) /\ ~Ahead(todo[d], ActiveSteps) /\ ~Ahead(todo[d], StapmSteps)
    BY <2>5
  <2>7. ~Ahead(todo[d], FastSteps) /\ ~Ahead(todo[d], SlowSteps)
    BY <2>5
  <2>8. ~Ahead(todo[d], ModeSteps) /\ ~Ahead(todo[d], CurveSteps)
    BY <2>5
  <2>9. Heading(p, <<>>)
    BY <1>2, <2>6, <2>7, <2>8 DEF Heading
  <2>10. Heading(p, <<>>)' /\ inforce' = p
    BY <2>1, <2>9 DEF Heading, CeilingOf
  <2>11. (Heading(inforce, <<>>))'
    BY <2>10 DEF Heading, CeilingOf
  <2>12. QED
    BY <2>4, <2>10, <2>11 DEF Settled
<1> HIDE DEF Goal
<1>20. ~(CheckPersist(d) \/ FindProfile(d) \/ FindCurve(d) \/ SetPersist(d) \/ SaveCharge(d) \/ ResetConfig(d)
         \/ WriteCharge(d) \/ KnowCharge(d))
  BY <1>3, <1>4 DEF CheckPersist, FindProfile, FindCurve, SetPersist, SaveCharge, ResetConfig,
     WriteCharge, KnowCharge, Right
<1>21. ~(ApplyCharge(d) \/ ReadSource(d) \/ UpdatePower(d) \/ Callback(d) \/ ApplyDefault(d)
         \/ ApplyAtStartup(d))
  BY <1>3, <1>4 DEF ApplyCharge, ReadSource, UpdatePower, Callback, ApplyDefault, ApplyAtStartup, Right
<1>22. Goal
  BY <1>9, <1>10, <1>11, <1>12, <1>13, <1>14, <1>15, <1>16, <1>17, <1>18, <1>19, <1>20, <1>21 DEF Run
<1>23. QED
  BY <1>22 DEF Goal

\* After a step that turns its queue there is what it puts in front, and main's end.
LEMMA TurnGo ==
  ASSUME TypeInv, QueueInv, NEW d \in Thread, Busy(d), Head(todo[d]).op \in Turning,
         NEW more \in Seq(TypedStep), Go(d, more)
  PROVE  /\ todo'[d] = more \o Tail(todo[d]) /\ Tail(todo[d]) \in Seq(Boot)
         /\ Tail(todo[d]) \in Seq(TypedStep)
         /\ \A ops : Ahead(more, ops) => Ahead(todo'[d], ops)
         /\ \A ops : Ahead(todo'[d], ops) => Ahead(more, ops) \/ "serve" \in ops \/ "register" \in ops
<1>1. todo[d] \in Seq(TypedStep) /\ todo[d] # <<>> /\ todo'[d] = more \o Tail(todo[d])
  BY QueueGo
<1>2. Ordered(todo[d])
  BY DEF QueueInv
<1>3. Tail(todo[d]) \in Seq(Boot) /\ Tail(todo[d]) \in Seq(TypedStep)
  BY <1>1, <1>2, OrderedTail, HeadTailProperties
<1>4. ASSUME NEW ops
      PROVE  /\ Ahead(more, ops) => Ahead(todo'[d], ops)
             /\ Ahead(todo'[d], ops) => Ahead(more, ops) \/ "serve" \in ops \/ "register" \in ops
  <2>1. Ahead(Tail(todo[d]), ops) => "serve" \in ops \/ "register" \in ops
    BY <1>3, AheadFew
  <2> DEFINE t == Tail(todo[d])
  <2>2. t \in Seq(TypedStep) /\ todo'[d] = more \o t
    BY <1>1, <1>3
  <2>3. Ahead(t, ops) => "serve" \in ops \/ "register" \in ops
    BY <2>1
  <2> HIDE DEF t
  <2>4. /\ Ahead(more, ops) => Ahead(more \o t, ops)
        /\ Ahead(more \o t, ops) => Ahead(more, ops) \/ Ahead(t, ops)
    BY <2>2, AheadConcat
  <2>5. QED
    BY <2>2, <2>3, <2>4
<1>5. QED
  BY <1>1, <1>3, <1>4

\* A profile's program begins.
LEMMA BoundStart ==
  ASSUME TypeInv, QueueInv, NEW d \in Thread, Busy(d), Head(todo[d]).op \in Turning,
         NEW p \in ProfileId, NEW more \in Seq(Right(p)), Heading(p, more), Go(d, more),
         ~cleared, inforce = None, UNCHANGED <<adaptive, limits, fan, current, cleared, inforce>>
  PROVE  Bound(p, todo[d])'
<1>1. more \in Seq(TypedStep)
  BY SeqMonotonic DEF Right
<1>2. /\ todo'[d] = more \o Tail(todo[d]) /\ Tail(todo[d]) \in Seq(Boot)
      /\ \A ops : Ahead(more, ops) => Ahead(todo'[d], ops)
  BY <1>1, TurnGo
<1>3. Tail(todo[d]) \in Seq(Right(p))
  BY <1>2, RightSteps, SeqMonotonic
<1>4. todo'[d] \in Seq(Right(p)) /\ Right(p)' = Right(p)
  BY <1>2, <1>3, ConcatProperties DEF Right, CeilingOf
<1>5. Heading(p, todo[d])'
  BY <1>2 DEF Heading, CeilingOf
<1>6. QED
  BY <1>4, <1>5 DEF Bound

\* A step between the choice of a source and that of its default.
LEMMA AimedGo ==
  ASSUME TypeInv, NEW d \in Thread, Busy(d), NEW s, Aimed(s, todo[d]),
         NEW more \in Seq(AimSteps(s)), Go(d, more), ~Ahead(more, {"startup_select"}),
         UNCHANGED inforce, adaptive'.active = adaptive.active,
         adaptive'.ceiling = adaptive.ceiling \/ adaptive'.ceiling = s,
         Head(todo[d]).op = "ceiling" => adaptive'.ceiling = s
  PROVE  Aimed(s, todo[d])'
<1>1. more \in Seq(TypedStep)
  BY SeqMonotonic DEF AimSteps
<1>2. /\ todo[d] # <<>> /\ todo'[d] = more \o Tail(todo[d])
      /\ \A ops : Ahead(todo[d], ops) => Head(todo[d]).op \in ops \/ Ahead(todo'[d], ops)
      /\ \A ops : Ahead(todo'[d], ops) => Ahead(more, ops) \/ Ahead(todo[d], ops)
  BY <1>1, QueueGo
<1>3. todo[d] \in Seq(AimSteps(s))
  BY DEF Aimed
<1>4. todo'[d] \in Seq(AimSteps(s))
  BY <1>2, <1>3, Positions
<1>5. (adaptive.ceiling = s \/ Ahead(todo[d], {"ceiling"}))'
  BY <1>2 DEF Aimed
<1>6. (Ahead(todo[d], {"startup_select"}) => adaptive.active = None)'
  BY <1>2 DEF Aimed
<1>7. QED
  BY <1>4, <1>5, <1>6 DEF Aimed

\* The steps that follow the choice of a source choose its default, or find none.
LEMMA AimedRun ==
  ASSUME TypeInv, QueueInv, NEW d \in Thread, Run(d), solo = d, solo' = d,
         NEW s \in AnySource, Aimed(s, todo[d])
  PROVE  Aimed(s, todo[d])' \/ Early(todo[d])' \/ \E p \in ProfileId : Bound(p, todo[d])'
<1> DEFINE h == Head(todo[d])
           Goal == Aimed(s, todo[d])' \/ Early(todo[d])' \/ \E p \in ProfileId : Bound(p, todo[d])'
<1>1. Busy(d)
  BY PlainMoves, TurnMoves DEF QueueInv
<1>2. /\ todo[d] \in Seq(AimSteps(s)) /\ (adaptive.ceiling = s \/ Ahead(todo[d], {"ceiling"}))
      /\ (Ahead(todo[d], {"startup_select"}) => adaptive.active = None)
      /\ inforce = None
  BY DEF Aimed
<1>3. h \in AimSteps(s) /\ \A ops : h.op \in ops => Ahead(todo[d], ops)
  BY <1>1, <1>2, HeadIn
<1>4. \A op : At(d, op) => h.op = op
  BY DEF At
<1>5. ~Fault(d)
  <2>1. d # None
    BY HardwareAssumption
  <2>2. QED
    BY <2>1 DEF Fault
<1>6. <<>> \in Seq(AimSteps(s)) /\ ~Ahead(<<>>, {"startup_select"})
  BY EmptySeq, AheadFew
<1>7. adaptive \in [active: ProfileId \cup {None}, ceiling: AnySource \cup {None}]
  BY DEF TypeInv, TypeOK
<1>8. Arg(d) = h.arg
  BY DEF Arg
<1>9. ASSUME SetCeiling(d) PROVE Goal
  <2>1. h.op = "ceiling" /\ Go(d, <<>>) /\ adaptive' = [adaptive EXCEPT !.ceiling = s]
    BY <1>3, <1>4, <1>8, <1>9 DEF SetCeiling, AimSteps
  <2>2. UNCHANGED inforce
    BY <1>9 DEF SetCeiling, history
  <2>3. QED
    BY <1>1, <1>6, <1>7, <2>1, <2>2, AimedGo
<1>10. ASSUME ApplyCharge(d) \/ WriteCharge(d) \/ KnowCharge(d) \/ Serve(d) PROVE Goal
  <2>1. h.op # "ceiling" /\ UNCHANGED <<inforce, adaptive>>
    BY <1>4, <1>5, <1>10 DEF ApplyCharge, WriteCharge, KnowCharge, Serve, history, controllers
  <2>2. ASSUME NEW n \in Charge
        PROVE  /\ <<Do("charge", n)>> \in Seq(AimSteps(s)) /\ <<Do("known", n)>> \in Seq(AimSteps(s))
               /\ ~Ahead(<<Do("charge", n)>>, {"startup_select"})
               /\ ~Ahead(<<Do("known", n)>>, {"startup_select"})
    <3>1. Do("charge", n) \in TypedStep /\ Do("known", n) \in TypedStep
      BY StepTyped DEF Quiet
    <3>2. Do("charge", n) \in AimSteps(s) /\ Do("known", n) \in AimSteps(s)
      BY <3>1 DEF AimSteps, Do
    <3>3. QED
      BY <3>2, AheadDo
  <2>3. PICK more \in Seq(AimSteps(s)) : Go(d, more) /\ ~Ahead(more, {"startup_select"})
    <3>1. ASSUME ApplyCharge(d)
          PROVE  \E more \in Seq(AimSteps(s)) : Go(d, more) /\ ~Ahead(more, {"startup_select"})
      <4>1. charge.config \in Charge \cup {None}
        BY DEF TypeInv, TypeOK
      <4>2. CASE charge.config = None
        BY <1>6, <3>1, <4>2 DEF ApplyCharge
      <4>3. CASE charge.config # None
        <5>1. Go(d, <<Do("charge", charge.config)>>)
          BY <3>1, <4>3 DEF ApplyCharge
        <5>2. QED
          BY <2>2, <4>1, <4>3, <5>1
      <4>4. QED
        BY <4>2, <4>3
    <3>2. ASSUME WriteCharge(d)
          PROVE  \E more \in Seq(AimSteps(s)) : Go(d, more) /\ ~Ahead(more, {"startup_select"})
      <4>1. Arg(d) \in Charge
        BY <1>3, <1>4, <1>8, <3>2 DEF WriteCharge, AimSteps, TypedStep
      <4>2. Go(d, <<Do("known", Arg(d))>>)
        BY <1>5, <3>2 DEF WriteCharge
      <4>3. QED
        BY <2>2, <4>1, <4>2
    <3>3. ASSUME KnowCharge(d) \/ Serve(d)
          PROVE  \E more \in Seq(AimSteps(s)) : Go(d, more) /\ ~Ahead(more, {"startup_select"})
      BY <1>6, <3>3 DEF KnowCharge, Serve
    <3>4. QED
      BY <1>10, <3>1, <3>2, <3>3
  <2>4. QED
    BY <1>1, <2>1, <2>3, AimedGo
<1>11. ASSUME ApplyDefault(d) PROVE Goal
  <2>1. h.op \in {"select_for", "startup_select"} /\ h.op \in Turning /\ Arg(d) = s
    BY <1>3, <1>8, <1>11, ApplyDefaultGo DEF AimSteps, Turning
  <2> DEFINE p == DefaultOf(s)
             stop == IF h.op = "select_for" THEN <<Do("deactivate", None)>> ELSE <<>>
  <2>2. /\ stop \in Seq(Plain)
        /\ p = None => Go(d, stop)
        /\ p # None => /\ p \in ProfileId
                       /\ p \in Adaptive => Go(d, Applied(p) \o <<Do("done", p)>>)
                       /\ p \in Fixed => Go(d, (Applied(p) \o stop) \o <<Do("done", p)>>)
    BY <1>11, <2>1, SelectGo
  <2>3. UNCHANGED <<adaptive, limits, fan, current, cleared, inforce>>
    BY <1>11 DEF ApplyDefault, config, history, controllers
  <2>4. stop = <<>> => adaptive.active = None
    <3>1. CASE h.op = "select_for"
      BY <3>1
    <3>2. CASE h.op = "startup_select"
      BY <1>2, <1>3, <3>2
    <3>3. QED
      BY <2>1, <3>1, <3>2
  <2>5. adaptive.ceiling = s
    <3>1. todo[d] \in Seq(TypedStep) /\ todo[d] # <<>> /\ Ordered(todo[d])
      BY <1>1 DEF TypeInv, Queue, Busy, QueueInv
    <3>2. Tail(todo[d]) \in Seq(Boot)
      BY <2>1, <3>1, OrderedTail
    <3>3. ~Ahead(Tail(todo[d]), {"ceiling"})
      BY <3>2, AheadFew
    <3>4. Ahead(todo[d], {"ceiling"}) => h.op \in {"ceiling"} \/ Ahead(<<>> \o Tail(todo[d]), {"ceiling"})
      BY <3>1, AheadGo, EmptySeq
    <3>5. <<>> \o Tail(todo[d]) = Tail(todo[d])
      BY <3>2, ConcatEmptySeq
    <3>6. QED
      BY <1>2, <2>1, <3>3, <3>4, <3>5
  <2>6. CASE p = None
    <3>1. stop \in Seq(TypedStep) /\ ~Ahead(stop, {"select_for", "startup_select", "done"})
          /\ ~Ahead(stop, {"startup"})
      <4>1. stop \in Seq(TypedStep)
        BY <2>2, SeqMonotonic DEF Plain
      <4>2. \A i \in 1..Len(stop) : stop[i] \in Plain
        BY <2>2, ElementOfSeq
      <4>3. QED
        BY <4>1, <4>2 DEF Ahead, Plain, Turning
    <3> HIDE DEF stop
    <3>2. ~Ahead(todo'[d], {"select_for", "startup_select", "done"}) /\ ~Ahead(todo'[d], {"startup"})
      BY <1>1, <2>1, <2>2, <2>6, <3>1, TurnGo
    <3>3. QED
      BY <1>2, <2>3, <3>2 DEF Early
  <2>7. CASE p # None
    <3>1. Assigned[p] = s /\ ~cleared /\ p \in ProfileId /\ s # None
      BY <2>2, <2>7, DefaultAssigned, HardwareAssumption
    <3>2. adaptive.ceiling = CeilingOf(p) /\ stop \in {<<>>, <<Do("deactivate", None)>>}
      BY <2>5, <3>1 DEF CeilingOf
    <3> HIDE DEF p, stop
    <3>3. /\ p \in Adaptive => /\ Applied(p) \o <<Do("done", p)>> \in Seq(Right(p))
                               /\ Heading(p, Applied(p) \o <<Do("done", p)>>)
          /\ p \in Fixed => /\ (Applied(p) \o stop) \o <<Do("done", p)>> \in Seq(Right(p))
                            /\ Heading(p, (Applied(p) \o stop) \o <<Do("done", p)>>)
      BY <2>4, <3>1, <3>2, AppliedRight
    <3>4. PICK more \in Seq(Right(p)) : Heading(p, more) /\ Go(d, more)
      BY <2>2, <2>7, <3>1, <3>3 DEF Fixed
    <3>5. PICK r \in ProfileId : r = p
      BY <3>1
    <3>6. more \in Seq(Right(r)) /\ Heading(r, more)
      BY <3>4, <3>5
    <3>7. Bound(r, todo[d])'
      BY <1>1, <1>2, <2>1, <2>3, <3>1, <3>4, <3>6, BoundStart
    <3>8. QED
      BY <3>7
  <2>8. QED
    BY <2>6, <2>7
<1> HIDE DEF Goal
<1>12. ~(CheckPersist(d) \/ FindProfile(d) \/ FindCurve(d) \/ ProfileFan(d) \/ Release(d) \/ SetPersist(d)
         \/ SaveCharge(d) \/ ResetConfig(d) \/ Done(d) \/ SetMode(d) \/ SetCurve(d))
  BY <1>3, <1>4 DEF CheckPersist, FindProfile, FindCurve, ProfileFan, Release, SetPersist, SaveCharge,
     ResetConfig, Done, SetMode, SetCurve, AimSteps
<1>13. ~(WriteStapm(d) \/ WriteFast(d) \/ WriteSlow(d) \/ SetActive(d) \/ ReadSource(d) \/ UpdatePower(d)
         \/ Callback(d) \/ ReadCurrent(d) \/ ApplyCurve(d) \/ ApplyAtStartup(d))
  BY <1>3, <1>4 DEF WriteStapm, WriteFast, WriteSlow, SetActive, ReadSource, UpdatePower, Callback,
     ReadCurrent, ApplyCurve, ApplyAtStartup, AimSteps
<1>14. Goal
  BY <1>9, <1>10, <1>11, <1>12, <1>13 DEF Run
<1>15. QED
  BY <1>14 DEF Goal

\* What a thread's step does to the history of the thread that is alone.
LEMMA AloneKept ==
  ASSUME NEW d \in Thread, Run(d)
  PROVE  /\ solo' = solo \/ (solo' = None /\ inforce' = None)
         /\ ~Done(d) => inforce' = inforce \/ inforce' = None
         /\ Done(d) => inforce' = (IF solo = d THEN Arg(d) ELSE None) /\ solo' = solo
         /\ ~Done(d) /\ solo' = d => inforce' = inforce
<1>0. d # None
  BY HardwareAssumption
<1> USE DEF history
<1>1. ASSUME \/ CheckPersist(d) \/ FindProfile(d) \/ FindCurve(d) \/ ProfileFan(d) \/ Release(d)
             \/ SetPersist(d) \/ SaveCharge(d) \/ ResetConfig(d) \/ SetCurve(d)
      PROVE  UNCHANGED <<solo, inforce>>
  BY <1>1 DEF CheckPersist, FindProfile, FindCurve, ProfileFan, Release, SetPersist, SaveCharge, ResetConfig,
     SetCurve
<1>2. ASSUME \/ SetCeiling(d) \/ SetActive(d) \/ KnowCharge(d) \/ ApplyCharge(d) \/ ReadSource(d)
             \/ UpdatePower(d) \/ Callback(d) \/ ApplyDefault(d) \/ ReadCurrent(d) \/ ApplyCurve(d)
             \/ ApplyAtStartup(d) \/ Serve(d)
      PROVE  UNCHANGED <<solo, inforce>>
  BY <1>2 DEF SetCeiling, SetActive, KnowCharge, ApplyCharge, ReadSource, UpdatePower, Callback, ApplyDefault,
     ReadCurrent, ApplyCurve, ApplyAtStartup, Serve
<1>3. ASSUME SetMode(d) \/ WriteStapm(d) \/ WriteFast(d) \/ WriteSlow(d) \/ WriteCharge(d)
      PROVE  UNCHANGED <<solo, inforce>> \/ (solo' = None /\ inforce' = None)
  BY <1>3 DEF SetMode, WriteStapm, WriteFast, WriteSlow, WriteCharge, Fault
<1>4. ASSUME Done(d)
      PROVE  inforce' = (IF solo = d THEN Arg(d) ELSE None) /\ solo' = solo
  BY <1>4 DEF Done
<1>5. ~Done(d) => UNCHANGED <<solo, inforce>> \/ (solo' = None /\ inforce' = None)
  BY <1>1, <1>2, <1>3 DEF Run
<1>6. QED
  BY <1>0, <1>4, <1>5

\* A thread that has chosen no profile goes on without, or chooses one.
LEMMA EarlyRun ==
  ASSUME TypeInv, QueueInv, NEW d \in Thread, Run(d), solo = d, solo' = d, Early(todo[d])
  PROVE  \/ Early(todo[d])'
         \/ \E s \in AnySource : Aimed(s, todo[d])'
         \/ \E p \in ProfileId : Bound(p, todo[d])'
<1> DEFINE h == Head(todo[d])
           Goal == \/ Early(todo[d])'
                   \/ \E s \in AnySource : Aimed(s, todo[d])'
                   \/ \E p \in ProfileId : Bound(p, todo[d])'
           Chosen3 == {"select_for", "startup_select", "done"}
<1>1. Busy(d) /\ h \in TypedStep
  BY PlainMoves, TurnMoves DEF QueueInv
<1>2. /\ ~Ahead(todo[d], Chosen3) /\ inforce = None
      /\ Ahead(todo[d], {"startup"}) =>
           /\ adaptive.active = None
           /\ \A i \in 1..Len(todo[d]) :
                todo[d][i].op \in {"read_source", "update", "startup", "serve", "register"}
  BY DEF Early
<1>3. todo[d] \in Seq(TypedStep) /\ todo[d] # <<>> /\ todo[d] \in Seq(StepsOf(d)) /\ Ordered(todo[d])
  BY <1>1 DEF TypeInv, Queue, Busy, QueueInv
<1>4. \A ops : h.op \in ops => Ahead(todo[d], ops)
  BY <1>1, <1>3, HeadIn
<1>5. \A op : At(d, op) => h.op = op
  BY DEF At
<1>6. h.op \notin Chosen3
  BY <1>2, <1>4
<1>7. inforce' = None
  <2>1. ~Done(d)
    BY <1>5, <1>6 DEF Done
  <2>2. QED
    BY <1>2, <2>1, AloneKept
<1>8. Arg(d) = h.arg
  BY DEF Arg
<1>9. <<>> \in Seq(TypedStep) /\ \A ops : ~Ahead(<<>>, ops)
  BY EmptySeq, AheadFew
<1>10. ASSUME End(d) PROVE Early(todo[d])'
  <2>1. todo'[d] = <<>>
    BY <1>10 DEF End, TypeInv
  <2>2. QED
    BY <1>7, <1>9, <2>1 DEF Early
<1>11. ASSUME NEW more \in Seq(TypedStep), Go(d, more), h.op \in Turning,
              ~Ahead(more, Chosen3), ~Ahead(more, {"startup"})
       PROVE  Early(todo[d])'
  <2>1. ~Ahead(todo'[d], Chosen3) /\ ~Ahead(todo'[d], {"startup"})
    BY <1>1, <1>11, TurnGo
  <2>2. QED
    BY <1>7, <2>1 DEF Early
<1>12. ASSUME NEW s \in AnySource, NEW more \in Seq(AimSteps(s)), Go(d, more), h.op \in Turning,
              Ahead(more, {"ceiling"}),
              Ahead(more, {"startup_select"}) => adaptive.active = None, UNCHANGED adaptive
       PROVE  Aimed(s, todo[d])'
  <2>1. more \in Seq(TypedStep)
    BY <1>12, SeqMonotonic DEF AimSteps
  <2>2. /\ todo'[d] = more \o Tail(todo[d]) /\ Tail(todo[d]) \in Seq(Boot)
        /\ Ahead(todo'[d], {"ceiling"})
        /\ Ahead(todo'[d], {"startup_select"}) => Ahead(more, {"startup_select"})
    BY <1>1, <1>12, <2>1, TurnGo
  <2>3. Boot \subseteq AimSteps(s)
    <3>1. Do("serve", None) \in TypedStep /\ Do("register", None) \in TypedStep
      BY StepTyped DEF Quiet
    <3>2. QED
      BY <3>1 DEF Boot, AimSteps, Do
  <2>4. Tail(todo[d]) \in Seq(AimSteps(s))
    BY <2>2, <2>3, SeqMonotonic
  <2>5. todo'[d] \in Seq(AimSteps(s))
    BY <1>12, <2>2, <2>4, ConcatProperties
  <2>6. QED
    BY <1>7, <1>12, <2>2, <2>5 DEF Aimed
<1>13. CASE h.op \notin Turning
  <2>1. CASE End(d)
    BY <1>10, <2>1
  <2>2. CASE ~End(d)
    <3>1. PICK more \in Seq(Plain) : Go(d, more)
      BY <1>13, <2>2, PlainMoves
    <3>2. more \in Seq(TypedStep) /\ ~Ahead(more, Chosen3) /\ ~Ahead(more, {"startup"})
      <4>1. more \in Seq(TypedStep)
        BY SeqMonotonic DEF Plain
      <4>2. \A i \in 1..Len(more) : more[i] \in Plain
        BY ElementOfSeq
      <4>3. QED
        BY <4>1, <4>2 DEF Ahead, Plain, Turning
    <3>3. ~Ahead(todo'[d], Chosen3)
      BY <1>1, <1>2, <3>1, <3>2, QueueGo
    <3>4. ASSUME Ahead(todo'[d], {"startup"})
          PROVE  /\ adaptive'.active = None
                 /\ \A i \in 1..Len(todo'[d]) :
                      todo'[d][i].op \in {"read_source", "update", "startup", "serve", "register"}
      <4>1. Ahead(todo[d], {"startup"})
        BY <1>1, <3>1, <3>2, <3>4, QueueGo
      <4>2. h.op \in {"read_source", "update"}
        <5>1. h = todo[d][1] /\ 1 \in 1..Len(todo[d])
          BY <1>3, Positions, EmptySeq
        <5>2. QED
          BY <1>2, <1>13, <4>1, <5>1 DEF Turning
      <4>3. phase = "startup"
        <5>1. d = Main
          <6>1. PICK i \in 1..Len(todo[d]) : todo[d][i].op = "startup"
            BY <4>1 DEF Ahead
          <6>2. todo[d][i] \in StepsOf(d)
            BY <1>3, ElementOfSeq
          <6>3. QED
            BY <6>1, <6>2 DEF StepsOf
        <5>2. todo[d] \notin Seq(Boot)
          BY <4>1, AheadFew
        <5>3. QED
          BY <5>1, <5>2 DEF QueueInv
      <4>4. ReadSource(d) \/ UpdatePower(d)
        BY <4>2, StepReadsSource
      <4>5. adaptive' = adaptive
        BY <4>4 DEF ReadSource, UpdatePower, controllers
      <4>6. PICK put \in Seq(TypedStep) : Go(d, put) /\ \A i \in 1..Len(put) : put[i].op = "update"
        <5>1. CASE ReadSource(d)
          <6>1. PICK s \in AnySource : Go(d, <<Do("update", s)>>)
            BY <5>1 DEF ReadSource, TypeInv, TypeOK, AnySource
          <6>2. Do("update", s) \in TypedStep /\ Do("update", s).op = "update"
            BY StepTyped DEF Quiet, Do
          <6> DEFINE one == <<Do("update", s)>>
          <6>3. one \in Seq(TypedStep) /\ Len(one) = 1 /\ one[1].op = "update"
            BY <6>2
          <6> HIDE DEF one
          <6>4. \A i \in 1..Len(one) : one[i].op = "update"
            BY <6>3
          <6>5. QED
            BY <6>1, <6>3, <6>4 DEF one
        <5>2. CASE UpdatePower(d)
          <6>1. Go(d, <<>>)
            BY <4>3, <5>2 DEF UpdatePower
          <6>2. \A i \in 1..Len(<<>>) : <<>>[i].op = "update"
            OBVIOUS
          <6>3. QED
            BY <1>9, <6>1, <6>2
        <5>3. QED
          BY <4>4, <5>1, <5>2
      <4> DEFINE T == {t \in TypedStep : t.op \in {"read_source", "update", "startup", "serve", "register"}}
      <4>7. todo'[d] = put \o Tail(todo[d])
        BY <1>1, <4>6, QueueGo
      <4>8. \A i \in 1..Len(todo[d]) : todo[d][i] \in T
        BY <1>2, <1>3, <4>1, ElementOfSeq
      <4>9. \A i \in 1..Len(put) : put[i] \in T
        BY <4>6, ElementOfSeq
      <4> HIDE DEF T
      <4>10. \A i \in 1..Len(todo'[d]) : todo'[d][i] \in T
        BY <1>3, <4>7, <4>8, <4>9, StepsGo
      <4>11. QED
        BY <1>2, <4>1, <4>5, <4>10 DEF T
    <3>5. Early(todo[d])'
      BY <1>7, <3>3, <3>4 DEF Early
    <3>6. QED
      BY <3>5
  <2>3. QED
    BY <2>1, <2>2
<1>14. ASSUME FindProfile(d) PROVE Goal
  <2>1. h.op \in Turning /\ Arg(d) \in ProfileId
    BY <1>1, <1>5, <1>8, <1>14 DEF FindProfile, Turning, TypedStep
  <2>2. CASE cleared
    BY <1>10, <1>14, <2>2 DEF FindProfile
  <2>3. CASE ~cleared
    <3>1. PICK p \in ProfileId : p = Arg(d)
      BY <2>1
    <3>2. Go(d, Chosen(p))
      BY <1>14, <2>3, <3>1 DEF FindProfile
    <3>3. Chosen(p) \in Seq(Right(p)) /\ Heading(p, Chosen(p))
      BY ChosenRight
    <3>4. UNCHANGED <<adaptive, limits, fan, current, cleared, inforce>>
      BY <1>14 DEF FindProfile, config, controllers, history
    <3>5. Bound(p, todo[d])'
      BY <1>1, <1>2, <2>1, <2>3, <3>2, <3>3, <3>4, BoundStart
    <3>6. QED
      BY <3>5
  <2>4. QED
    BY <2>2, <2>3
<1>15. ASSUME SetPersist(d) \/ Serve(d) PROVE Goal
  <2>1. h.op \in Turning
    BY <1>5, <1>15 DEF SetPersist, Serve, Turning
  <2>2. Go(d, <<>>) \/ Go(d, ApplyAll)
    BY <1>15 DEF SetPersist, Serve
  <2>3. ApplyAll \in Seq(TypedStep) /\ ~Ahead(ApplyAll, Chosen3) /\ ~Ahead(ApplyAll, {"startup"})
    <3>1. ApplyAll \in Seq(TypedStep)
      BY ProgramsTyped, SeqMonotonic DEF Quiet
    <3>2. \A i \in 1..Len(ApplyAll) : ApplyAll[i].op \in {"apply_charge", "read_source", "select"}
      BY DEF ApplyAll, Do
    <3>3. QED
      BY <3>1, <3>2 DEF Ahead
  <2> HIDE DEF Chosen3
  <2>4. QED
    BY <1>9, <1>11, <2>1, <2>2, <2>3
<1>16. ASSUME ReadCurrent(d), h.op \in Turning PROVE Goal
  <2>1. PICK s \in AnySource : s = current
    BY DEF TypeInv, TypeOK
  <2> DEFINE more == <<Do("ceiling", s), Do("select_for", s)>>
  <2>2. Go(d, more) /\ adaptive' = adaptive
    BY <1>5, <1>16, <2>1 DEF ReadCurrent, Turning, controllers
  <2>3. Do("ceiling", s) \in AimSteps(s) /\ Do("select_for", s) \in AimSteps(s)
    <3>1. Do("ceiling", s) \in TypedStep /\ Do("select_for", s) \in TypedStep
      BY StepTyped DEF Quiet
    <3>2. QED
      BY <3>1 DEF AimSteps, Do
  <2>4. more \in Seq(AimSteps(s))
    BY <2>3
  <2>5. Ahead(more, {"ceiling"}) /\ ~Ahead(more, {"startup_select"})
    <3>1. /\ Ahead(more, {"ceiling"}) <=> "ceiling" \in {"ceiling"} \/ "select_for" \in {"ceiling"}
          /\ Ahead(more, {"startup_select"}) <=>
                 "ceiling" \in {"startup_select"} \/ "select_for" \in {"startup_select"}
      BY ONLY AheadDo
    <3>2. QED
      BY <3>1
  <2> HIDE DEF more
  <2>6. Aimed(s, todo[d])'
    BY <1>12, <1>16, <2>2, <2>4, <2>5
  <2>7. QED
    BY <2>6
<1>17. ASSUME ApplyAtStartup(d) PROVE Goal
  <2>1. h.op = "startup" /\ h.op \in Turning /\ adaptive' = adaptive
    BY <1>5, <1>17 DEF ApplyAtStartup, Turning, controllers
  <2>2. adaptive.active = None
    BY <1>2, <1>4, <2>1
  <2>3. PICK s \in AnySource : s = current
    BY DEF TypeInv, TypeOK
  <2> DEFINE more == <<Do("ceiling", s), Do("apply_charge", None), Do("startup_select", s)>>
  <2>4. Go(d, <<>>) \/ Go(d, more)
    BY <1>17, <2>3 DEF ApplyAtStartup
  <2>5. /\ Do("ceiling", s) \in AimSteps(s) /\ Do("apply_charge", None) \in AimSteps(s)
        /\ Do("startup_select", s) \in AimSteps(s)
    <3>1. Do("ceiling", s) \in TypedStep /\ Do("startup_select", s) \in TypedStep
      BY StepTyped DEF Quiet
    <3>2. Do("apply_charge", None) \in TypedStep
      BY StepTyped DEF Quiet
    <3>3. QED
      BY <3>1, <3>2 DEF AimSteps, Do
  <2>6. more \in Seq(AimSteps(s))
    BY <2>5
  <2>7. Ahead(more, {"ceiling"})
    <3>1. Len(more) = 3 /\ more[1] = Do("ceiling", s)
      OBVIOUS
    <3>2. QED
      BY <3>1 DEF Ahead, Do
  <2> HIDE DEF more, Chosen3
  <2>8. CASE Go(d, <<>>)
    BY <1>9, <1>11, <2>1, <2>8
  <2>9. CASE Go(d, more)
    <3>1. Aimed(s, todo[d])'
      BY <1>12, <2>1, <2>2, <2>6, <2>7, <2>9
    <3>2. QED
      BY <3>1
  <2>10. QED
    BY <2>4, <2>8, <2>9
<1>18. CASE h.op \in Turning
  <2>1. ~(CheckPersist(d) \/ FindCurve(d) \/ ProfileFan(d) \/ Release(d) \/ SaveCharge(d) \/ ResetConfig(d)
          \/ SetMode(d) \/ SetCurve(d) \/ Done(d) \/ ApplyDefault(d))
    BY <1>5, <1>6, <1>18, ApplyDefaultGo DEF CheckPersist, FindCurve, ProfileFan, Release, SaveCharge,
       ResetConfig, SetMode, SetCurve, Turning, Done
  <2>2. ~(WriteStapm(d) \/ WriteFast(d) \/ WriteSlow(d) \/ SetCeiling(d) \/ SetActive(d)
          \/ WriteCharge(d) \/ KnowCharge(d) \/ ApplyCharge(d))
    BY <1>5, <1>18 DEF WriteStapm, WriteFast, WriteSlow, SetCeiling, SetActive, WriteCharge, KnowCharge,
       ApplyCharge, Turning
  <2>3. ~(ReadSource(d) \/ UpdatePower(d) \/ Callback(d) \/ ApplyCurve(d))
    BY <1>5, <1>18 DEF ReadSource, UpdatePower, Callback, ApplyCurve, Turning
  <2> HIDE DEF Goal
  <2>4. Goal
    BY <1>14, <1>15, <1>16, <1>17, <1>18, <2>1, <2>2, <2>3 DEF Run
  <2>5. QED
    BY <2>4 DEF Goal
<1>19. QED
  BY <1>13, <1>18

\* A thread whose queue is main's end does nothing but change the phase.
LEMMA BootRun ==
  ASSUME TypeInv, NEW d \in Thread, Run(d), todo[d] \in Seq(Boot)
  PROVE  /\ todo'[d] \in Seq(Boot) /\ \A e \in Thread \ {d} : todo'[e] = todo[e]
         /\ UNCHANGED <<limits, fan, adaptive, current, cleared, solo, inforce>>
<1>1. todo[d] # <<>>
  <2>1. \A op : At(d, op) => todo[d] # <<>>
    BY DEF At, Busy
  <2>2. QED
    BY <2>1 DEF Run, CheckPersist, FindProfile, FindCurve, ProfileFan, Release, SetPersist, SaveCharge,
       ResetConfig, Done, SetMode, SetCurve, WriteStapm, WriteFast, WriteSlow, SetCeiling, SetActive,
       WriteCharge, KnowCharge, ApplyCharge, ReadSource, UpdatePower, Callback, ApplyDefault, ReadCurrent,
       ApplyCurve, ApplyAtStartup, Serve
<1>2. Head(todo[d]) \in Boot /\ Tail(todo[d]) \in Seq(Boot)
  BY <1>1, HeadTailProperties
<1>3. Head(todo[d]).op \in {"serve", "register"}
  BY <1>2 DEF Boot, Do
<1>4. Serve(d)
  BY <1>3, StepIsServe
<1>5. todo' = [todo EXCEPT ![d] = <<>> \o Tail(todo[d])]
  BY <1>4 DEF Serve, Go
<1>6. <<>> \o Tail(todo[d]) = Tail(todo[d])
  BY <1>2, ConcatEmptySeq
<1>7. QED
  BY <1>2, <1>4, <1>5, <1>6 DEF Serve, config, controllers, history, TypeInv

\* Nothing that a profile was chosen or put in force for is disturbed where the queue,
\* the registers, the controllers and the answer stay.
LEMMA StageKept ==
  ASSUME NEW d, todo'[d] = todo[d],
         UNCHANGED <<limits, fan, adaptive, current, cleared, inforce>>
  PROVE  /\ Early(todo[d]) => Early(todo[d])'
         /\ \A s : Aimed(s, todo[d]) => Aimed(s, todo[d])'
         /\ \A p : Bound(p, todo[d]) => Bound(p, todo[d])'
         /\ Settled(todo[d]) => Settled(todo[d])'
<1>1. Early(todo[d]) => Early(todo[d])'
  BY DEF Early
<1>2. ASSUME NEW s PROVE Aimed(s, todo[d]) => Aimed(s, todo[d])'
  BY DEF Aimed
<1>3. ASSUME NEW p PROVE Right(p)' = Right(p) /\ (\A q : Heading(p, q) => Heading(p, q)')
  BY DEF Right, Heading, CeilingOf
<1>4. ASSUME NEW p PROVE Bound(p, todo[d]) => Bound(p, todo[d])'
  <2>1. Heading(p, todo[d]) => Heading(p, todo[d])'
    BY DEF Heading, CeilingOf
  <2>2. Right(p)' = Right(p)
    BY <1>3
  <2>3. QED
    BY <2>1, <2>2 DEF Bound
<1>5. Settled(todo[d]) => Settled(todo[d])'
  BY DEF Settled, Heading, CeilingOf
<1>6. QED
  BY <1>1, <1>2, <1>4, <1>5

\* The steps of threads.
LEMMA ForceRun ==
  ASSUME TypeInv, QueueInv, ForceInv, NEW d \in Thread, Run(d)
  PROVE  ForceInv'
<1>1. solo \in Thread \cup {None} /\ None \notin Thread
  BY HardwareAssumption DEF TypeInv, TypeOK
<1>2. CASE solo' = None
  <2>1. inforce' = None
    <3>1. CASE solo = None
      BY <1>1, <1>2, <3>1, AloneKept DEF ForceInv
    <3>2. CASE solo # None
      BY <1>2, <3>2, AloneKept
    <3>3. QED
      BY <3>1, <3>2
  <2>2. QED
    BY <1>2, <2>1 DEF ForceInv
<1>3. CASE solo' # None /\ solo' = solo /\ d # solo
  <2>1. todo[d] \in Seq(Boot) /\ solo \in Thread
    BY <1>1, <1>3 DEF ForceInv
  <2>2. /\ todo'[d] \in Seq(Boot) /\ \A e \in Thread \ {d} : todo'[e] = todo[e]
        /\ UNCHANGED <<limits, fan, adaptive, current, cleared, solo, inforce>>
    BY <2>1, BootRun
  <2>3. \A e \in Thread \ {solo'} : todo'[e] \in Seq(Boot)
    BY <1>3, <2>2 DEF ForceInv
  <2>4. PICK me \in Thread : me = solo
    BY <2>1
  <2>5. todo'[me] = todo[me]
    BY <1>3, <2>2, <2>4
  <2>6. /\ Early(todo[me]) => Early(todo[me])'
        /\ \A s : Aimed(s, todo[me]) => Aimed(s, todo[me])'
        /\ \A p : Bound(p, todo[me]) => Bound(p, todo[me])'
        /\ Settled(todo[me]) => Settled(todo[me])'
    BY <2>2, <2>5, StageKept
  <2>7. \/ Early(todo[me]) \/ (\E s \in AnySource : Aimed(s, todo[me]))
        \/ (\E p \in ProfileId : Bound(p, todo[me])) \/ Settled(todo[me])
    BY <1>3, <2>4 DEF ForceInv
  <2>8. \/ Early(todo[me])' \/ (\E s \in AnySource : Aimed(s, todo[me])')
        \/ (\E p \in ProfileId : Bound(p, todo[me])') \/ Settled(todo[me])'
    BY <2>6, <2>7
  <2>9. solo' = me
    BY <1>3, <2>4
  <2>10. QED
    BY <1>3, <2>3, <2>8, <2>9 DEF ForceInv
<1>4. CASE solo' # None /\ solo' = solo /\ d = solo
  <2>1. \A e \in Thread \ {d} : todo'[e] = todo[e]
    <3>1. End(d) \/ \E more : Go(d, more)
      BY PlainMoves, TurnMoves DEF QueueInv
    <3>2. QED
      BY <3>1 DEF End, Go, TypeInv
  <2>2. \A e \in Thread \ {d} : todo'[e] \in Seq(Boot)
    BY <1>4, <2>1 DEF ForceInv
  <2>3. \/ Early(todo[d]) \/ (\E s \in AnySource : Aimed(s, todo[d]))
        \/ (\E p \in ProfileId : Bound(p, todo[d])) \/ Settled(todo[d])
    BY <1>4 DEF ForceInv
  <2> DEFINE Goal == \/ Early(todo[d])' \/ (\E s \in AnySource : Aimed(s, todo[d])')
                     \/ (\E p \in ProfileId : Bound(p, todo[d])') \/ Settled(todo[d])'
  <2>4. ASSUME Early(todo[d]) PROVE Goal
    BY <1>4, <2>4, EarlyRun
  <2>5. ASSUME \E s \in AnySource : Aimed(s, todo[d]) PROVE Goal
    BY <1>4, <2>5, AimedRun
  <2>6. ASSUME \E p \in ProfileId : Bound(p, todo[d]) PROVE Goal
    BY <1>4, <2>6, BoundRun
  <2>7. ASSUME Settled(todo[d]) PROVE Goal
    <3>1. /\ todo'[d] \in Seq(Boot)
          /\ UNCHANGED <<limits, fan, adaptive, current, cleared, solo, inforce>>
      BY <2>7, BootRun DEF Settled
    <3>2. Settled(todo[d])'
      BY <2>7, <3>1 DEF Settled, Heading, CeilingOf
    <3>3. QED
      BY <3>2
  <2> HIDE DEF Goal
  <2>8. Goal
    BY <2>3, <2>4, <2>5, <2>6, <2>7
  <2>9. QED
    BY <1>4, <2>2, <2>8 DEF ForceInv, Goal
<1>5. QED
  BY <1>2, <1>3, <1>4, AloneKept

\* A thread that begins a command while no other runs one is alone.
LEMMA ForceBegin ==
  ASSUME TypeInv, QueueInv, ForceInv, NEW d \in Dispatcher, Begin(d)
  PROVE  ForceInv'
<1>1. /\ todo'[d] \in Command /\ \A e \in Thread \ {d} : todo'[e] = todo[e]
  BY BeginQueue
<1>2. inforce' = None /\ phase # "startup" /\ ~Busy(d)
      /\ solo' = IF \E other \in Dispatcher : Busy(other) THEN None ELSE d
  BY DEF Begin
<1>3. CASE \E other \in Dispatcher : Busy(other)
  BY <1>2, <1>3 DEF ForceInv
<1>4. CASE ~\E other \in Dispatcher : Busy(other)
  <2>1. solo' = d /\ d # None /\ d \in Thread
    BY <1>2, <1>4, HardwareAssumption DEF Thread
  <2>2. \A e \in Thread \ {d} : todo[e] \in Seq(Boot)
    BY <1>2, <1>4, EmptySeq DEF QueueInv, Thread, Busy
  <2>3. ~Ahead(todo'[d], {"select_for", "startup_select", "done", "startup"})
    BY <1>1, CommandsOrdered
  <2>4. ~Ahead(todo'[d], {"select_for", "startup_select", "done"}) /\ ~Ahead(todo'[d], {"startup"})
    BY <2>3 DEF Ahead
  <2>5. Early(todo[d])'
    BY <1>2, <2>4 DEF Early
  <2>6. QED
    BY <1>1, <2>1, <2>2, <2>5 DEF ForceInv
<1>5. QED
  BY <1>3, <1>4

\* Every step keeps the invariant.
LEMMA ForceStep == TypeInv /\ QueueInv /\ ForceInv /\ [Next]_vars => ForceInv'
<1> SUFFICES ASSUME TypeInv, QueueInv, ForceInv, [Next]_vars PROVE ForceInv'
  OBVIOUS
<1>1. ASSUME NEW d \in Dispatcher, Begin(d) PROVE ForceInv'
  BY <1>1, ForceBegin
<1>2. ASSUME NEW d \in Thread, Run(d) PROVE ForceInv'
  BY <1>2, ForceRun
<1>3. CASE Tick \/ ChangeSource \/ UNCHANGED vars
  <2>1. UNCHANGED <<todo, limits, fan, adaptive, current, cleared, solo, inforce>>
    BY <1>3 DEF Tick, ChangeSource, vars, config, controllers, history
  <2>2. CASE solo = None
    BY <2>1, <2>2 DEF ForceInv
  <2>3. CASE solo # None
    <3>1. PICK me \in Thread : me = solo
      BY <2>3 DEF TypeInv, TypeOK
    <3>2. /\ Early(todo[me]) => Early(todo[me])'
          /\ \A s : Aimed(s, todo[me]) => Aimed(s, todo[me])'
          /\ \A p : Bound(p, todo[me]) => Bound(p, todo[me])'
          /\ Settled(todo[me]) => Settled(todo[me])'
      BY <2>1, StageKept
    <3>3. \/ Early(todo[me]) \/ (\E s \in AnySource : Aimed(s, todo[me]))
          \/ (\E p \in ProfileId : Bound(p, todo[me])) \/ Settled(todo[me])
      BY <2>3, <3>1 DEF ForceInv
    <3>4. \/ Early(todo[me])' \/ (\E s \in AnySource : Aimed(s, todo[me])')
          \/ (\E p \in ProfileId : Bound(p, todo[me])') \/ Settled(todo[me])'
      BY <3>2, <3>3
    <3>5. (\A e \in Thread \ {solo} : todo[e] \in Seq(Boot))' /\ solo' = me /\ solo' # None
      BY <2>1, <2>3, <3>1 DEF ForceInv
    <3>6. QED
      BY <3>4, <3>5 DEF ForceInv
  <2>4. QED
    BY <2>2, <2>3
<1>4. QED
  BY <1>1, <1>2, <1>3 DEF Next

\* At the start main is alone, and has chosen nothing.
LEMMA InitForce == Init => ForceInv
<1> SUFFICES ASSUME Init PROVE ForceInv
  OBVIOUS
<1>1. todo[Main] = Startup /\ \A e \in Thread \ {Main} : todo[e] = <<>>
  BY DEF Init, Thread
<1>2. solo = Main /\ solo # None /\ inforce = None /\ adaptive.active = None
  BY HardwareAssumption DEF Init, Thread
<1>3. \A i \in 1..Len(Startup) : Startup[i].op \in {"read_source", "startup", "serve", "register"}
  BY DEF Startup, Do
<1>4. Early(Startup)
  BY <1>2, <1>3 DEF Early, Ahead
<1>5. QED
  BY <1>1, <1>2, <1>4, EmptySeq DEF ForceInv

\* The inductive invariant: main's end closes every queue, and the thread that has run
\* alone has chosen no profile, or is on the way to one with all that it has not set yet
\* still ahead, or is done with it.
THEOREM OnTheWay == Spec => [](TypeInv /\ QueueInv /\ ForceInv)
<1>1. Init => TypeInv /\ QueueInv /\ ForceInv
  BY InitTypes, InitQueue, InitForce
<1>2. (TypeInv /\ QueueInv /\ ForceInv) /\ [Next]_vars => (TypeInv /\ QueueInv /\ ForceInv)'
  BY TypeStep, QueueStep, ForceStep
<1>3. QED
  BY <1>1, <1>2, PTL DEF Spec

\* Once set_profile or set_session_persist answered for a profile, or main applied one,
\* with no other command and no failed access since, the SMU's limits, the fan and the
\* adaptive controller are all at that profile (transport.cpp and main.cpp,
\* ProfileInForce).
THEOREM ProfileIsInForce == Spec => []ProfileInForce
<1>1. TypeInv /\ QueueInv /\ ForceInv => ProfileInForce
  <2> SUFFICES ASSUME TypeInv, ForceInv, inforce # None PROVE ProfileInForce
    BY DEF ProfileInForce
  <2>1. inforce \in ProfileId /\ Heading(inforce, <<>>)
    BY DEF ForceInv, Early, Aimed, Bound, Settled
  <2>2. \A ops : ~Ahead(<<>>, ops)
    BY AheadFew
  <2>3. adaptive.ceiling = CeilingOf(inforce) /\ adaptive.active = ActiveOf(inforce)
    BY <2>1, <2>2 DEF Heading
  <2>4. CASE inforce \in Adaptive
    BY <2>3, <2>4 DEF ProfileInForce, CeilingOf, ActiveOf
  <2>5. CASE inforce \notin Adaptive
    <3>1. inforce \in Fixed
      BY <2>1, <2>5 DEF Fixed
    <3>2. limits["stapm"] = inforce /\ limits["fast"] = inforce /\ limits["slow"] = inforce
      BY <2>1, <2>2, <3>1 DEF Heading
    <3>3. /\ fan.mode = ModeOf(inforce) /\ fan.ec = ModeOf(inforce)
          /\ ModeOf(inforce) = "auto" \/ fan.curve = FixedCurve[inforce]
      BY <2>1, <2>2, <3>1 DEF Heading
    <3>4. \A l \in DOMAIN limits : limits[l] = inforce
      BY <3>2 DEF TypeInv, TypeOK
    <3>5. QED
      BY <2>3, <2>5, <3>3, <3>4 DEF ProfileInForce, CeilingOf, ActiveOf, ModeOf
  <2>6. QED
    BY <2>4, <2>5
<1>2. QED
  BY <1>1, OnTheWay, PTL
=============================================================================
