---------------------------- MODULE HardwareProofs ----------------------------
(***************************************************************************)
(* Proofs about Hardware for any threads, profiles, curves, power sources  *)
(* and numbers of commands, failures and changes.                          *)
(***************************************************************************)
EXTENDS Hardware, SequenceTheorems, TLAPS

-----------------------------------------------------------------------------
(* Steps with the arguments that their handlers expect.                    *)

TypedStep == {s \in Step :
  /\ s.op \in {"stapm", "fast", "slow"} => s.arg \in Limits
  /\ s.op \in {"find", "activate", "done"} => s.arg \in ProfileId
  /\ s.op = "deactivate" => s.arg = None
  /\ s.op \in {"find_curve", "profile_fan", "apply_curve"} => s.arg \in CurveId
  /\ s.op = "curve" => s.arg \in CurveId \cup {None}
  /\ s.op \in {"mode", "reset"} => s.arg \in {"auto", "curve"}
  /\ s.op = "release" => s.arg \in {"state", "power"}
  /\ s.op = "save_charge" => s.arg \in Charge \cup {None}
  /\ s.op \in {"charge", "known"} => s.arg \in Charge
  /\ s.op \in {"update", "callback", "auto_apply", "ceiling", "select_for", "startup_select"}
       => s.arg \in AnySource}

\* The steps that need not come first.
Quiet == {s \in TypedStep : s.op \notin {"fast", "slow"}}

\* What a thread can have left to do.
Queue == {s \in Seq(TypedStep) : s # <<>> => Tail(s) \in Seq(Quiet)}

\* A queue of quiet steps is a queue.
LEMMA QuietQueue == Seq(Quiet) \subseteq Queue
<1> SUFFICES ASSUME NEW s \in Seq(Quiet) PROVE s \in Queue
  OBVIOUS
<1>1. s \in Seq(TypedStep)
  BY SeqMonotonic DEF Quiet
<1>2. s # <<>> => Tail(s) \in Seq(Quiet)
  BY HeadTailProperties
<1>3. QED
  BY <1>1, <1>2 DEF Queue

\* A thread's steps after one of its own.
LEMMA GoTyped ==
  ASSUME todo \in [Thread -> Queue], NEW d \in Thread, Busy(d),
         NEW more \in Seq(Quiet), Go(d, more)
  PROVE  /\ todo' \in [Thread -> Queue]
         /\ todo'[d] = more \o Tail(todo[d]) /\ todo'[d] \in Seq(Quiet)
         /\ \A e \in Thread \ {d} : todo'[e] = todo[e]
<1>1. Tail(todo[d]) \in Seq(Quiet)
  BY DEF Queue, Busy
<1>2. more \o Tail(todo[d]) \in Seq(Quiet)
  BY <1>1, ConcatProperties
<1>3. QED
  BY <1>2, QuietQueue DEF Go

\* A step that puts one other in its own place.
LEMMA GoOne ==
  ASSUME todo \in [Thread -> Queue], NEW d \in Thread, Busy(d),
         NEW s \in TypedStep, Go(d, <<s>>)
  PROVE  /\ todo' \in [Thread -> Queue]
         /\ todo'[d] = <<s>> \o Tail(todo[d]) /\ todo'[d] # <<>>
         /\ Head(todo'[d]) = s /\ Tail(todo'[d]) = Tail(todo[d])
         /\ \A e \in Thread \ {d} : todo'[e] = todo[e]
<1>1. Tail(todo[d]) \in Seq(Quiet) /\ Tail(todo[d]) \in Seq(TypedStep)
  BY SeqMonotonic DEF Queue, Busy, Quiet
<1> DEFINE new == <<s>> \o Tail(todo[d])
<1>2. new \in Seq(TypedStep) /\ new # <<>> /\ Head(new) = s /\ Tail(new) = Tail(todo[d])
  BY <1>1
<1>3. new \in Queue
  BY <1>1, <1>2 DEF Queue
<1>4. QED
  BY <1>2, <1>3 DEF Go

\* A command that ends early leaves its thread with nothing to do.
LEMMA EndTyped ==
  ASSUME todo \in [Thread -> Queue], NEW d \in Thread, End(d)
  PROVE  /\ todo' \in [Thread -> Queue] /\ todo'[d] = <<>>
         /\ \A e \in Thread \ {d} : todo'[e] = todo[e]
<1>1. <<>> \in Queue
  BY EmptySeq DEF Queue
<1>2. QED
  BY <1>1 DEF End
-----------------------------------------------------------------------------
(* The programs.                                                           *)

\* Writing limits is one quiet step: it begins with the first register.
LEMMA WriteTdpTyped ==
  ASSUME NEW l \in Limits
  PROVE  WriteTdp(l, TRUE) \in Seq(Quiet) /\ WriteTdp(l, FALSE) \in Seq(Quiet)
<1>1. /\ [op |-> "stapm", arg |-> l, must |-> TRUE] \in Quiet
      /\ [op |-> "stapm", arg |-> l, must |-> FALSE] \in Quiet
  BY DEF Quiet, TypedStep, Step, Op
<1>2. QED
  BY <1>1 DEF WriteTdp

\* The steps the programs are made of are quiet.
LEMMA StepTyped ==
  /\ \A p \in ProfileId : Do("find", p) \in Quiet /\ Do("activate", p) \in Quiet /\ Do("done", p) \in Quiet
  /\ Do("deactivate", None) \in Quiet
  /\ \A c \in CurveId :
       /\ Must("find_curve", c) \in Quiet /\ Do("profile_fan", c) \in Quiet
       /\ Do("apply_curve", c) \in Quiet
  /\ \A c \in CurveId \cup {None} : Do("curve", c) \in Quiet
  /\ \A m \in {"auto", "curve"} :
       Do("mode", m) \in Quiet /\ Must("mode", m) \in Quiet /\ Do("reset", m) \in Quiet
  /\ \A l \in {"state", "power"} : Do("release", l) \in Quiet
  /\ \A n \in Charge \cup {None} : Do("save_charge", n) \in Quiet
  /\ \A n \in Charge :
       Do("charge", n) \in Quiet /\ Must("charge", n) \in Quiet /\ Do("known", n) \in Quiet
  /\ \A s \in AnySource :
       /\ Do("update", s) \in Quiet /\ Do("callback", s) \in Quiet /\ Do("auto_apply", s) \in Quiet
       /\ Do("ceiling", s) \in Quiet /\ Do("select_for", s) \in Quiet
       /\ Do("startup_select", s) \in Quiet
  /\ \A op \in {"gate", "restore", "apply_charge", "read_source", "select", "startup", "serve",
                "register", "ceiling_of_current"} : Do(op, None) \in Quiet
  /\ Do("persist", "on") \in Quiet /\ Do("persist", "off") \in Quiet
BY DEF Quiet, TypedStep, Step, Op, Do, Must, WriteTdp

\* So are the programs: none of them begins in the middle of the three writes.
LEMMA ProgramsTyped ==
  /\ Startup \in Seq(Quiet) /\ ApplyAll \in Seq(Quiet)
  /\ \A program \in Command : program \in Seq(Quiet)
  /\ \A p \in ProfileId : Chosen(p) \in Seq(Quiet) /\ Applied(p) \in Seq(Quiet)
<1> USE StepTyped
<1>1. Startup \in Seq(Quiet) /\ ApplyAll \in Seq(Quiet)
  BY DEF Startup, ApplyAll
<1>2. \A p \in ProfileId : Chosen(p) \in Seq(Quiet)
  <2> SUFFICES ASSUME NEW p \in ProfileId PROVE Chosen(p) \in Seq(Quiet)
    OBVIOUS
  <2>1. <<Ceiling(p)>> \in Seq(Quiet)
    BY HardwareAssumption DEF Ceiling, AnySource
  <2>2. CASE p \in Adaptive
    <3>1. <<Do("activate", p)>> \in Seq(Quiet) /\ <<Do("done", p)>> \in Seq(Quiet)
      OBVIOUS
    <3>2. QED
      BY <2>1, <2>2, <3>1, ConcatProperties DEF Chosen
  <2>3. CASE p \notin Adaptive
    <3>1. p \in Limits /\ FixedCurve[p] \in CurveId \cup {None}
      BY <2>3, HardwareAssumption DEF Limits, Fixed
    <3> DEFINE tail == IF FixedCurve[p] = None THEN <<Do("mode", "auto"), Do("curve", None)>>
                       ELSE <<Do("profile_fan", FixedCurve[p])>>
    <3>2. tail \in Seq(Quiet)
      BY <3>1
    <3>2a. WriteTdp(p, TRUE) \in Seq(Quiet)
      BY ONLY <3>1, WriteTdpTyped
    <3>3. <<Do("deactivate", None)>> \in Seq(Quiet) /\ <<Do("done", p)>> \in Seq(Quiet)
      OBVIOUS
    <3>4. Chosen(p) = <<Ceiling(p)>> \o (WriteTdp(p, TRUE) \o tail \o <<Do("deactivate", None)>>)
                      \o <<Do("done", p)>>
      BY <2>3 DEF Chosen
    <3> HIDE DEF tail
    <3>5. WriteTdp(p, TRUE) \o tail \in Seq(Quiet)
      BY <3>2, <3>2a, ConcatProperties
    <3>6. WriteTdp(p, TRUE) \o tail \o <<Do("deactivate", None)>> \in Seq(Quiet)
      BY <3>3, <3>5, ConcatProperties
    <3>7. <<Ceiling(p)>> \o (WriteTdp(p, TRUE) \o tail \o <<Do("deactivate", None)>>) \in Seq(Quiet)
      BY <2>1, <3>6, ConcatProperties
    <3>8. QED
      BY <3>3, <3>4, <3>7, ConcatProperties
  <2>4. QED
    BY <2>2, <2>3
<1>3. \A p \in ProfileId : Applied(p) \in Seq(Quiet)
  <2> SUFFICES ASSUME NEW p \in ProfileId PROVE Applied(p) \in Seq(Quiet)
    OBVIOUS
  <2>1. CASE p \in Adaptive
    BY <2>1 DEF Applied
  <2>2. CASE p \notin Adaptive
    <3>1. p \in Limits /\ FixedCurve[p] \in CurveId \cup {None}
      BY <2>2, HardwareAssumption DEF Limits, Fixed
    <3> DEFINE tail == IF FixedCurve[p] = None THEN <<Do("mode", "auto")>>
                       ELSE <<Do("apply_curve", FixedCurve[p])>>
    <3>2. tail \in Seq(Quiet)
      BY <3>1
    <3>2a. WriteTdp(p, FALSE) \in Seq(Quiet)
      BY ONLY <3>1, WriteTdpTyped
    <3>3. Applied(p) = WriteTdp(p, FALSE) \o tail
      BY <2>2 DEF Applied
    <3> HIDE DEF tail
    <3>4. QED
      BY <3>2, <3>2a, <3>3, ConcatProperties
  <2>3. QED
    BY <2>1, <2>2
<1>4. \A program \in Command : program \in Seq(Quiet)
  <2>1. \A c \in CurveId \cup {None} : SetFanCurve(c) \in Seq(Quiet)
    <3> SUFFICES ASSUME NEW c \in CurveId \cup {None} PROVE SetFanCurve(c) \in Seq(Quiet)
      OBVIOUS
    <3> DEFINE find == IF c = None THEN <<>> ELSE <<Must("find_curve", c)>>
    <3>1. find \in Seq(Quiet)
      OBVIOUS
    <3>2. <<Gate, Must("mode", "curve")>> \in Seq(Quiet)
      BY DEF Gate
    <3>3. SetFanCurve(c) = <<Gate, Must("mode", "curve")>> \o find
      BY DEF SetFanCurve
    <3> HIDE DEF find
    <3>4. QED
      BY <3>1, <3>2, <3>3, ConcatProperties
  <2>2. SetTdp(Manual) \in Seq(Quiet)
    <3>1. <<Gate>> \in Seq(Quiet)
      BY DEF Gate
    <3>2. Manual \in Limits
      BY DEF Limits
    <3>3. WriteTdp(Manual, TRUE) \in Seq(Quiet)
      BY ONLY <3>2, WriteTdpTyped
    <3>4. QED
      BY <3>1, <3>3, ConcatProperties DEF SetTdp
  <2>3. \A n \in Charge : SetChargeLimit(n) \in Seq(Quiet)
    BY DEF SetChargeLimit, Gate
  <2>4. \A p \in ProfileId : SetProfile(p) \in Seq(Quiet)
    BY DEF SetProfile, Gate
  <2>5. SetFanAuto \in Seq(Quiet) /\ RestoreDefaults \in Seq(Quiet)
    BY DEF SetFanAuto, Gate, RestoreDefaults
  <2>6. /\ <<Do("persist", "on")>> \in Seq(Quiet) /\ <<Do("persist", "off")>> \in Seq(Quiet)
        /\ \A n \in Charge \cup {None} : <<Do("save_charge", n)>> \in Seq(Quiet)
    OBVIOUS
  <2>7. QED
    BY <2>1, <2>2, <2>3, <2>4, <2>5, <2>6 DEF Command
<1>5. QED
  BY <1>1, <1>2, <1>3, <1>4
-----------------------------------------------------------------------------
(* Every step but those of write_tdp leaves its thread with a queue of     *)
(* quiet steps.                                                            *)

TypeInv == TypeOK /\ todo \in [Thread -> Queue]

Moves(d) == Busy(d) /\ (End(d) \/ \E more \in Seq(Quiet) : Go(d, more))

\* The steps of a thread that are not write_tdp's.
RunQuiet(d) ==
  \/ CheckPersist(d) \/ FindProfile(d) \/ FindCurve(d) \/ ProfileFan(d)
  \/ Release(d) \/ SetPersist(d) \/ SaveCharge(d) \/ ResetConfig(d) \/ Done(d)
  \/ SetMode(d) \/ SetCurve(d)
  \/ SetCeiling(d) \/ SetActive(d)
  \/ WriteCharge(d) \/ KnowCharge(d) \/ ApplyCharge(d)
  \/ ReadSource(d) \/ UpdatePower(d) \/ Callback(d) \/ ApplyDefault(d)
  \/ ReadCurrent(d) \/ ApplyCurve(d) \/ ApplyAtStartup(d) \/ Serve(d)

\* The step of a thread that can take it has the argument its handler expects.
LEMMA HeadTyped ==
  ASSUME TypeInv, NEW d \in Thread, NEW op, At(d, op)
  PROVE  Busy(d) /\ Head(todo[d]) \in TypedStep /\ Head(todo[d]).op = op
<1>1. todo[d] \in Seq(TypedStep) /\ todo[d] # <<>>
  BY DEF TypeInv, Queue, At, Busy
<1>2. QED
  BY <1>1, HeadTailProperties DEF At, Busy

\* A failed access drops the step, or the rest of the command.
LEMMA FaultMoves ==
  ASSUME NEW d \in Thread, Busy(d), Fault(d)
  PROVE  Moves(d)
BY EmptySeq DEF Fault, Moves

\* Applying a default profile puts quiet steps in front.
LEMMA AppliedMoves ==
  ASSUME TypeInv, NEW d \in Thread, ApplyDefault(d)
  PROVE  Moves(d)
<1>1. PICK op \in {"auto_apply", "select_for", "startup_select"} :
        /\ At(d, op)
        /\ LET p == DefaultOf(Arg(d))
               stop == <<Do("deactivate", None)>>
               done == <<Do("done", p)>>
           IN  Go(d, CASE p = None -> IF op = "select_for" THEN stop ELSE <<>>
                      [] p \in Adaptive ->
                           Applied(p) \o (IF op = "auto_apply" THEN <<>> ELSE done)
                      [] p \in Fixed /\ op = "auto_apply" -> Applied(p) \o stop
                      [] p \in Fixed /\ op = "select_for" -> Applied(p) \o stop \o done
                      [] p \in Fixed /\ op = "startup_select" -> Applied(p) \o done)
  BY DEF ApplyDefault
<1> DEFINE p == DefaultOf(Arg(d))
           stop == <<Do("deactivate", None)>>
           done == <<Do("done", p)>>
<1>2. p \in ProfileId \cup {None}
  BY <1>1, HeadTyped, HardwareAssumption DEF TypedStep, Arg, DefaultOf
<1>3. stop \in Seq(Quiet) /\ <<>> \in Seq(Quiet) /\ Busy(d)
  BY <1>1, HeadTyped, StepTyped
<1>4. CASE p = None
  <2>1. p \notin Adaptive /\ p \notin Fixed
    BY <1>4, HardwareAssumption DEF Fixed
  <2> HIDE DEF p, stop, done
  <2>2. Go(d, stop) \/ Go(d, <<>>)
    BY <1>1, <1>4, <2>1 DEF p, stop
  <2>3. QED
    BY <1>3, <2>2 DEF Moves
<1>5. CASE p # None
  <2>1. p \in ProfileId /\ p \in Adaptive \cup Fixed /\ ~(p \in Adaptive /\ p \in Fixed)
    BY <1>2, <1>5 DEF Fixed
  <2>2. Applied(p) \in Seq(Quiet) /\ done \in Seq(Quiet)
    BY <2>1, ProgramsTyped, StepTyped
  <2> HIDE DEF p, stop, done
  <2>3. /\ Applied(p) \o stop \in Seq(Quiet) /\ Applied(p) \o done \in Seq(Quiet)
        /\ Applied(p) \o <<>> \in Seq(Quiet)
    BY <1>3, <2>2, ConcatProperties
  <2>4. Applied(p) \o stop \o done \in Seq(Quiet)
    BY <2>2, <2>3, ConcatProperties
  <2>5. \E more \in Seq(Quiet) : Go(d, more)
    BY <1>1, <1>5, <2>1, <2>3, <2>4 DEF p, stop, done
  <2>6. QED
    BY <1>3, <2>5 DEF Moves
<1>6. QED
  BY <1>4, <1>5

\* A quiet step is followed by quiet steps.
LEMMA RunMoves ==
  ASSUME TypeInv, NEW d \in Thread, RunQuiet(d)
  PROVE  Moves(d)
<1>0. <<>> \in Seq(Quiet)
  BY EmptySeq
<1>1. ASSUME \/ CheckPersist(d) \/ FindCurve(d) \/ Release(d) \/ SaveCharge(d) \/ ResetConfig(d)
             \/ Done(d) \/ SetCurve(d) \/ SetCeiling(d) \/ SetActive(d) \/ KnowCharge(d) \/ Serve(d)
      PROVE  Moves(d)
  BY <1>0, <1>1 DEF CheckPersist, FindCurve, Release, SaveCharge, ResetConfig, Done, SetCurve, SetCeiling,
       SetActive, KnowCharge, Serve, Moves, At
<1>2. ASSUME FindProfile(d) PROVE Moves(d)
  BY <1>2, HeadTyped, ProgramsTyped DEF FindProfile, Moves, TypedStep, Arg
<1>3. ASSUME ProfileFan(d) PROVE Moves(d)
  <2>1. Arg(d) \in CurveId /\ Busy(d)
    BY <1>3, HeadTyped DEF ProfileFan, TypedStep, Arg
  <2> DEFINE fan_steps == IF HasCurve(Arg(d)) THEN <<Do("mode", "curve"), Do("curve", Arg(d))>>
                          ELSE <<Do("mode", "auto"), Do("curve", None)>>
  <2>2. fan_steps \in Seq(Quiet) /\ <<Do("release", "state")>> \in Seq(Quiet)
    BY <2>1, StepTyped
  <2>3. Go(d, fan_steps \o <<Do("release", "state")>>)
    BY <1>3 DEF ProfileFan
  <2> HIDE DEF fan_steps
  <2>4. QED
    BY <2>1, <2>2, <2>3, ConcatProperties DEF Moves
<1>4. ASSUME SetPersist(d) PROVE Moves(d)
  BY <1>0, <1>4, ProgramsTyped DEF SetPersist, Moves, At
<1>5. ASSUME SetMode(d) PROVE Moves(d)
  BY <1>0, <1>5, FaultMoves DEF SetMode, Moves, At
<1>6. ASSUME WriteCharge(d) PROVE Moves(d)
  <2>1. Arg(d) \in Charge /\ Busy(d)
    BY <1>6, HeadTyped DEF WriteCharge, TypedStep, Arg
  <2>2. <<Do("known", Arg(d))>> \in Seq(Quiet)
    BY <2>1, StepTyped
  <2>3. QED
    BY <1>6, <2>1, <2>2, FaultMoves DEF WriteCharge, Moves
<1>7. ASSUME ApplyCharge(d) PROVE Moves(d)
  <2>1. charge.config # None => <<Do("charge", charge.config)>> \in Seq(Quiet)
    BY StepTyped DEF TypeInv, TypeOK
  <2>2. QED
    BY <1>0, <1>7, <2>1 DEF ApplyCharge, Moves, At
<1>8. ASSUME ReadSource(d) PROVE Moves(d)
  <2>1. <<Do("update", source)>> \in Seq(Quiet) /\ <<Do("update", Unknown)>> \in Seq(Quiet)
    BY StepTyped DEF TypeInv, TypeOK, AnySource
  <2>2. QED
    BY <1>8, <2>1 DEF ReadSource, Moves, At
<1>9. ASSUME UpdatePower(d) PROVE Moves(d)
  <2>1. Arg(d) \in AnySource /\ Busy(d)
    BY <1>9, HeadTyped DEF UpdatePower, TypedStep, Arg
  <2>2. <<Do("callback", Arg(d)), Do("release", "power")>> \in Seq(Quiet)
    BY <2>1, StepTyped
  <2>3. QED
    BY <1>0, <1>9, <2>1, <2>2 DEF UpdatePower, Moves
<1>10. ASSUME Callback(d) PROVE Moves(d)
  <2>1. Arg(d) \in AnySource /\ Busy(d)
    BY <1>10, HeadTyped DEF Callback, TypedStep, Arg
  <2>2. <<Do("ceiling", Arg(d)), Do("auto_apply", Arg(d))>> \in Seq(Quiet)
    BY <2>1, StepTyped
  <2>3. QED
    BY <1>0, <1>10, <2>1, <2>2 DEF Callback, Moves
<1>11. ASSUME ReadCurrent(d) PROVE Moves(d)
  <2>1. /\ <<Do("ceiling", current)>> \in Seq(Quiet)
        /\ <<Do("ceiling", current), Do("select_for", current)>> \in Seq(Quiet)
    BY StepTyped DEF TypeInv, TypeOK
  <2>2. QED
    BY <1>11, <2>1 DEF ReadCurrent, Moves, At
<1>12. ASSUME ApplyCurve(d) PROVE Moves(d)
  <2>1. Arg(d) \in CurveId /\ Busy(d)
    BY <1>12, HeadTyped DEF ApplyCurve, TypedStep, Arg
  <2>2. <<Do("mode", "curve"), Do("curve", Arg(d))>> \in Seq(Quiet)
    BY <2>1, StepTyped
  <2>3. QED
    BY <1>0, <1>12, <2>1, <2>2 DEF ApplyCurve, Moves
<1>13. ASSUME ApplyAtStartup(d) PROVE Moves(d)
  <2>1. <<Do("ceiling", current), Do("apply_charge", None), Do("startup_select", current)>> \in Seq(Quiet)
    BY StepTyped DEF TypeInv, TypeOK
  <2>2. QED
    BY <1>0, <1>13, <2>1 DEF ApplyAtStartup, Moves, At
<1>14. QED
  BY <1>1, <1>2, <1>3, <1>4, <1>5, <1>6, <1>7, <1>8, <1>9, <1>10, <1>11, <1>12, <1>13, AppliedMoves
     DEF RunQuiet

\* Such a move keeps the queues, and leaves a quiet one.
LEMMA MovesQueue ==
  ASSUME TypeInv, NEW d \in Thread, Moves(d)
  PROVE  /\ todo' \in [Thread -> Queue] /\ todo'[d] \in Seq(Quiet)
         /\ \A e \in Thread \ {d} : todo'[e] = todo[e]
<1>1. CASE End(d)
  BY <1>1, EndTyped, EmptySeq DEF TypeInv
<1>2. CASE \E more \in Seq(Quiet) : Go(d, more)
  BY <1>2, GoTyped DEF TypeInv, Moves
<1>3. QED
  BY <1>1, <1>2 DEF Moves

\* A queue is a sequence of steps.
LEMMA QueueSteps == [Thread -> Queue] \subseteq [Thread -> Seq(Step)]
<1>1. Queue \subseteq Seq(Step)
  BY SeqMonotonic DEF Queue, TypedStep
<1>2. QED
  BY <1>1

\* A failed access keeps the types of the counters and of the history.
LEMMA FaultTypes ==
  ASSUME TypeInv, NEW d \in Thread, Fault(d)
  PROVE  /\ spent' \in [commands: 0..MaxCommands, faults: 0..MaxFaults, changes: 0..MaxChanges]
         /\ grace' \subseteq Thread /\ solo' \in Thread \cup {None} /\ inforce' \in ProfileId \cup {None}
<1>1. spent' \in [commands: 0..MaxCommands, faults: 0..MaxFaults, changes: 0..MaxChanges]
  <2>1. spent \in [commands: 0..MaxCommands, faults: 0..MaxFaults, changes: 0..MaxChanges]
    BY DEF TypeInv, TypeOK
  <2>2. spent.faults < MaxFaults /\ spent' = [spent EXCEPT !.faults = @ + 1]
    BY DEF Fault
  <2>3. spent.faults + 1 \in 0..MaxFaults
    BY <2>1, <2>2, HardwareAssumption
  <2>4. QED
    BY <2>1, <2>2, <2>3
<1>2. grace' \subseteq Thread /\ solo' \in Thread \cup {None} /\ inforce' \in ProfileId \cup {None}
  BY DEF TypeInv, TypeOK, Fault
<1>3. QED
  BY <1>1, <1>2

\* The types at the start.
LEMMA InitTypes == Init => TypeInv
<1> SUFFICES ASSUME Init PROVE TypeInv
  OBVIOUS
<1>1. todo \in [Thread -> Queue]
  BY ProgramsTyped, QuietQueue, EmptySeq DEF Init
<1>2. todo \in [Thread -> Seq(Step)]
  BY <1>1, QueueSteps
<1>3. holder \in [{"state", "power", "tdp"} -> Thread \cup {None}]
  BY DEF Init
<1>4. charge \in [config: Charge \cup {None}, register: Charge, last: Charge \cup {None}]
  BY DEF Init
<1>5. limits \in [{"stapm", "fast", "slow"} -> Limits] /\ last \in Limits
  BY DEF Init, Limits
<1>6. spent \in [commands: 0..MaxCommands, faults: 0..MaxFaults, changes: 0..MaxChanges]
  BY HardwareAssumption DEF Init
<1>7. /\ source \in Source /\ current \in AnySource
      /\ fan \in [mode: {"auto", "curve"}, curve: CurveId \cup {None}, ec: {"auto", "curve"}]
      /\ duty \in CurveId \cup {Bios}
      /\ adaptive \in [active: ProfileId \cup {None}, ceiling: AnySource \cup {None}]
      /\ phase \in {"startup", "serving", "ready"}
  BY DEF Init, AnySource
<1>8. persist \in BOOLEAN /\ cleared \in BOOLEAN /\ torn \in BOOLEAN
  BY DEF Init
<1>9. grace \subseteq Thread /\ solo \in Thread \cup {None} /\ inforce \in ProfileId \cup {None}
  BY DEF Init, Thread
<1>10. QED
  BY <1>1, <1>2, <1>3, <1>4, <1>5, <1>6, <1>7, <1>8, <1>9 DEF TypeInv, TypeOK

\* A quiet step keeps the types.
LEMMA QuietTypes ==
  ASSUME TypeInv, NEW d \in Thread, RunQuiet(d)
  PROVE  TypeInv'
<1>0. todo' \in [Thread -> Queue] /\ todo' \in [Thread -> Seq(Step)]
  BY RunMoves, MovesQueue, QueueSteps
<1> USE DEF history, config, controllers, environment
<1>1. ASSUME \/ CheckPersist(d) \/ FindProfile(d) \/ Callback(d) \/ ApplyDefault(d) \/ ApplyCharge(d)
             \/ ReadCurrent(d) \/ ApplyCurve(d) \/ ApplyAtStartup(d)
      PROVE  TypeInv'
  <2>1. UNCHANGED <<holder, config, controllers, environment, history>>
    BY <1>1 DEF CheckPersist, FindProfile, Callback, ApplyDefault, ApplyCharge, ReadCurrent, ApplyCurve,
       ApplyAtStartup
  <2>2. QED
    BY <1>0, <2>1 DEF TypeInv, TypeOK
<1>2. ASSUME FindCurve(d) PROVE TypeInv'
  <2>1. Arg(d) \in CurveId
    BY <1>2, HeadTyped DEF FindCurve, TypedStep, Arg
  <2>2. QED
    BY <1>0, <1>2, <2>1 DEF TypeInv, TypeOK, FindCurve
<1>3. ASSUME ProfileFan(d) PROVE TypeInv'
  BY <1>0, <1>3 DEF TypeInv, TypeOK, ProfileFan, Take
<1>4. ASSUME Release(d) PROVE TypeInv'
  <2>1. holder' \in [{"state", "power", "tdp"} -> Thread \cup {None}]
    BY <1>4 DEF Release, Take, TypeInv, TypeOK
  <2>2. UNCHANGED <<config, controllers, environment, history>>
    BY <1>4 DEF Release
  <2>3. TypeOK'
    BY ONLY <1>0, <2>1, <2>2, TypeInv DEF TypeInv, TypeOK, config, controllers, environment, history
  <2>4. QED
    BY <1>0, <2>3 DEF TypeInv
<1>5. ASSUME SetPersist(d) PROVE TypeInv'
  <2>1. persist' \in BOOLEAN /\ grace' \subseteq Thread
    BY <1>5 DEF SetPersist, TypeInv, TypeOK
  <2>2. QED
    BY <1>0, <1>5, <2>1 DEF TypeInv, TypeOK, SetPersist
<1>6. ASSUME SaveCharge(d) PROVE TypeInv'
  <2>1. Arg(d) \in Charge \cup {None}
    BY <1>6, HeadTyped DEF SaveCharge, TypedStep, Arg
  <2>2. charge' \in [config: Charge \cup {None}, register: Charge, last: Charge \cup {None}]
    BY <1>6, <2>1 DEF SaveCharge, TypeInv, TypeOK
  <2>3. QED
    BY <1>0, <1>6, <2>2 DEF TypeInv, TypeOK, SaveCharge
<1>7. ASSUME ResetConfig(d) PROVE TypeInv'
  <2>1. persist' \in BOOLEAN /\ cleared' \in BOOLEAN
    BY <1>7 DEF ResetConfig
  <2>2. charge' \in [config: Charge \cup {None}, register: Charge, last: Charge \cup {None}]
    BY <1>7, HardwareAssumption DEF ResetConfig, TypeInv, TypeOK
  <2>3. QED
    BY <1>0, <1>7, <2>1, <2>2 DEF TypeInv, TypeOK, ResetConfig
<1>8. ASSUME Done(d) PROVE TypeInv'
  <2>1. Arg(d) \in ProfileId
    BY <1>8, HeadTyped DEF Done, TypedStep, Arg
  <2>2. QED
    BY <1>0, <1>8, <2>1 DEF TypeInv, TypeOK, Done
<1>9. ASSUME SetMode(d) PROVE TypeInv'
  <2>1. Arg(d) \in {"auto", "curve"}
    BY <1>9, HeadTyped DEF SetMode, TypedStep, Arg
  <2>2. /\ spent' \in [commands: 0..MaxCommands, faults: 0..MaxFaults, changes: 0..MaxChanges]
        /\ grace' \subseteq Thread /\ solo' \in Thread \cup {None} /\ inforce' \in ProfileId \cup {None}
    BY <1>9, FaultTypes DEF SetMode, TypeInv, TypeOK
  <2>3. torn' = torn
    BY <1>9 DEF SetMode
  <2>4. fan' \in [mode: {"auto", "curve"}, curve: CurveId \cup {None}, ec: {"auto", "curve"}]
    BY <1>9, <2>1 DEF SetMode, TypeInv, TypeOK
  <2>5. QED
    BY <1>0, <1>9, <2>2, <2>3, <2>4 DEF TypeInv, TypeOK, SetMode
<1>10. ASSUME SetCurve(d) PROVE TypeInv'
  <2>1. Arg(d) \in CurveId \cup {None}
    BY <1>10, HeadTyped DEF SetCurve, TypedStep, Arg
  <2>2. fan' \in [mode: {"auto", "curve"}, curve: CurveId \cup {None}, ec: {"auto", "curve"}]
    BY <1>10, <2>1 DEF SetCurve, TypeInv, TypeOK
  <2>3. QED
    BY <1>0, <1>10, <2>2 DEF TypeInv, TypeOK, SetCurve
<1>11. ASSUME SetCeiling(d) PROVE TypeInv'
  <2>1. Arg(d) \in AnySource
    BY <1>11, HeadTyped DEF SetCeiling, TypedStep, Arg
  <2>2. adaptive' \in [active: ProfileId \cup {None}, ceiling: AnySource \cup {None}]
    BY <1>11, <2>1 DEF SetCeiling, TypeInv, TypeOK
  <2>3. QED
    BY <1>0, <1>11, <2>2 DEF TypeInv, TypeOK, SetCeiling
<1>12. ASSUME SetActive(d) PROVE TypeInv'
  <2>1. Arg(d) \in ProfileId \cup {None}
    BY <1>12, HeadTyped DEF SetActive, TypedStep, Arg
  <2>2. adaptive' \in [active: ProfileId \cup {None}, ceiling: AnySource \cup {None}]
    BY <1>12, <2>1 DEF SetActive, TypeInv, TypeOK
  <2>3. QED
    BY <1>0, <1>12, <2>2 DEF TypeInv, TypeOK, SetActive
<1>13. ASSUME WriteCharge(d) PROVE TypeInv'
  <2>1. Arg(d) \in Charge
    BY <1>13, HeadTyped DEF WriteCharge, TypedStep, Arg
  <2>2. /\ spent' \in [commands: 0..MaxCommands, faults: 0..MaxFaults, changes: 0..MaxChanges]
        /\ grace' \subseteq Thread /\ solo' \in Thread \cup {None} /\ inforce' \in ProfileId \cup {None}
    BY <1>13, FaultTypes DEF WriteCharge, TypeInv, TypeOK
  <2>3. torn' = torn
    BY <1>13 DEF WriteCharge
  <2>4. charge' \in [config: Charge \cup {None}, register: Charge, last: Charge \cup {None}]
    BY <1>13, <2>1 DEF WriteCharge, TypeInv, TypeOK
  <2>5. QED
    BY <1>0, <1>13, <2>2, <2>3, <2>4 DEF TypeInv, TypeOK, WriteCharge
<1>14. ASSUME KnowCharge(d) PROVE TypeInv'
  <2>1. Arg(d) \in Charge
    BY <1>14, HeadTyped DEF KnowCharge, TypedStep, Arg
  <2>2. charge' \in [config: Charge \cup {None}, register: Charge, last: Charge \cup {None}]
    BY <1>14, <2>1 DEF KnowCharge, TypeInv, TypeOK
  <2>3. QED
    BY <1>0, <1>14, <2>2 DEF TypeInv, TypeOK, KnowCharge
<1>15. ASSUME ReadSource(d) PROVE TypeInv'
  <2>1. spent' \in [commands: 0..MaxCommands, faults: 0..MaxFaults, changes: 0..MaxChanges]
    BY <1>15, HardwareAssumption DEF ReadSource, TypeInv, TypeOK
  <2>2. QED
    BY <1>0, <1>15, <2>1 DEF TypeInv, TypeOK, ReadSource
<1>16. ASSUME UpdatePower(d) PROVE TypeInv'
  <2>1. Arg(d) \in AnySource
    BY <1>16, HeadTyped DEF UpdatePower, TypedStep, Arg
  <2>2. holder' \in [{"state", "power", "tdp"} -> Thread \cup {None}]
    BY <1>16 DEF UpdatePower, Take, TypeInv, TypeOK
  <2>3. QED
    BY <1>0, <1>16, <2>1, <2>2 DEF TypeInv, TypeOK, UpdatePower
<1>17. ASSUME Serve(d) PROVE TypeInv'
  BY <1>0, <1>17 DEF TypeInv, TypeOK, Serve
<1>18. QED
  BY <1>1, <1>2, <1>3, <1>4, <1>5, <1>6, <1>7, <1>8, <1>9, <1>10, <1>11, <1>12, <1>13, <1>14, <1>15, <1>16,
     <1>17 DEF RunQuiet
-----------------------------------------------------------------------------
(* write_tdp.                                                              *)

\* The step of a thread becomes the write of the next limit.
Becomes(d, op) ==
  /\ todo' \in [Thread -> Queue] /\ Busy(d)'
  /\ Head(todo[d])' = [Head(todo[d]) EXCEPT !.op = op]
  /\ Tail(todo[d])' = Tail(todo[d])
  /\ \A e \in Thread \ {d} : todo'[e] = todo[e]

\* A write of a register that succeeds turns into the write of the next one.
LEMMA GoNext ==
  ASSUME TypeInv, NEW d \in Thread, NEW op \in {"fast", "slow"},
         At(d, "stapm") \/ At(d, "fast"), Go(d, <<[Head(todo[d]) EXCEPT !.op = op]>>)
  PROVE  Becomes(d, op)
<1>1. Busy(d) /\ Head(todo[d]) \in TypedStep /\ Head(todo[d]).arg \in Limits
  BY HeadTyped DEF TypedStep
<1>2. [Head(todo[d]) EXCEPT !.op = op] \in TypedStep
  BY <1>1 DEF TypedStep, Step, Op
<1>3. QED
  BY <1>1, <1>2, GoOne DEF TypeInv, Becomes, Busy

\* The three writes: what each does to the lock, the limits and torn.
LEMMA TdpMoves ==
  ASSUME TypeInv, NEW d \in Thread
  PROVE  /\ WriteStapm(d) =>
              \/ /\ Becomes(d, "fast") /\ Take("tdp", d) /\ UNCHANGED torn
                 /\ limits' = [limits EXCEPT !["stapm"] = Arg(d)]
              \/ Moves(d) /\ UNCHANGED <<holder, limits, torn>>
         /\ WriteFast(d) =>
              \/ /\ Becomes(d, "slow") /\ UNCHANGED <<holder, torn>>
                 /\ limits' = [limits EXCEPT !["fast"] = Arg(d)]
              \/ Moves(d) /\ Take("tdp", None) /\ torn' = TRUE
         /\ WriteSlow(d) =>
              /\ Moves(d) /\ Take("tdp", None)
              /\ \/ limits' = [limits EXCEPT !["slow"] = Arg(d)] /\ last' = Arg(d)
                 \/ torn' = TRUE
<1>1. ASSUME WriteStapm(d)
      PROVE  \/ /\ Becomes(d, "fast") /\ Take("tdp", d) /\ UNCHANGED torn
                /\ limits' = [limits EXCEPT !["stapm"] = Arg(d)]
             \/ Moves(d) /\ UNCHANGED <<holder, limits, torn>>
  BY <1>1, GoNext, FaultMoves DEF WriteStapm, At, history
<1>2. ASSUME WriteFast(d)
      PROVE  \/ /\ Becomes(d, "slow") /\ UNCHANGED <<holder, torn>>
                /\ limits' = [limits EXCEPT !["fast"] = Arg(d)]
             \/ Moves(d) /\ Take("tdp", None) /\ torn' = TRUE
  BY <1>2, GoNext, FaultMoves DEF WriteFast, At, history
<1>3. ASSUME WriteSlow(d)
      PROVE  /\ Moves(d) /\ Take("tdp", None)
             /\ \/ limits' = [limits EXCEPT !["slow"] = Arg(d)] /\ last' = Arg(d)
                \/ torn' = TRUE
  BY <1>3, EmptySeq, FaultMoves DEF WriteSlow, At, Moves
<1>4. QED
  BY <1>1, <1>2, <1>3

\* They keep the types.
LEMMA TdpTypes ==
  ASSUME TypeInv, NEW d \in Thread, WriteStapm(d) \/ WriteFast(d) \/ WriteSlow(d)
  PROVE  TypeInv'
<1>1. todo' \in [Thread -> Queue] /\ todo' \in [Thread -> Seq(Step)]
  BY TdpMoves, MovesQueue, QueueSteps DEF Becomes
<1>2. Arg(d) \in Limits
  BY HeadTyped DEF WriteStapm, WriteFast, WriteSlow, TypedStep, Arg
<1>3. limits' \in [{"stapm", "fast", "slow"} -> Limits] /\ last' \in Limits
  <2>1. limits' = limits \/ \E l \in {"stapm", "fast", "slow"} : limits' = [limits EXCEPT ![l] = Arg(d)]
    BY DEF WriteStapm, WriteFast, WriteSlow
  <2>2. last' \in {last, Arg(d)}
    BY DEF WriteStapm, WriteFast, WriteSlow
  <2>3. last \in Limits /\ limits \in [{"stapm", "fast", "slow"} -> Limits]
    BY DEF TypeInv, TypeOK
  <2>4. limits' \in [{"stapm", "fast", "slow"} -> Limits]
    BY ONLY <1>2, <2>1, <2>3
  <2>5. QED
    BY <1>2, <2>2, <2>3, <2>4
<1>4. holder' \in [{"state", "power", "tdp"} -> Thread \cup {None}]
  <2>1. holder' = holder \/ Take("tdp", d) \/ Take("tdp", None)
    BY DEF WriteStapm, WriteFast, WriteSlow
  <2>2. QED
    BY <2>1 DEF Take, TypeInv, TypeOK
<1>5. /\ spent' \in [commands: 0..MaxCommands, faults: 0..MaxFaults, changes: 0..MaxChanges]
      /\ grace' \subseteq Thread /\ solo' \in Thread \cup {None} /\ inforce' \in ProfileId \cup {None}
  BY FaultTypes DEF WriteStapm, WriteFast, WriteSlow, TypeInv, TypeOK, history
<1>6. torn' \in BOOLEAN
  <2>1. CASE WriteStapm(d)
    BY <2>1 DEF WriteStapm, TypeInv, TypeOK, history
  <2>2. CASE WriteFast(d)
    BY <2>2 DEF WriteFast, TypeInv, TypeOK, history
  <2>3. CASE WriteSlow(d)
    BY <2>3 DEF WriteSlow, TypeInv, TypeOK, history
  <2>4. QED
    BY <2>1, <2>2, <2>3
<1>7. UNCHANGED <<config, fan, adaptive, current, source, duty, phase>>
  BY DEF WriteStapm, WriteFast, WriteSlow
<1>8. persist' \in BOOLEAN /\ cleared' \in BOOLEAN
  BY <1>7 DEF TypeInv, TypeOK, config
<1>9. TypeOK'
  BY ONLY TypeInv, <1>1, <1>3, <1>4, <1>5, <1>6, <1>7, <1>8 DEF TypeInv, TypeOK, config
<1>10. QED
  BY <1>1, <1>9 DEF TypeInv
-----------------------------------------------------------------------------
(* Types.                                                                  *)

\* So does the beginning of a command, which finds its thread idle.
LEMMA BeginTypes ==
  ASSUME TypeInv, NEW d \in Dispatcher, Begin(d)
  PROVE  /\ TypeInv' /\ todo'[d] \in Seq(Quiet) /\ ~Busy(d)
         /\ \A e \in Thread \ {d} : todo'[e] = todo[e]
<1>1. PICK program \in Command : todo' = [todo EXCEPT ![d] = program]
  BY DEF Begin
<1>2. d \in Thread /\ program \in Seq(Quiet)
  BY ProgramsTyped DEF Thread
<1>3. todo' \in [Thread -> Queue] /\ todo'[d] = program /\ \A e \in Thread \ {d} : todo'[e] = todo[e]
  BY <1>1, <1>2, QuietQueue DEF TypeInv
<1>4. todo' \in [Thread -> Seq(Step)]
  BY <1>3, QueueSteps
<1>5. spent' \in [commands: 0..MaxCommands, faults: 0..MaxFaults, changes: 0..MaxChanges]
  <2>1. spent \in [commands: 0..MaxCommands, faults: 0..MaxFaults, changes: 0..MaxChanges]
    BY DEF TypeInv, TypeOK
  <2>2. spent.commands < MaxCommands /\ spent' = [spent EXCEPT !.commands = @ + 1]
    BY DEF Begin
  <2>3. spent.commands + 1 \in 0..MaxCommands
    BY <2>1, <2>2, HardwareAssumption
  <2>4. QED
    BY <2>1, <2>2, <2>3
<1>6. grace' \subseteq Thread /\ solo' \in Thread \cup {None} /\ inforce' \in ProfileId \cup {None}
  BY <1>2 DEF Begin, TypeInv, TypeOK
<1>7. UNCHANGED <<holder, config, controllers, source, duty, phase, torn>> /\ ~Busy(d)
  BY DEF Begin
<1>8. TypeOK'
  BY <1>4, <1>5, <1>6, <1>7 DEF TypeInv, TypeOK, config, controllers
<1>9. QED
  BY <1>2, <1>3, <1>7, <1>8 DEF TypeInv

\* Every step keeps the types.
LEMMA TypeStep == TypeInv /\ [Next]_vars => TypeInv'
<1> SUFFICES ASSUME TypeInv, [Next]_vars PROVE TypeInv'
  OBVIOUS
<1>1. ASSUME NEW d \in Thread, Run(d) PROVE TypeInv'
  BY <1>1, QuietTypes, TdpTypes DEF Run, RunQuiet
<1>2. ASSUME Tick PROVE TypeInv'
  <2>1. duty' \in CurveId \cup {Bios}
    BY <1>2 DEF Tick, TypeInv, TypeOK
  <2>2. UNCHANGED <<todo, holder, config, controllers, source, phase, spent, history>>
    BY <1>2 DEF Tick
  <2>3. QED
    BY <2>1, <2>2 DEF TypeInv, TypeOK, config, controllers, history
<1>3. ASSUME ChangeSource PROVE TypeInv'
  <2>1. spent' \in [commands: 0..MaxCommands, faults: 0..MaxFaults, changes: 0..MaxChanges]
    <3>1. spent \in [commands: 0..MaxCommands, faults: 0..MaxFaults, changes: 0..MaxChanges]
      BY DEF TypeInv, TypeOK
    <3>2. spent.changes < MaxChanges /\ spent' = [spent EXCEPT !.changes = @ + 1]
      BY <1>3 DEF ChangeSource
    <3>3. spent.changes + 1 \in 0..MaxChanges
      BY <3>1, <3>2, HardwareAssumption
    <3>4. QED
      BY <3>1, <3>2, <3>3
  <2>2. UNCHANGED <<todo, holder, config, controllers, duty, phase, history>> /\ source' \in Source
    BY <1>3 DEF ChangeSource
  <2>3. QED
    BY <2>1, <2>2 DEF TypeInv, TypeOK, config, controllers, history
<1>4. ASSUME UNCHANGED vars PROVE TypeInv'
  BY <1>4 DEF TypeInv, TypeOK, vars
<1>5. QED
  BY <1>1, <1>2, <1>3, <1>4, BeginTypes DEF Next

\* Every queue of steps is one a handler of transport.cpp or main.cpp can have left,
\* and the second and third write of tdp.cpp are only ever at its head.
THEOREM Typing == Spec => []TypeInv
BY InitTypes, TypeStep, PTL DEF Spec

\* Every variable keeps its type, and every handler gets the argument it expects,
\* whatever the threads, profiles and bounds (TypeOK).
THEOREM TypeCorrect == Spec => []TypeOK
<1>1. TypeInv => TypeOK
  BY DEF TypeInv
<1>2. QED
  BY <1>1, Typing, PTL
-----------------------------------------------------------------------------
(* The three limits.  The mutex of the TDP controller is held exactly      *)
(* between the first write and the last, and what its holder has written   *)
(* so far is one request's.                                                *)

Writing(d) == Busy(d) /\ Head(todo[d]).op \in {"fast", "slow"}

LimitsInv ==
  /\ \A d \in Thread : holder["tdp"] = d <=> Writing(d)
  /\ \A d \in Thread : Writing(d) =>
       /\ limits["stapm"] = Arg(d)
       /\ Head(todo[d]).op = "slow" => limits["fast"] = Arg(d)
  /\ LimitsCoherent

\* No other step touches the limits or the mutex that guards them.
LEMMA QuietLeavesLimits ==
  ASSUME TypeInv, NEW d \in Thread, RunQuiet(d)
  PROVE  /\ UNCHANGED <<limits, last, torn>> /\ holder'["tdp"] = holder["tdp"]
         /\ ~Writing(d) /\ ~Writing(d)' /\ \A e \in Thread \ {d} : todo'[e] = todo[e]
<1> USE DEF config, controllers, environment, history
<1>1. ~Writing(d)
  <2>1. ASSUME \/ CheckPersist(d) \/ FindProfile(d) \/ FindCurve(d) \/ ProfileFan(d)
               \/ Release(d) \/ SetPersist(d) \/ SaveCharge(d) \/ ResetConfig(d) \/ Done(d)
               \/ SetMode(d) \/ SetCurve(d) \/ SetCeiling(d) \/ SetActive(d)
        PROVE  ~Writing(d)
    BY <2>1 DEF CheckPersist, FindProfile, FindCurve, ProfileFan, Release, SetPersist, SaveCharge,
       ResetConfig, Done, SetMode, SetCurve, SetCeiling, SetActive, At, Writing
  <2>2. ASSUME \/ WriteCharge(d) \/ KnowCharge(d) \/ ApplyCharge(d)
               \/ ReadSource(d) \/ UpdatePower(d) \/ Callback(d) \/ ApplyDefault(d)
               \/ ReadCurrent(d) \/ ApplyCurve(d) \/ ApplyAtStartup(d) \/ Serve(d)
        PROVE  ~Writing(d)
    BY <2>2 DEF WriteCharge, KnowCharge, ApplyCharge, ReadSource, UpdatePower, Callback, ApplyDefault,
       ReadCurrent, ApplyCurve, ApplyAtStartup, Serve, At, Writing
  <2>3. QED
    BY <2>1, <2>2 DEF RunQuiet
<1>2. UNCHANGED <<limits, last, torn>>
  <2>1. ASSUME \/ CheckPersist(d) \/ FindProfile(d) \/ FindCurve(d) \/ ProfileFan(d)
               \/ Release(d) \/ SetPersist(d) \/ SaveCharge(d) \/ ResetConfig(d) \/ Done(d)
               \/ SetMode(d) \/ SetCurve(d) \/ SetCeiling(d) \/ SetActive(d)
        PROVE  UNCHANGED <<limits, last, torn>>
    BY <2>1 DEF CheckPersist, FindProfile, FindCurve, ProfileFan, Release, SetPersist, SaveCharge,
       ResetConfig, Done, SetMode, SetCurve, SetCeiling, SetActive
  <2>2. ASSUME \/ WriteCharge(d) \/ KnowCharge(d) \/ ApplyCharge(d)
               \/ ReadSource(d) \/ UpdatePower(d) \/ Callback(d) \/ ApplyDefault(d)
               \/ ReadCurrent(d) \/ ApplyCurve(d) \/ ApplyAtStartup(d) \/ Serve(d)
        PROVE  UNCHANGED <<limits, last, torn>>
    BY <2>2 DEF WriteCharge, KnowCharge, ApplyCharge, ReadSource, UpdatePower, Callback, ApplyDefault,
       ReadCurrent, ApplyCurve, ApplyAtStartup, Serve
  <2>3. QED
    BY <2>1, <2>2 DEF RunQuiet
<1>3. holder'["tdp"] = holder["tdp"]
  <2>0. \A l \in {"state", "power"} : \A x : Take(l, x) => holder'["tdp"] = holder["tdp"]
    BY DEF Take, TypeInv, TypeOK
  <2>1. ASSUME ProfileFan(d) PROVE holder'["tdp"] = holder["tdp"]
    BY <2>0, <2>1 DEF ProfileFan
  <2>2. ASSUME Release(d) PROVE holder'["tdp"] = holder["tdp"]
    BY <2>0, <2>2, HeadTyped DEF Release, TypedStep, Arg
  <2>3. ASSUME UpdatePower(d) PROVE holder'["tdp"] = holder["tdp"]
    BY <2>0, <2>3 DEF UpdatePower
  <2>4. ASSUME \/ CheckPersist(d) \/ FindProfile(d) \/ FindCurve(d)
               \/ SetPersist(d) \/ SaveCharge(d) \/ ResetConfig(d) \/ Done(d)
               \/ SetMode(d) \/ SetCurve(d) \/ SetCeiling(d) \/ SetActive(d)
               \/ WriteCharge(d) \/ KnowCharge(d) \/ ApplyCharge(d)
               \/ ReadSource(d) \/ Callback(d) \/ ApplyDefault(d)
               \/ ReadCurrent(d) \/ ApplyCurve(d) \/ ApplyAtStartup(d) \/ Serve(d)
        PROVE  holder' = holder
    BY <2>4 DEF CheckPersist, FindProfile, FindCurve, SetPersist, SaveCharge, ResetConfig, Done, SetMode,
       SetCurve, SetCeiling, SetActive, WriteCharge, KnowCharge, ApplyCharge, ReadSource, Callback,
       ApplyDefault, ReadCurrent, ApplyCurve, ApplyAtStartup, Serve
  <2>5. QED
    BY <2>1, <2>2, <2>3, <2>4 DEF RunQuiet
<1>4. todo'[d] \in Seq(Quiet) /\ \A e \in Thread \ {d} : todo'[e] = todo[e]
  BY RunMoves, MovesQueue
<1>5. ~Writing(d)'
  BY <1>4, HeadTailProperties DEF Writing, Busy, Quiet
<1>6. QED
  BY <1>1, <1>2, <1>3, <1>4, <1>5

\* Every step keeps LimitsInv.
LEMMA LimitsStep == TypeInv /\ LimitsInv /\ [Next]_vars => LimitsInv'
<1> SUFFICES ASSUME TypeInv, LimitsInv, [Next]_vars PROVE LimitsInv'
  OBVIOUS
<1>0. /\ holder \in [{"state", "power", "tdp"} -> Thread \cup {None}] /\ None \notin Thread
      /\ DOMAIN limits = {"stapm", "fast", "slow"}
      /\ limits \in [{"stapm", "fast", "slow"} -> Limits]
  BY HardwareAssumption DEF TypeInv, TypeOK
\* A thread that is not at a write takes another step, or none does.
<1>1. ASSUME NEW d \in Thread, UNCHANGED <<limits, last, torn>>, holder'["tdp"] = holder["tdp"],
             ~Writing(d), ~Writing(d)', \A e \in Thread \ {d} : todo'[e] = todo[e]
      PROVE  LimitsInv'
  <2>1. \A e \in Thread : /\ Writing(e)' <=> Writing(e)
                          /\ Writing(e) => Head(todo[e])' = Head(todo[e]) /\ Arg(e)' = Arg(e)
    BY <1>1 DEF Writing, Busy, Arg
  <2>2. QED
    BY <1>0, <1>1, <2>1 DEF LimitsInv, LimitsCoherent
<1>2. ASSUME NEW d \in Thread, RunQuiet(d) PROVE LimitsInv'
  BY <1>1, <1>2, QuietLeavesLimits
<1>3. ASSUME NEW d \in Dispatcher, Begin(d) PROVE LimitsInv'
  <2>1. d \in Thread /\ UNCHANGED <<holder, limits, last, torn>> /\ ~Writing(d)
    BY <1>3 DEF Begin, controllers, Thread, Writing
  <2>2. ~Writing(d)'
    <3>1. todo'[d] \in Seq(Quiet)
      BY <1>3, BeginTypes
    <3>2. QED
      BY <3>1, HeadTailProperties DEF Writing, Busy, Quiet
  <2>3. QED
    BY <1>1, <1>3, <2>1, <2>2, BeginTypes
<1>4. ASSUME Tick \/ ChangeSource \/ UNCHANGED vars PROVE LimitsInv'
  <2>1. UNCHANGED <<todo, holder, limits, last, torn>>
    BY <1>4 DEF Tick, ChangeSource, vars, controllers, history
  <2>2. QED
    BY <2>1 DEF LimitsInv, LimitsCoherent, Writing, Busy, Arg
<1>5. ASSUME NEW d \in Thread, WriteStapm(d) PROVE LimitsInv'
  <2>1. At(d, "stapm") /\ UNCHANGED last /\ ~Writing(d) /\ holder["tdp"] = None
    BY <1>5 DEF WriteStapm, At, Writing, Blocked, Wants
  <2>2. CASE /\ Becomes(d, "fast") /\ Take("tdp", d) /\ UNCHANGED torn
             /\ limits' = [limits EXCEPT !["stapm"] = Arg(d)]
    <3>1. Writing(d)' /\ Head(todo[d])'.op = "fast" /\ Arg(d)' = Arg(d)
      BY <2>1, <2>2, HeadTyped DEF Becomes, Writing, Arg, TypedStep, Step
    <3>2. \A e \in Thread \ {d} : ~Writing(e)'
      BY <1>0, <2>1, <2>2 DEF LimitsInv, Becomes, Writing, Busy
    <3>3. holder'["tdp"] = d /\ limits'["stapm"] = Arg(d)
      BY <1>0, <2>2 DEF Take
    <3>4. QED
      BY <1>0, <3>1, <3>2, <3>3 DEF LimitsInv, LimitsCoherent
  <2>3. CASE Moves(d) /\ UNCHANGED <<holder, limits, torn>>
    <3>1. todo'[d] \in Seq(Quiet) /\ \A e \in Thread \ {d} : todo'[e] = todo[e]
      BY <2>3, MovesQueue
    <3>2. ~Writing(d)'
      BY <3>1, HeadTailProperties DEF Writing, Busy, Quiet
    <3>3. QED
      BY <1>1, <2>1, <2>3, <3>1, <3>2
  <2>4. QED
    BY <1>5, <2>2, <2>3, TdpMoves
<1>6. ASSUME NEW d \in Thread, WriteFast(d) PROVE LimitsInv'
  <2>1. At(d, "fast") /\ UNCHANGED last /\ Writing(d) /\ holder["tdp"] = d /\ limits["stapm"] = Arg(d)
    BY <1>6 DEF WriteFast, At, Writing, LimitsInv
  <2>2. CASE /\ Becomes(d, "slow") /\ UNCHANGED <<holder, torn>>
             /\ limits' = [limits EXCEPT !["fast"] = Arg(d)]
    <3>1. Writing(d)' /\ Head(todo[d])'.op = "slow" /\ Arg(d)' = Arg(d)
      BY <2>1, <2>2, HeadTyped DEF Becomes, Writing, Arg, TypedStep, Step
    <3>2. \A e \in Thread \ {d} : ~Writing(e)'
      BY <1>0, <2>1, <2>2 DEF LimitsInv, Becomes, Writing, Busy
    <3>3. limits'["stapm"] = Arg(d) /\ limits'["fast"] = Arg(d)
      BY <1>0, <2>1, <2>2
    <3>4. QED
      BY <1>0, <2>1, <2>2, <3>1, <3>2, <3>3 DEF LimitsInv, LimitsCoherent
  <2>3. CASE Moves(d) /\ Take("tdp", None) /\ torn' = TRUE
    <3>1. todo'[d] \in Seq(Quiet) /\ \A e \in Thread \ {d} : todo'[e] = todo[e]
      BY <2>3, MovesQueue
    <3>2. ~Writing(d)'
      BY <3>1, HeadTailProperties DEF Writing, Busy, Quiet
    <3>3. \A e \in Thread : ~Writing(e)'
      BY <1>0, <2>1, <3>1, <3>2 DEF LimitsInv, Writing, Busy
    <3>4. holder'["tdp"] = None
      BY <1>0, <2>3 DEF Take
    <3>5. QED
      BY <1>0, <2>3, <3>3, <3>4 DEF LimitsInv, LimitsCoherent
  <2>4. QED
    BY <1>6, <2>2, <2>3, TdpMoves
<1>7. ASSUME NEW d \in Thread, WriteSlow(d) PROVE LimitsInv'
  <2>1. /\ At(d, "slow") /\ Writing(d) /\ holder["tdp"] = d
        /\ limits["stapm"] = Arg(d) /\ limits["fast"] = Arg(d)
    BY <1>7 DEF WriteSlow, At, Writing, LimitsInv
  <2>2. /\ Moves(d) /\ Take("tdp", None)
        /\ \/ limits' = [limits EXCEPT !["slow"] = Arg(d)] /\ last' = Arg(d)
           \/ torn' = TRUE
    BY <1>7, TdpMoves
  <2>3. todo'[d] \in Seq(Quiet) /\ \A e \in Thread \ {d} : todo'[e] = todo[e]
    BY <2>2, MovesQueue
  <2>4. ~Writing(d)'
    BY <2>3, HeadTailProperties DEF Writing, Busy, Quiet
  <2>5. \A e \in Thread : ~Writing(e)'
    BY <1>0, <2>1, <2>3, <2>4 DEF LimitsInv, Writing, Busy
  <2>6. holder'["tdp"] = None
    BY <1>0, <2>2 DEF Take
  <2>7. LimitsCoherent'
    BY <1>0, <2>1, <2>2 DEF LimitsCoherent
  <2>8. QED
    BY <1>0, <2>5, <2>6, <2>7 DEF LimitsInv
<1>8. QED
  BY <1>2, <1>3, <1>4, <1>5, <1>6, <1>7 DEF Next, Run, RunQuiet

\* LimitsInv at the start.
LEMMA InitLimits == Init => LimitsInv
<1> SUFFICES ASSUME Init PROVE LimitsInv
  OBVIOUS
<1>1. \A d \in Thread : ~Writing(d)
  BY DEF Init, Writing, Busy, Startup, Do
<1>2. \A d \in Thread : holder["tdp"] # d
  BY HardwareAssumption DEF Init
<1>3. LimitsCoherent
  BY DEF Init, LimitsCoherent
<1>4. QED
  BY <1>1, <1>2, <1>3 DEF LimitsInv

\* The three limits always come from one request, however many threads write
\* them and wherever they fail (LimitsCoherent).
THEOREM LimitsFromOneRequest == Spec => []LimitsCoherent
<1>1. LimitsInv => LimitsCoherent
  BY DEF LimitsInv
<1>2. QED
  BY <1>1, Typing, InitLimits, LimitsStep, PTL DEF Spec
-----------------------------------------------------------------------------
(* The gate.  A thread may write only if session_persist was on since its  *)
(* command began; until then it is before its gate, or its steps write     *)
(* nothing and lead to none that do unless session_persist is on.          *)

Harmless == {s \in Quiet :
  s.op \in {"release", "persist", "save_charge", "restore", "reset", "read_source", "update",
            "callback", "startup", "serve", "register"}}

Gated(d) == Busy(d) /\ Head(todo[d]).op = "gate"

GateInv ==
  /\ persist => grace = Thread
  /\ \A d \in Thread : d \in grace \/ Gated(d) \/ todo[d] \in Seq(Harmless)

\* The startup, and what an update of the source runs, write nothing without a gate.
LEMMA HarmlessSteps ==
  /\ Startup \in Seq(Harmless) /\ <<>> \in Seq(Harmless)
  /\ \A s \in AnySource : <<Do("update", s)>> \in Seq(Harmless)
  /\ \A s \in AnySource : <<Do("callback", s), Do("release", "power")>> \in Seq(Harmless)
<1>1. Startup \in Seq(Harmless)
  BY StepTyped DEF Startup, Harmless, Do
<1>2. \A s \in AnySource : <<Do("update", s)>> \in Seq(Harmless)
  <2>1. \A s \in AnySource : Do("update", s) \in Harmless
    BY StepTyped DEF Harmless, Do
  <2>2. QED
    BY <2>1
<1>3. \A s \in AnySource : <<Do("callback", s), Do("release", "power")>> \in Seq(Harmless)
  <2> SUFFICES ASSUME NEW s \in AnySource
               PROVE  <<Do("callback", s), Do("release", "power")>> \in Seq(Harmless)
    OBVIOUS
  <2>1. Do("callback", s) \in Harmless /\ Do("release", "power") \in Harmless
    BY StepTyped DEF Harmless, Do
  <2>2. QED
    BY <2>1
<1>4. QED
  BY <1>1, <1>2, <1>3, EmptySeq

\* A command starts with its gate, or writes nothing but for restore_defaults.
LEMMA CommandsGated ==
  ASSUME NEW program \in Command
  PROVE  program \in Seq(Harmless) \/ (program # <<>> /\ Head(program).op = "gate")
<1>1. RestoreDefaults \in Seq(Harmless)
  <2>1. Do("restore", None) \in Harmless /\ Do("reset", "auto") \in Harmless
    BY StepTyped DEF Harmless, Do
  <2>2. QED
    BY <2>1 DEF RestoreDefaults
<1>2. /\ <<Do("persist", "on")>> \in Seq(Harmless) /\ <<Do("persist", "off")>> \in Seq(Harmless)
      /\ \A n \in Charge \cup {None} : <<Do("save_charge", n)>> \in Seq(Harmless)
  <2>1. /\ Do("persist", "on") \in Harmless /\ Do("persist", "off") \in Harmless
        /\ \A n \in Charge \cup {None} : Do("save_charge", n) \in Harmless
    BY StepTyped DEF Harmless, Do
  <2>2. QED
    BY <2>1
<1>3. SetFanAuto # <<>> /\ Head(SetFanAuto).op = "gate"
  BY DEF SetFanAuto, Gate, Do
<1>4. \A n : SetChargeLimit(n) # <<>> /\ Head(SetChargeLimit(n)).op = "gate"
  BY DEF SetChargeLimit, Gate, Do
<1>5. \A p : SetProfile(p) # <<>> /\ Head(SetProfile(p)).op = "gate"
  BY DEF SetProfile, Gate, Do
<1>6. SetTdp(Manual) # <<>> /\ Head(SetTdp(Manual)).op = "gate"
  BY DEF SetTdp, WriteTdp, Gate, Do
<1>7. \A c : SetFanCurve(c) # <<>> /\ Head(SetFanCurve(c)).op = "gate"
  BY DEF SetFanCurve, Gate, Do, Must
<1>8. QED
  BY <1>1, <1>2, <1>3, <1>4, <1>5, <1>6, <1>7 DEF Command

\* A harmless program goes on harmlessly.
LEMMA GoHarmless ==
  ASSUME NEW d \in Thread, TypeInv, todo[d] \in Seq(Harmless), Busy(d),
         End(d) \/ \E more \in Seq(Harmless) : Go(d, more)
  PROVE  todo'[d] \in Seq(Harmless)
<1>1. CASE End(d)
  BY <1>1, EndTyped, EmptySeq DEF TypeInv
<1>2. CASE \E more \in Seq(Harmless) : Go(d, more)
  <2>1. Tail(todo[d]) \in Seq(Harmless)
    BY HeadTailProperties DEF Busy
  <2>2. QED
    BY <1>2, <2>1, ConcatProperties DEF Go, TypeInv
<1>3. QED
  BY <1>1, <1>2

\* A step is its thread's only.
LEMMA OthersStay ==
  ASSUME TypeInv, NEW d \in Thread, Run(d)
  PROVE  \A e \in Thread \ {d} : todo'[e] = todo[e]
BY QuietLeavesLimits, TdpMoves, MovesQueue DEF Run, RunQuiet, Becomes

\* The flag changes only where it is set or reset, and a reset that clears it keeps the grace.
LEMMA GraceKept ==
  ASSUME TypeInv, NEW d \in Thread, Run(d)
  PROVE  UNCHANGED <<persist, grace>> \/ SetPersist(d) \/ (ResetConfig(d) /\ ~persist' /\ UNCHANGED grace)
<1> USE DEF config, environment, history, Fault
<1>1. ASSUME \/ CheckPersist(d) \/ FindProfile(d) \/ FindCurve(d) \/ ProfileFan(d)
             \/ Release(d) \/ SaveCharge(d) \/ Done(d)
             \/ SetMode(d) \/ SetCurve(d) \/ SetCeiling(d) \/ SetActive(d)
      PROVE  UNCHANGED <<persist, grace>>
  BY <1>1 DEF CheckPersist, FindProfile, FindCurve, ProfileFan, Release, SaveCharge,
     Done, SetMode, SetCurve, SetCeiling, SetActive
<1>2. ASSUME \/ WriteCharge(d) \/ KnowCharge(d) \/ ApplyCharge(d)
             \/ ReadSource(d) \/ UpdatePower(d) \/ Callback(d) \/ ApplyDefault(d)
             \/ ReadCurrent(d) \/ ApplyCurve(d) \/ ApplyAtStartup(d) \/ Serve(d)
      PROVE  UNCHANGED <<persist, grace>>
  BY <1>2 DEF WriteCharge, KnowCharge, ApplyCharge, ReadSource, UpdatePower, Callback, ApplyDefault,
     ReadCurrent, ApplyCurve, ApplyAtStartup, Serve
<1>3. ASSUME WriteStapm(d) \/ WriteFast(d) \/ WriteSlow(d) PROVE UNCHANGED <<persist, grace>>
  BY <1>3 DEF WriteStapm, WriteFast, WriteSlow
<1>4. ASSUME ResetConfig(d) PROVE ~persist' /\ UNCHANGED grace
  BY <1>4 DEF ResetConfig
<1>5. QED
  BY <1>1, <1>2, <1>3, <1>4 DEF Run

\* What a harmless step leads to is harmless, or session_persist is on.
LEMMA HarmlessKept ==
  ASSUME TypeInv, GateInv, NEW d \in Thread, Run(d), todo[d] \in Seq(Harmless)
  PROVE  d \in grace' \/ todo'[d] \in Seq(Harmless)
<1>0. <<>> \in Seq(Harmless)
  BY HarmlessSteps
<1>1. \A op : At(d, op) =>
        /\ Busy(d)
        /\ op \in {"release", "persist", "save_charge", "restore", "reset", "read_source", "update",
                   "callback", "startup", "serve", "register"}
  BY HeadTailProperties DEF At, Busy, Harmless
<1>2. ASSUME Release(d) \/ SaveCharge(d) \/ ResetConfig(d) \/ Serve(d) PROVE todo'[d] \in Seq(Harmless)
  BY <1>0, <1>1, <1>2, GoHarmless DEF Release, SaveCharge, ResetConfig, Serve
<1>3. ASSUME SetPersist(d) PROVE d \in grace' \/ todo'[d] \in Seq(Harmless)
  <2>1. CASE persist'
    BY <1>3, <2>1 DEF SetPersist
  <2>2. CASE ~persist'
    BY <1>0, <1>1, <1>3, <2>2, GoHarmless DEF SetPersist
  <2>3. QED
    BY <2>1, <2>2
<1>4. ASSUME SetMode(d) PROVE todo'[d] \in Seq(Harmless)
  <2>1. Busy(d) /\ (Go(d, <<>>) \/ End(d))
    BY <1>1, <1>4 DEF SetMode, Fault
  <2>2. QED
    BY <1>0, <2>1, GoHarmless
<1>5. ASSUME ReadSource(d) PROVE todo'[d] \in Seq(Harmless)
  <2>1. Busy(d) /\ \E s \in AnySource : Go(d, <<Do("update", s)>>)
    BY <1>1, <1>5 DEF ReadSource, TypeInv, TypeOK, AnySource
  <2>2. QED
    BY <2>1, HarmlessSteps, GoHarmless
<1>6. ASSUME UpdatePower(d) PROVE todo'[d] \in Seq(Harmless)
  <2>1. Arg(d) \in AnySource
    BY <1>6, HeadTyped DEF UpdatePower, TypedStep, Arg
  <2>2. Busy(d) /\ (Go(d, <<>>) \/ Go(d, <<Do("callback", Arg(d)), Do("release", "power")>>))
    BY <1>1, <1>6 DEF UpdatePower
  <2>3. QED
    BY <1>0, <2>1, <2>2, HarmlessSteps, GoHarmless
<1>7. ASSUME Callback(d) \/ ApplyAtStartup(d) PROVE d \in grace' \/ todo'[d] \in Seq(Harmless)
  <2>1. grace' = grace
    BY <1>7 DEF Callback, ApplyAtStartup, history
  <2>2. CASE persist
    BY <2>1, <2>2 DEF GateInv
  <2>3. CASE ~persist
    <3>1. Busy(d) /\ Go(d, <<>>)
      BY <1>1, <1>7, <2>3 DEF Callback, ApplyAtStartup
    <3>2. QED
      BY <1>0, <3>1, GoHarmless
  <2>4. QED
    BY <2>2, <2>3
<1>8. /\ ~At(d, "gate") /\ ~At(d, "find") /\ ~At(d, "find_curve") /\ ~At(d, "profile_fan")
      /\ ~At(d, "done") /\ ~At(d, "curve") /\ ~At(d, "stapm") /\ ~At(d, "fast") /\ ~At(d, "slow")
  BY <1>1
<1>9. /\ ~At(d, "ceiling") /\ ~At(d, "activate") /\ ~At(d, "deactivate") /\ ~At(d, "charge")
      /\ ~At(d, "known") /\ ~At(d, "apply_charge") /\ ~At(d, "apply_curve")
      /\ ~At(d, "ceiling_of_current") /\ ~At(d, "select")
      /\ \A op \in {"auto_apply", "select_for", "startup_select"} : ~At(d, op)
  BY <1>1
<1>10. /\ ~CheckPersist(d) /\ ~FindProfile(d) /\ ~FindCurve(d) /\ ~ProfileFan(d) /\ ~Done(d)
      /\ ~SetCurve(d) /\ ~WriteStapm(d) /\ ~WriteFast(d) /\ ~WriteSlow(d)
  BY <1>8 DEF CheckPersist, FindProfile, FindCurve, ProfileFan, Done, SetCurve, WriteStapm, WriteFast,
     WriteSlow
<1>11. /\ ~SetCeiling(d) /\ ~SetActive(d) /\ ~WriteCharge(d) /\ ~KnowCharge(d) /\ ~ApplyCharge(d)
      /\ ~ApplyDefault(d) /\ ~ReadCurrent(d) /\ ~ApplyCurve(d)
  BY <1>9 DEF SetCeiling, SetActive, WriteCharge, KnowCharge, ApplyCharge, ApplyDefault, ReadCurrent,
     ApplyCurve
<1>12. QED
  BY <1>2, <1>3, <1>4, <1>5, <1>6, <1>7, <1>10, <1>11 DEF Run

\* At its gate a thread can do nothing but pass it or end.
LEMMA GateFirst ==
  ASSUME TypeInv, GateInv, NEW d \in Thread, Run(d), Gated(d)
  PROVE  CheckPersist(d)
<1>1. \A op : At(d, op) => op = "gate"
  BY DEF At, Gated
<1>2. /\ ~FindProfile(d) /\ ~FindCurve(d) /\ ~ProfileFan(d) /\ ~Done(d) /\ ~Release(d) /\ ~SetPersist(d)
      /\ ~SaveCharge(d) /\ ~ResetConfig(d) /\ ~SetMode(d)
      /\ ~SetCurve(d) /\ ~WriteStapm(d) /\ ~WriteFast(d) /\ ~WriteSlow(d)
  BY <1>1 DEF FindProfile, FindCurve, ProfileFan, Done, Release, SetPersist, SaveCharge, ResetConfig, SetMode,
     SetCurve, WriteStapm, WriteFast, WriteSlow
<1>3. /\ ~SetCeiling(d) /\ ~SetActive(d) /\ ~WriteCharge(d) /\ ~KnowCharge(d) /\ ~ApplyCharge(d)
      /\ ~ReadSource(d) /\ ~UpdatePower(d) /\ ~Callback(d) /\ ~ApplyAtStartup(d) /\ ~Serve(d)
      /\ ~ApplyDefault(d) /\ ~ReadCurrent(d) /\ ~ApplyCurve(d)
  BY <1>1 DEF SetCeiling, SetActive, WriteCharge, KnowCharge, ApplyCharge, ReadSource, UpdatePower, Callback,
     ApplyAtStartup, Serve, ApplyDefault, ReadCurrent, ApplyCurve
<1>4. QED
  BY <1>2, <1>3 DEF Run

\* Every step keeps GateInv.
LEMMA GateStep == TypeInv /\ GateInv /\ [Next]_vars => GateInv'
<1> SUFFICES ASSUME TypeInv, GateInv, [Next]_vars PROVE GateInv'
  OBVIOUS
<1>1. ASSUME NEW d \in Thread, Run(d) PROVE GateInv'
  <2>1. grace \subseteq grace' /\ (persist' => grace' = Thread)
    BY <1>1, GraceKept DEF GateInv, SetPersist, TypeInv, TypeOK
  <2>2. \A e \in Thread \ {d} : e \in grace' \/ Gated(e)' \/ todo'[e] \in Seq(Harmless)
    BY <1>1, <2>1, OthersStay DEF GateInv, Gated, Busy
  <2>3. CASE Gated(d)
    <3>1. CheckPersist(d) /\ Busy(d)
      BY <1>1, <2>3, GateFirst DEF Gated
    <3>2. d \in grace' \/ todo'[d] \in Seq(Harmless)
      BY <3>1, EndTyped, HarmlessSteps DEF CheckPersist, GateInv, TypeInv, history
    <3>3. QED
      BY <2>1, <2>2, <3>2 DEF GateInv
  <2>4. CASE todo[d] \in Seq(Harmless)
    BY <1>1, <2>1, <2>2, <2>4, HarmlessKept DEF GateInv
  <2>5. CASE d \in grace
    BY <2>1, <2>2, <2>5 DEF GateInv
  <2>6. QED
    BY <2>3, <2>4, <2>5 DEF GateInv
<1>2. ASSUME NEW d \in Dispatcher, Begin(d) PROVE GateInv'
  <2>1. PICK program \in Command : todo' = [todo EXCEPT ![d] = program]
    BY <1>2 DEF Begin
  <2>2. d \in Thread /\ todo'[d] = program /\ \A e \in Thread \ {d} : todo'[e] = todo[e]
    BY <2>1 DEF TypeInv, Thread
  <2>3. Gated(d)' \/ todo'[d] \in Seq(Harmless)
    BY <2>2, CommandsGated DEF Gated, Busy
  <2>4. /\ grace' = IF persist THEN grace \cup {d} ELSE grace \ {d}
        /\ persist' = persist
    BY <1>2 DEF Begin, config
  <2>5. persist' => grace' = Thread
    BY <2>2, <2>4 DEF GateInv
  <2>6. \A e \in Thread \ {d} : e \in grace' \/ Gated(e)' \/ todo'[e] \in Seq(Harmless)
    BY <2>2, <2>4 DEF GateInv, Gated, Busy
  <2>7. QED
    BY <2>3, <2>5, <2>6 DEF GateInv
<1>3. ASSUME Tick \/ ChangeSource \/ UNCHANGED vars PROVE GateInv'
  <2>1. UNCHANGED <<todo, persist, grace>>
    BY <1>3 DEF Tick, ChangeSource, vars, config, history
  <2>2. QED
    BY <2>1 DEF GateInv, Gated, Busy
<1>4. QED
  BY <1>1, <1>2, <1>3 DEF Next

\* GateInv at the start.
LEMMA InitGate == Init => GateInv
BY HarmlessSteps DEF Init, GateInv

\* No command writes the hardware unless session_persist was on since it began,
\* whatever the other threads do (GateHolds).
THEOREM NoWriteWithoutGate == Spec => GateHolds
<1>1. TypeInv /\ GateInv /\ [Next]_vars =>
        [\A d \in Thread : todo'[d] # todo[d] /\ registers' # registers =>
           d \in grace \/ At(d, "reset")]_vars
  <2> SUFFICES ASSUME TypeInv, GateInv, Next, registers' # registers,
                      NEW d \in Thread, todo'[d] # todo[d]
               PROVE  d \in grace \/ At(d, "reset")
    OBVIOUS
  <2>1. ~Tick /\ ~ChangeSource /\ \A e \in Dispatcher : ~Begin(e)
    BY DEF Tick, ChangeSource, Begin, registers, config, controllers
  <2>2. Run(d)
    BY <2>1, OthersStay DEF Next
  <2>3. SetMode(d) \/ WriteStapm(d) \/ WriteFast(d) \/ WriteSlow(d) \/ WriteCharge(d)
    <3>1. ASSUME \/ CheckPersist(d) \/ FindProfile(d) \/ FindCurve(d) \/ ProfileFan(d)
                 \/ Release(d) \/ SetPersist(d) \/ SaveCharge(d) \/ ResetConfig(d) \/ Done(d)
                 \/ SetCurve(d) \/ SetCeiling(d) \/ SetActive(d)
          PROVE  FALSE
      BY <3>1 DEF CheckPersist, FindProfile, FindCurve, ProfileFan, Release, SetPersist, SaveCharge,
         ResetConfig, Done, SetCurve, SetCeiling, SetActive, registers, config, controllers, TypeInv, TypeOK
    <3>2. ASSUME \/ KnowCharge(d) \/ ApplyCharge(d)
                 \/ ReadSource(d) \/ UpdatePower(d) \/ Callback(d) \/ ApplyDefault(d)
                 \/ ReadCurrent(d) \/ ApplyCurve(d) \/ ApplyAtStartup(d) \/ Serve(d)
          PROVE  FALSE
      BY <3>2 DEF KnowCharge, ApplyCharge, ReadSource, UpdatePower, Callback, ApplyDefault, ReadCurrent,
         ApplyCurve, ApplyAtStartup, Serve, registers, config, controllers, TypeInv, TypeOK
    <3>3. QED
      BY <2>2, <3>1, <3>2 DEF Run
  <2>4. PICK op \in {"mode", "reset", "stapm", "fast", "slow", "charge"} : At(d, op)
    BY <2>3 DEF SetMode, WriteStapm, WriteFast, WriteSlow, WriteCharge
  <2>5. CASE op = "reset"
    BY <2>4, <2>5
  <2>6. CASE op # "reset"
    <3>1. ~Gated(d) /\ todo[d] \notin Seq(Harmless)
      BY <2>4, <2>6, HeadTailProperties DEF At, Busy, Gated, Harmless
    <3>2. QED
      BY <3>1 DEF GateInv
  <2>7. QED
    BY <2>5, <2>6
<1>2. QED
  BY <1>1, Typing, InitGate, GateStep, PTL DEF Spec, GateHolds
-----------------------------------------------------------------------------
(* The locks.  A thread that holds state_mutex_ has nothing before its     *)
(* release that waits; one that holds the power controller's mutex waits,  *)
(* before its release, for the other two only, and ends with no error.     *)

StateSteps == {s \in TypedStep : s.op \in {"mode", "curve"} /\ s.must = FALSE}
PowerSteps == {s \in TypedStep :
  /\ s.op \in {"callback", "ceiling", "auto_apply", "activate", "deactivate", "stapm", "fast", "slow",
               "mode", "curve", "apply_curve"}
  /\ s.must = FALSE}

\* The lock is released after some of these steps.
Section(s, lock, Steps) ==
  \E n \in 1..Len(s) :
    /\ s[n].op = "release" /\ s[n].arg = lock
    /\ \A i \in 1..(n - 1) : s[i] \in Steps

LockInv ==
  \A d \in Thread :
    /\ holder["state"] = d => Section(todo[d], "state", StateSteps)
    /\ holder["power"] = d => Section(todo[d], "power", PowerSteps)

\* A critical section begins with one of its steps or with the release of its lock.
LEMMA SectionHead ==
  ASSUME NEW s \in Seq(TypedStep), NEW lock, NEW Steps, Section(s, lock, Steps)
  PROVE  s # <<>> /\ (Head(s) \in Steps \/ (Head(s).op = "release" /\ Head(s).arg = lock))
<1>1. PICK n \in 1..Len(s) :
        /\ s[n].op = "release" /\ s[n].arg = lock
        /\ \A i \in 1..(n - 1) : s[i] \in Steps
  BY DEF Section
<1>2. s # <<>> /\ Head(s) = s[1]
  BY <1>1, LenProperties
<1>3. n = 1 \/ 1 \in 1..(n - 1)
  BY <1>1
<1>4. QED
  BY <1>1, <1>2, <1>3

\* A step that puts others of the section in front stays in the section.
LEMMA SectionGo ==
  ASSUME NEW s \in Seq(TypedStep), NEW lock, NEW Steps \in SUBSET TypedStep, Section(s, lock, Steps),
         Head(s).op # "release", NEW more \in Seq(Steps)
  PROVE  Section(more \o Tail(s), lock, Steps)
<1>1. PICK n \in 1..Len(s) :
        /\ s[n].op = "release" /\ s[n].arg = lock
        /\ \A i \in 1..(n - 1) : s[i] \in Steps
  BY DEF Section
<1>2. s # <<>> /\ Head(s) = s[1] /\ n # 1 /\ Len(s) \in Nat
  BY <1>1, LenProperties
<1>3. /\ Tail(s) \in Seq(TypedStep) /\ Len(Tail(s)) = Len(s) - 1
      /\ \A i \in 1..Len(Tail(s)) : Tail(s)[i] = s[i + 1]
  BY <1>2, HeadTailProperties
<1>4. more \in Seq(TypedStep) /\ Len(more) \in Nat
  BY SeqMonotonic, LenProperties
<1> DEFINE new == more \o Tail(s)
<1>5. /\ Len(new) = Len(more) + Len(s) - 1
      /\ \A i \in 1..(Len(more) + Len(s) - 1) :
           new[i] = IF i <= Len(more) THEN more[i] ELSE Tail(s)[i - Len(more)]
  BY <1>2, <1>3, <1>4, ConcatProperties
<1> DEFINE m == Len(more) + n - 1
<1> HIDE DEF new
<1>6. m \in 1..Len(new) /\ new[m] = s[n]
  <2>1. n - 1 \in 1..Len(Tail(s)) /\ Tail(s)[n - 1] = s[n]
    BY <1>1, <1>2, <1>3
  <2>2. m \in 1..(Len(more) + Len(s) - 1) /\ ~(m <= Len(more)) /\ m - Len(more) = n - 1
    BY <1>1, <1>2, <1>4
  <2>3. QED
    BY <1>5, <2>1, <2>2
<1>7. ASSUME NEW i \in 1..(m - 1) PROVE new[i] \in Steps
  <2>1. i \in 1..(Len(more) + Len(s) - 1)
    BY <1>1, <1>2, <1>4
  <2>2. CASE i <= Len(more)
    BY <1>4, <1>5, <2>1, <2>2, ElementOfSeq
  <2>3. CASE ~(i <= Len(more))
    <3>1. i - Len(more) \in 1..Len(Tail(s)) /\ i - Len(more) + 1 \in 1..(n - 1)
      BY <1>1, <1>2, <1>3, <1>4, <2>3
    <3>2. new[i] = s[i - Len(more) + 1]
      BY <1>3, <1>5, <2>1, <2>3, <3>1
    <3>3. QED
      BY <1>1, <3>1, <3>2
  <2>4. QED
    BY <2>2, <2>3
<1>8. QED
  BY <1>1, <1>6, <1>7 DEF Section, new

\* Steps of a section, followed by the release, make one.
LEMMA SectionNew ==
  ASSUME NEW lock \in {"state", "power"}, NEW Steps \in SUBSET TypedStep, NEW pre \in Seq(Steps),
         NEW rest \in Seq(TypedStep)
  PROVE  Section((pre \o <<Do("release", lock)>>) \o rest, lock, Steps)
<1>1. <<Do("release", lock)>> \in Seq(TypedStep)
  BY StepTyped DEF Quiet
<1>2. pre \in Seq(TypedStep) /\ Len(pre) \in Nat /\ Len(rest) \in Nat
  BY SeqMonotonic, LenProperties
<1> DEFINE open == pre \o <<Do("release", lock)>>
           all == open \o rest
<1>3. /\ open \in Seq(TypedStep) /\ Len(open) = Len(pre) + 1
      /\ \A i \in 1..(Len(pre) + 1) :
           open[i] = IF i <= Len(pre) THEN pre[i] ELSE <<Do("release", lock)>>[i - Len(pre)]
  BY <1>1, <1>2, ConcatProperties
<1> HIDE DEF open
<1>4. /\ Len(all) = Len(pre) + 1 + Len(rest)
      /\ \A i \in 1..(Len(pre) + 1) : all[i] = open[i]
  <2>0. open \in Seq(TypedStep)
    BY <1>3
  <2>1. /\ Len(open \o rest) = Len(open) + Len(rest)
        /\ \A i \in 1..(Len(open) + Len(rest)) :
             (open \o rest)[i] = IF i <= Len(open) THEN open[i] ELSE rest[i - Len(open)]
    BY ONLY <2>0, rest \in Seq(TypedStep), ConcatProperties
  <2>2. QED
    BY <1>2, <1>3, <2>1
<1> HIDE DEF all
<1>5. all[Len(pre) + 1].op = "release" /\ all[Len(pre) + 1].arg = lock
  BY <1>2, <1>3, <1>4 DEF Do
<1>6. \A i \in 1..Len(pre) : all[i] \in Steps
  <2>1. \A i \in 1..Len(pre) : pre[i] \in Steps
    BY ElementOfSeq
  <2>2. QED
    BY <1>2, <1>3, <1>4, <2>1
<1>7. Len(pre) + 1 \in 1..Len(all) /\ (Len(pre) + 1) - 1 = Len(pre)
  BY <1>2, <1>4
<1>8. QED
  BY <1>5, <1>6, <1>7 DEF Section, all, open

\* What may run under the power mutex.
LEMMA PowerPrograms ==
  /\ \A m \in {"auto", "curve"} : Do("mode", m) \in PowerSteps
  /\ \A c \in CurveId \cup {None} : Do("curve", c) \in PowerSteps
  /\ Do("deactivate", None) \in PowerSteps
  /\ \A s \in AnySource :
       <<Do("ceiling", s), Do("auto_apply", s)>> \in Seq(PowerSteps) /\ Do("callback", s) \in PowerSteps
  /\ \A p \in ProfileId : Applied(p) \in Seq(PowerSteps)
<1>1. /\ \A m \in {"auto", "curve"} : Do("mode", m) \in PowerSteps
      /\ \A c \in CurveId \cup {None} : Do("curve", c) \in PowerSteps
  BY StepTyped DEF PowerSteps, Quiet, Do
<1>2. /\ \A s \in AnySource :
           /\ Do("ceiling", s) \in PowerSteps /\ Do("auto_apply", s) \in PowerSteps
           /\ Do("callback", s) \in PowerSteps
      /\ Do("deactivate", None) \in PowerSteps
  BY StepTyped DEF PowerSteps, Quiet, Do
<1>3. ASSUME NEW p \in ProfileId PROVE Applied(p) \in Seq(PowerSteps)
  <2>1. CASE p \in Adaptive
    <3>1. Do("activate", p) \in PowerSteps
      BY StepTyped DEF PowerSteps, Quiet, Do
    <3>2. QED
      BY <2>1, <3>1 DEF Applied
  <2>2. CASE p \notin Adaptive
    <3>1. p \in Limits /\ FixedCurve[p] \in CurveId \cup {None}
      BY <2>2, HardwareAssumption DEF Limits, Fixed
    <3>2. [op |-> "stapm", arg |-> p, must |-> FALSE] \in PowerSteps
      BY <3>1 DEF PowerSteps, TypedStep, Step, Op
    <3>3. WriteTdp(p, FALSE) \in Seq(PowerSteps)
      BY <3>2 DEF WriteTdp
    <3> DEFINE fan_steps == IF FixedCurve[p] = None THEN <<Do("mode", "auto")>>
                            ELSE <<Do("apply_curve", FixedCurve[p])>>
    <3>4. FixedCurve[p] # None => Do("apply_curve", FixedCurve[p]) \in PowerSteps
      BY <3>1, StepTyped DEF PowerSteps, Quiet, Do
    <3>5. fan_steps \in Seq(PowerSteps)
      BY <1>1, <3>4
    <3>6. Applied(p) = WriteTdp(p, FALSE) \o fan_steps
      BY <2>2 DEF Applied
    <3> HIDE DEF fan_steps
    <3>7. QED
      BY <3>3, <3>5, <3>6, ConcatProperties
  <2>3. QED
    BY <2>1, <2>2
<1>4. QED
  BY <1>1, <1>2, <1>3

\* A step before the release puts only steps of the section in front.
LEMMA StateSection ==
  ASSUME TypeInv, NEW d \in Thread, Run(d), Section(todo[d], "state", StateSteps), ~Release(d)
  PROVE  Section(todo'[d], "state", StateSteps)
<1>1. todo[d] \in Seq(TypedStep) /\ StateSteps \in SUBSET TypedStep
  BY DEF TypeInv, Queue, StateSteps
<1>2. Head(todo[d]) \in StateSteps \/ Head(todo[d]).op = "release"
  BY <1>1, SectionHead
<1>3. \A op : At(d, op) => op \in {"mode", "curve", "release"}
  BY <1>2 DEF At, StateSteps
<1>4. SetMode(d) \/ SetCurve(d)
  <2>1. /\ ~CheckPersist(d) /\ ~FindProfile(d) /\ ~FindCurve(d) /\ ~ProfileFan(d) /\ ~Done(d)
        /\ ~SetPersist(d) /\ ~SaveCharge(d) /\ ~ResetConfig(d)
        /\ ~WriteStapm(d) /\ ~WriteFast(d) /\ ~WriteSlow(d)
    BY <1>3 DEF CheckPersist, FindProfile, FindCurve, ProfileFan, Done, SetPersist,
       SaveCharge, ResetConfig, WriteStapm, WriteFast, WriteSlow
  <2>2. /\ ~SetCeiling(d) /\ ~SetActive(d) /\ ~WriteCharge(d) /\ ~KnowCharge(d) /\ ~ApplyCharge(d)
        /\ ~ReadSource(d) /\ ~UpdatePower(d) /\ ~Callback(d) /\ ~ApplyAtStartup(d) /\ ~Serve(d)
        /\ ~ApplyDefault(d) /\ ~ReadCurrent(d) /\ ~ApplyCurve(d)
    BY <1>3 DEF SetCeiling, SetActive, WriteCharge, KnowCharge, ApplyCharge, ReadSource, UpdatePower,
       Callback, ApplyAtStartup, Serve, ApplyDefault, ReadCurrent, ApplyCurve
  <2>3. QED
    BY <2>1, <2>2 DEF Run
<1>5. Head(todo[d]).op # "release" /\ Head(todo[d]).must = FALSE
  BY <1>2, <1>4 DEF SetMode, SetCurve, At, StateSteps
<1>6. Go(d, <<>>)
  BY <1>4, <1>5 DEF SetMode, SetCurve, Fault
<1>7. todo'[d] = <<>> \o Tail(todo[d])
  BY <1>6 DEF Go, TypeInv
<1>8. QED
  BY <1>1, <1>5, <1>7, SectionGo, EmptySeq

\* A step under the power mutex, its release apart, stays under it.
LEMMA PowerSection ==
  ASSUME TypeInv, NEW d \in Thread, Run(d), Section(todo[d], "power", PowerSteps), ~Release(d)
  PROVE  Section(todo'[d], "power", PowerSteps)
<1>1. todo[d] \in Seq(TypedStep) /\ PowerSteps \in SUBSET TypedStep
  BY DEF TypeInv, Queue, PowerSteps
<1>2. Head(todo[d]) \in PowerSteps \/ Head(todo[d]).op = "release"
  BY <1>1, SectionHead
<1>3. \A op : At(d, op) =>
        op \in {"callback", "ceiling", "auto_apply", "activate", "deactivate", "stapm", "fast", "slow",
                "mode", "curve", "apply_curve", "release"}
  BY <1>2 DEF At, PowerSteps
<1>4. \/ Callback(d) \/ SetCeiling(d) \/ ApplyDefault(d) \/ SetActive(d) \/ WriteStapm(d) \/ WriteFast(d)
      \/ WriteSlow(d) \/ SetMode(d) \/ SetCurve(d) \/ ApplyCurve(d)
  <2>1. /\ ~At(d, "gate") /\ ~At(d, "find") /\ ~At(d, "find_curve") /\ ~At(d, "profile_fan")
        /\ ~At(d, "done") /\ ~At(d, "persist") /\ ~At(d, "save_charge") /\ ~At(d, "restore")
        /\ ~At(d, "charge") /\ ~At(d, "known") /\ ~At(d, "apply_charge") /\ ~At(d, "read_source")
        /\ ~At(d, "update") /\ ~At(d, "ceiling_of_current") /\ ~At(d, "select") /\ ~At(d, "startup")
        /\ ~At(d, "serve") /\ ~At(d, "register")
    BY <1>3
  <2>2. /\ ~CheckPersist(d) /\ ~FindProfile(d) /\ ~FindCurve(d) /\ ~ProfileFan(d) /\ ~Done(d)
        /\ ~SetPersist(d) /\ ~SaveCharge(d) /\ ~ResetConfig(d)
    BY <2>1 DEF CheckPersist, FindProfile, FindCurve, ProfileFan, Done, SetPersist, SaveCharge, ResetConfig
  <2>3. /\ ~WriteCharge(d) /\ ~KnowCharge(d) /\ ~ApplyCharge(d)
        /\ ~ReadSource(d) /\ ~UpdatePower(d) /\ ~ApplyAtStartup(d) /\ ~Serve(d) /\ ~ReadCurrent(d)
    BY <2>1 DEF WriteCharge, KnowCharge, ApplyCharge, ReadSource, UpdatePower, ApplyAtStartup, Serve, ReadCurrent
  <2>4. QED
    BY <2>2, <2>3 DEF Run
<1>5. Head(todo[d]) \in PowerSteps /\ Head(todo[d]).op # "release" /\ Head(todo[d]).must = FALSE
  <2>1. Head(todo[d]).op # "release"
    BY <1>4 DEF Callback, SetCeiling, ApplyDefault, SetActive, WriteStapm, WriteFast, WriteSlow, SetMode,
       SetCurve, ApplyCurve, At
  <2>2. QED
    BY <1>2, <2>1 DEF PowerSteps
<1>6. \E more \in Seq(PowerSteps) : Go(d, more)
  <2>0. <<>> \in Seq(PowerSteps) /\ (Fault(d) => Go(d, <<>>))
    BY <1>5, EmptySeq DEF Fault
  <2>1. ASSUME SetCeiling(d) \/ SetActive(d) \/ SetMode(d) \/ SetCurve(d) \/ WriteSlow(d)
        PROVE  Go(d, <<>>)
    BY <2>0, <2>1 DEF SetCeiling, SetActive, SetMode, SetCurve, WriteSlow
  <2>2. ASSUME Callback(d) PROVE \E more \in Seq(PowerSteps) : Go(d, more)
    <3>1. Arg(d) \in AnySource
      BY <2>2, HeadTyped DEF Callback, TypedStep, Arg
    <3>2. Go(d, <<>>) \/ Go(d, <<Do("ceiling", Arg(d)), Do("auto_apply", Arg(d))>>)
      BY <2>2 DEF Callback
    <3>3. QED
      BY <2>0, <3>1, <3>2, PowerPrograms
  <2>3. ASSUME ApplyCurve(d) PROVE \E more \in Seq(PowerSteps) : Go(d, more)
    <3>1. Arg(d) \in CurveId
      BY <2>3, HeadTyped DEF ApplyCurve, TypedStep, Arg
    <3>2. Do("mode", "curve") \in PowerSteps /\ Do("curve", Arg(d)) \in PowerSteps
      BY <3>1, PowerPrograms
    <3>3. <<Do("mode", "curve"), Do("curve", Arg(d))>> \in Seq(PowerSteps)
      BY <3>2
    <3>4. QED
      BY <2>0, <2>3, <3>3 DEF ApplyCurve
  <2>4. ASSUME WriteStapm(d) \/ WriteFast(d) PROVE \E more \in Seq(PowerSteps) : Go(d, more)
    <3>1. \A op \in {"fast", "slow"} : Head(todo[d]).op \in {"stapm", "fast"} =>
            [Head(todo[d]) EXCEPT !.op = op] \in PowerSteps
      BY <1>5 DEF PowerSteps, TypedStep, Step, Op
    <3>2. CASE WriteStapm(d)
      <4>1. Go(d, <<>>) \/ Go(d, <<[Head(todo[d]) EXCEPT !.op = "fast"]>>)
        BY <2>0, <3>2 DEF WriteStapm
      <4>2. <<[Head(todo[d]) EXCEPT !.op = "fast"]>> \in Seq(PowerSteps)
        BY <3>1, <3>2 DEF WriteStapm, At
      <4>3. QED
        BY <2>0, <4>1, <4>2
    <3>3. CASE WriteFast(d)
      <4>1. Go(d, <<>>) \/ Go(d, <<[Head(todo[d]) EXCEPT !.op = "slow"]>>)
        BY <2>0, <3>3 DEF WriteFast
      <4>2. <<[Head(todo[d]) EXCEPT !.op = "slow"]>> \in Seq(PowerSteps)
        BY <3>1, <3>3 DEF WriteFast, At
      <4>3. QED
        BY <2>0, <4>1, <4>2
    <3>4. QED
      BY <2>4, <3>2, <3>3
  <2>5. ASSUME ApplyDefault(d) PROVE \E more \in Seq(PowerSteps) : Go(d, more)
    <3> DEFINE p == DefaultOf(Arg(d))
               stop == <<Do("deactivate", None)>>
    <3>1. /\ At(d, "auto_apply")
          /\ Go(d, CASE p = None -> <<>>
                     [] p \in Adaptive -> Applied(p) \o <<>>
                     [] p \in Fixed -> Applied(p) \o stop)
      <4>1. PICK op \in {"auto_apply", "select_for", "startup_select"} :
              /\ At(d, op)
              /\ Go(d, CASE p = None -> IF op = "select_for" THEN stop ELSE <<>>
                         [] p \in Adaptive ->
                              Applied(p) \o (IF op = "auto_apply" THEN <<>> ELSE <<Do("done", p)>>)
                         [] p \in Fixed /\ op = "auto_apply" -> Applied(p) \o stop
                         [] p \in Fixed /\ op = "select_for" -> Applied(p) \o stop \o <<Do("done", p)>>
                         [] p \in Fixed /\ op = "startup_select" -> Applied(p) \o <<Do("done", p)>>)
        BY <2>5 DEF ApplyDefault
      <4>2. op = "auto_apply"
        BY <1>3, <4>1
      <4>3. p \in ProfileId \cup {None}
        BY <4>1, HeadTyped, HardwareAssumption DEF TypedStep, Arg, DefaultOf
      <4>4. /\ p = None \/ p \in Adaptive \/ p \in Fixed
            /\ ~(p = None /\ p \in Adaptive) /\ ~(p = None /\ p \in Fixed) /\ ~(p \in Adaptive /\ p \in Fixed)
        BY <4>3, HardwareAssumption DEF Fixed
      <4> HIDE DEF p, stop
      <4>5. QED
        BY <4>1, <4>2, <4>4
    <3>2. p \in ProfileId \cup {None}
      BY <3>1, HeadTyped, HardwareAssumption DEF TypedStep, Arg, DefaultOf
    <3>3. stop \in Seq(PowerSteps)
      BY PowerPrograms
    <3> HIDE DEF p, stop
    <3>4. CASE p = None
      <4>1. p \notin Adaptive /\ p \notin Fixed
        BY <3>4, HardwareAssumption DEF Fixed
      <4>2. QED
        BY <2>0, <3>1, <3>4, <4>1
    <3>5. CASE p # None
      <4>1. p \in ProfileId /\ p \in Adaptive \cup Fixed /\ ~(p \in Adaptive /\ p \in Fixed)
        BY <3>2, <3>5 DEF Fixed
      <4>2. Applied(p) \in Seq(PowerSteps)
        BY <4>1, PowerPrograms
      <4>3. Applied(p) \o <<>> \in Seq(PowerSteps) /\ Applied(p) \o stop \in Seq(PowerSteps)
        BY <2>0, <3>3, <4>2, ConcatProperties
      <4>4. QED
        BY <3>1, <3>5, <4>1, <4>3
    <3>6. QED
      BY <3>4, <3>5
  <2>6. QED
    BY <1>4, <2>0, <2>1, <2>2, <2>3, <2>4, <2>5
<1>7. PICK more \in Seq(PowerSteps) : todo'[d] = more \o Tail(todo[d])
  BY <1>6 DEF Go, TypeInv
<1>8. QED
  BY <1>1, <1>5, <1>7, SectionGo

\* The step that holds or lets go of a lock.
LEMMA HolderKept ==
  ASSUME TypeInv, NEW d \in Thread, Run(d)
  PROVE  /\ ProfileFan(d) => holder' = [holder EXCEPT !["state"] = d]
         /\ Release(d) => holder' = [holder EXCEPT ![Arg(d)] = None]
         /\ ~ProfileFan(d) /\ ~Release(d) =>
              /\ holder'["state"] = holder["state"]
              /\ \/ holder'["power"] = holder["power"]
                 \/ UpdatePower(d) /\ holder' = [holder EXCEPT !["power"] = d]
<1>1. ProfileFan(d) => holder' = [holder EXCEPT !["state"] = d]
  BY DEF ProfileFan, Take
<1>2. Release(d) => holder' = [holder EXCEPT ![Arg(d)] = None]
  BY DEF Release, Take
<1>3. ASSUME WriteStapm(d) \/ WriteFast(d) \/ WriteSlow(d)
      PROVE  holder'["state"] = holder["state"] /\ holder'["power"] = holder["power"]
  <2>1. holder' = holder \/ Take("tdp", d) \/ Take("tdp", None)
    BY <1>3 DEF WriteStapm, WriteFast, WriteSlow
  <2>2. QED
    BY <2>1 DEF Take, TypeInv, TypeOK
<1>4. ASSUME UpdatePower(d)
      PROVE  /\ holder'["state"] = holder["state"]
             /\ holder'["power"] = holder["power"] \/ holder' = [holder EXCEPT !["power"] = d]
  BY <1>4 DEF UpdatePower, Take, TypeInv, TypeOK
<1>5. ASSUME \/ CheckPersist(d) \/ FindProfile(d) \/ FindCurve(d)
             \/ SetPersist(d) \/ SaveCharge(d) \/ ResetConfig(d) \/ Done(d)
             \/ SetMode(d) \/ SetCurve(d) \/ SetCeiling(d) \/ SetActive(d)
             \/ WriteCharge(d) \/ KnowCharge(d) \/ ApplyCharge(d)
             \/ ReadSource(d) \/ Callback(d) \/ ApplyDefault(d)
             \/ ReadCurrent(d) \/ ApplyCurve(d) \/ ApplyAtStartup(d) \/ Serve(d)
      PROVE  holder' = holder
  BY <1>5 DEF CheckPersist, FindProfile, FindCurve, SetPersist, SaveCharge, ResetConfig, Done, SetMode,
     SetCurve, SetCeiling, SetActive, WriteCharge, KnowCharge, ApplyCharge, ReadSource, Callback,
     ApplyDefault, ReadCurrent, ApplyCurve, ApplyAtStartup, Serve
<1>6. QED
  BY <1>1, <1>2, <1>3, <1>4, <1>5 DEF Run

\* Every step keeps LockInv.
LEMMA LockStep == TypeInv /\ LockInv /\ [Next]_vars => LockInv'
<1> SUFFICES ASSUME TypeInv, LockInv, [Next]_vars PROVE LockInv'
  OBVIOUS
<1>0. holder \in [{"state", "power", "tdp"} -> Thread \cup {None}] /\ None \notin Thread
  BY HardwareAssumption DEF TypeInv, TypeOK
<1>1. ASSUME NEW d \in Thread, Run(d) PROVE LockInv'
  <2>0. \A e \in Thread \ {d} : todo'[e] = todo[e]
    BY <1>1, OthersStay
  <2>1. todo[d] \in Seq(TypedStep)
    BY DEF TypeInv, Queue
  \* A thread with a section is at one of its steps.
  <2>2. \A op : At(d, op) =>
          /\ holder["state"] = d => op \in {"mode", "curve", "release"}
          /\ holder["power"] = d =>
               op \in {"callback", "ceiling", "auto_apply", "activate", "deactivate", "stapm", "fast", "slow",
                       "mode", "curve", "apply_curve", "release"}
    <3>1. holder["state"] = d => Head(todo[d]) \in StateSteps \/ Head(todo[d]).op = "release"
      BY <2>1, SectionHead DEF LockInv
    <3>2. holder["power"] = d => Head(todo[d]) \in PowerSteps \/ Head(todo[d]).op = "release"
      BY <2>1, SectionHead DEF LockInv
    <3>3. QED
      BY <3>1, <3>2 DEF At, StateSteps, PowerSteps
  <2>3. CASE ProfileFan(d)
    <3>1. holder' = [holder EXCEPT !["state"] = d] /\ holder["power"] # d
      BY <1>1, <2>2, <2>3, HolderKept DEF ProfileFan
    <3>2. Arg(d) \in CurveId /\ Tail(todo[d]) \in Seq(TypedStep)
      BY <2>1, <2>3, HeadTyped, HeadTailProperties DEF ProfileFan, TypedStep, Arg, At, Busy
    <3> DEFINE fan_steps == IF HasCurve(Arg(d)) THEN <<Do("mode", "curve"), Do("curve", Arg(d))>>
                            ELSE <<Do("mode", "auto"), Do("curve", None)>>
    <3>3. /\ Do("mode", "curve") \in StateSteps /\ Do("curve", Arg(d)) \in StateSteps
          /\ Do("mode", "auto") \in StateSteps /\ Do("curve", None) \in StateSteps
      BY <3>2, StepTyped DEF StateSteps, Quiet, Do
    <3>4. fan_steps \in Seq(StateSteps)
      BY <3>3
    <3>5. Go(d, fan_steps \o <<Do("release", "state")>>)
      BY <2>3 DEF ProfileFan
    <3> HIDE DEF fan_steps
    <3>6. todo'[d] = (fan_steps \o <<Do("release", "state")>>) \o Tail(todo[d])
      BY <3>5 DEF Go, TypeInv
    <3>7. StateSteps \in SUBSET TypedStep
      BY DEF StateSteps
    <3>8. Section(todo'[d], "state", StateSteps)
      BY <3>2, <3>4, <3>6, <3>7, SectionNew
    <3>9. QED
      BY <1>0, <2>0, <3>1, <3>8 DEF LockInv
  <2>4. CASE Release(d)
    <3>1. /\ holder' = [holder EXCEPT ![Arg(d)] = None] /\ Arg(d) \in {"state", "power"}
          /\ Head(todo[d]).op = "release" /\ Arg(d) = Head(todo[d]).arg
      BY <1>1, <2>4, HolderKept, HeadTyped DEF Release, TypedStep, Arg
    <3>2. /\ holder["state"] = d => Arg(d) = "state"
          /\ holder["power"] = d => Arg(d) = "power"
      <4>1. Head(todo[d]) \notin StateSteps /\ Head(todo[d]) \notin PowerSteps
        BY <3>1 DEF StateSteps, PowerSteps
      <4>2. holder["state"] = d => Head(todo[d]).arg = "state"
        BY <2>1, <4>1, SectionHead DEF LockInv
      <4>3. holder["power"] = d => Head(todo[d]).arg = "power"
        BY <2>1, <4>1, SectionHead DEF LockInv
      <4>4. QED
        BY <3>1, <4>2, <4>3
    <3>3. holder'["state"] # d /\ holder'["power"] # d
      BY <1>0, <3>1, <3>2
    <3>4. \A e \in Thread : /\ holder'["state"] = e => holder["state"] = e
                            /\ holder'["power"] = e => holder["power"] = e
      BY <1>0, <3>1
    <3>5. QED
      BY <2>0, <3>3, <3>4 DEF LockInv
  <2>5. CASE ~ProfileFan(d) /\ ~Release(d)
    <3>1. holder'["state"] = holder["state"]
      BY <1>1, <2>5, HolderKept
    <3>2. holder["state"] = d => Section(todo'[d], "state", StateSteps)
      BY <1>1, <2>5, StateSection DEF LockInv
    <3>3. holder["power"] = d => Section(todo'[d], "power", PowerSteps)
      BY <1>1, <2>5, PowerSection DEF LockInv
    <3>4. CASE holder'["power"] = holder["power"]
      BY <2>0, <3>1, <3>2, <3>3, <3>4 DEF LockInv
    <3>5. CASE UpdatePower(d) /\ holder' = [holder EXCEPT !["power"] = d] /\ holder'["power"] # holder["power"]
      <4>1. Arg(d) \in AnySource /\ Tail(todo[d]) \in Seq(TypedStep)
        BY <2>1, <3>5, HeadTyped, HeadTailProperties DEF UpdatePower, TypedStep, Arg, At, Busy
      <4>2. Go(d, <<Do("callback", Arg(d)), Do("release", "power")>>)
        BY <3>5 DEF UpdatePower
      <4>3. <<Do("callback", Arg(d))>> \in Seq(PowerSteps)
        BY <4>1, PowerPrograms
      <4>4. <<Do("callback", Arg(d)), Do("release", "power")>>
              = <<Do("callback", Arg(d))>> \o <<Do("release", "power")>>
        OBVIOUS
      <4>5. todo'[d] = (<<Do("callback", Arg(d))>> \o <<Do("release", "power")>>) \o Tail(todo[d])
        BY <4>2, <4>4 DEF Go, TypeInv
      <4>6. PowerSteps \in SUBSET TypedStep
        BY DEF PowerSteps
      <4>7. Section(todo'[d], "power", PowerSteps)
        BY <4>1, <4>3, <4>5, <4>6, SectionNew
      <4>8. QED
        BY <1>0, <2>0, <3>1, <3>2, <3>5, <4>7 DEF LockInv
    <3>6. QED
      BY <1>1, <2>5, <3>4, <3>5, HolderKept
  <2>6. QED
    BY <2>3, <2>4, <2>5
<1>2. ASSUME NEW d \in Dispatcher, Begin(d) PROVE LockInv'
  <2>1. /\ d \in Thread /\ ~Busy(d) /\ holder' = holder
        /\ \A e \in Thread \ {d} : todo'[e] = todo[e]
    BY <1>2, BeginTypes DEF Begin, Thread
  <2>2. holder["state"] # d /\ holder["power"] # d
    BY <2>1, SectionHead DEF LockInv, Busy, TypeInv, Queue
  <2>3. QED
    BY <2>1, <2>2 DEF LockInv
<1>3. ASSUME Tick \/ ChangeSource \/ UNCHANGED vars PROVE LockInv'
  <2>1. UNCHANGED <<todo, holder>>
    BY <1>3 DEF Tick, ChangeSource, vars
  <2>2. QED
    BY <2>1 DEF LockInv
<1>4. QED
  BY <1>1, <1>2, <1>3 DEF Next

\* LockInv at the start.
LEMMA InitLocks == Init => LockInv
BY HardwareAssumption DEF Init, LockInv

\* The holder of the TDP mutex never waits; the holder of state_mutex_ never
\* waits; the holder of the power mutex waits for one of these two at most.
LEMMA HoldersRun ==
  ASSUME TypeInv, LimitsInv, LockInv
  PROVE  SomeoneRuns
<1>0. holder \in [{"state", "power", "tdp"} -> Thread \cup {None}] /\ None \notin Thread
  BY HardwareAssumption DEF TypeInv, TypeOK
<1>1. \A d \in Thread : holder["tdp"] = d => Busy(d) /\ ~Blocked(d)
  BY DEF LimitsInv, Writing, Blocked, Wants
<1>2. \A d \in Thread : holder["state"] = d => Busy(d) /\ ~Blocked(d)
  <2> SUFFICES ASSUME NEW d \in Thread, holder["state"] = d PROVE Busy(d) /\ ~Blocked(d)
    OBVIOUS
  <2>1. todo[d] # <<>> /\ (Head(todo[d]) \in StateSteps \/ Head(todo[d]).op = "release")
    BY SectionHead DEF LockInv, TypeInv, Queue
  <2>2. Head(todo[d]).op \in {"mode", "curve", "release"}
    BY <2>1 DEF StateSteps
  <2>3. Wants(Head(todo[d]).op) = "none"
    BY <2>2 DEF Wants
  <2>4. QED
    BY <2>1, <2>3 DEF Busy, Blocked
<1>3. \A d \in Thread : holder["power"] = d =>
        Busy(d) /\ Wants(Head(todo[d]).op) \in {"none", "state", "tdp"}
  <2> SUFFICES ASSUME NEW d \in Thread, holder["power"] = d
               PROVE  Busy(d) /\ Wants(Head(todo[d]).op) \in {"none", "state", "tdp"}
    OBVIOUS
  <2>1. todo[d] # <<>> /\ (Head(todo[d]) \in PowerSteps \/ Head(todo[d]).op = "release")
    BY SectionHead DEF LockInv, TypeInv, Queue
  <2>2. Head(todo[d]).op \in {"callback", "ceiling", "auto_apply", "activate", "deactivate", "stapm", "fast",
                              "slow", "mode", "curve", "apply_curve", "release"}
    BY <2>1 DEF PowerSteps
  <2>3. QED
    BY <2>1, <2>2 DEF Busy, Wants
<1>4. \A op : Wants(op) \in {"none", "state", "power", "tdp"}
  BY DEF Wants
<1>5. CASE holder["tdp"] # None \/ holder["state"] # None
  BY <1>0, <1>1, <1>2, <1>5 DEF SomeoneRuns
<1>6. CASE holder["tdp"] = None /\ holder["state"] = None /\ holder["power"] # None
  BY <1>0, <1>3, <1>6 DEF SomeoneRuns, Blocked
<1>7. CASE holder["tdp"] = None /\ holder["state"] = None /\ holder["power"] = None
  BY <1>4, <1>7 DEF SomeoneRuns, Blocked
<1>8. QED
  BY <1>5, <1>6, <1>7

\* The threads never all wait for one another's locks, however many there are
\* (SomeoneRuns).
THEOREM NoDeadlock == Spec => []SomeoneRuns
<1>1. TypeInv /\ LimitsInv /\ LockInv => SomeoneRuns
  BY HoldersRun
<1>2. Spec => []LimitsInv
  BY Typing, InitLimits, LimitsStep, PTL DEF Spec
<1>3. Spec => []LockInv
  BY Typing, InitLocks, LockStep, PTL DEF Spec
<1>4. QED
  BY <1>1, <1>2, <1>3, Typing, PTL
=============================================================================
