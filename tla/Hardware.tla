------------------------------- MODULE Hardware -------------------------------
(***************************************************************************)
(* The commands that write the hardware (set_fan, set_tdp, set_profile,    *)
(* set_charge_limit, set_session_persist, set_config, restore_defaults),   *)
(* the fan, TDP, power and adaptive controllers they go through, main's    *)
(* startup, its power source callback, and the poller's fan tick.          *)
(*                                                                         *)
(* A thread's todo is what it has left to do: the critical sections and    *)
(* register accesses of its command, in program order, each one an action. *)
(* A step may put others in front of the rest, as a call does.  The locks  *)
(* held across steps are state_mutex_, the power controller's and the TDP  *)
(* controller's; the fan and the adaptive controller lock one access each. *)
(*                                                                         *)
(* The three limits of a profile, a curve's points and a charge limit are  *)
(* one name each.  Commands that are refused for a value out of range, or  *)
(* do not parse, touch nothing and are left out.  Profiles and curves are those   *)
(* stored at startup, until restore_defaults removes them: ProfileStore    *)
(* has the commands that edit them.                                        *)
(***************************************************************************)
EXTENDS Naturals, Sequences

CONSTANTS
  Dispatcher,   \* the socket's connection thread and the D-Bus thread
  Main,         \* main's thread, until it enters the message loop
  None,         \* no thread, profile, curve or source
  ProfileId,
  Adaptive,     \* the profiles of type adaptive; the others are fixed
  CurveId,
  BuiltinCurve, \* the curves restore_defaults keeps
  FixedCurve,   \* fan_curve of a profile, or None
  Assigned,     \* power_state of a profile, or None
  Default,      \* a power source's default profile, or None
  Source,       \* what the EC tells of the power source
  Unknown,      \* PowerState::Source::Unknown
  Charge,       \* charge limits
  FullCharge,   \* the charge limit of get_default_config
  Bios,         \* what the firmware sets
  Manual,       \* limits a set_tdp asks for
  MaxCommands,  \* bound on the commands that are run
  MaxFaults,    \* bound on the register accesses that fail
  MaxChanges    \* bound on the changes of power source

Thread == Dispatcher \cup {Main}
Fixed == ProfileId \ Adaptive
Limits == Fixed \cup {Manual, Bios}
AnySource == Source \cup {Unknown}

ASSUME HardwareAssumption ==
  /\ None \notin Thread \cup ProfileId \cup CurveId \cup AnySource \cup Charge
  /\ Main \notin Dispatcher
  /\ Adaptive \subseteq ProfileId /\ BuiltinCurve \subseteq CurveId
  /\ FixedCurve \in [Fixed -> CurveId \cup {None}]
  /\ Assigned \in [ProfileId -> Source \cup {None}]
  /\ Default \in [AnySource -> ProfileId \cup {None}]
  /\ \A s \in AnySource : Default[s] # None => Assigned[Default[s]] = s
  /\ Unknown \notin Source /\ FullCharge \in Charge
  /\ MaxCommands \in Nat /\ MaxFaults \in Nat /\ MaxChanges \in Nat

VARIABLES
  todo,     \* what a thread has left to do
  holder,   \* who holds a lock
  phase,    \* how far main is
  persist,  \* config_.session_persist
  charge,   \* config_.charge_limit_pct, the register, last_charge_limit_
  cleared,  \* restore_defaults has removed the profiles and the user's curves
  source,   \* the power source the EC reads
  current,  \* current_state_
  limits,   \* the SMU's three limits
  last,     \* last_state_ of the TDP controller
  fan,      \* mode_, active_curve_, and the EC's fan mode
  duty,     \* whose speed the EC's duty cycle is
  adaptive, \* the profile the adaptive controller runs, and its ceiling: that of
            \* a power source, or None for the highest
  spent,    \* commands, faults and changes so far
  torn,     \* a write of the limits failed part way, and none went through since
  grace,    \* threads whose command saw session_persist on, at some time
  solo,     \* the thread that has run alone and without faults, or None
  inforce   \* the profile that such a thread put in force last, or None

registers == <<limits, charge.register, fan.ec>>
history == <<torn, grace, solo, inforce>>
config == <<persist, charge, cleared>>
controllers == <<limits, last, fan, adaptive, current>>
environment == <<source, duty, phase, spent>>
vars == <<todo, holder, phase, persist, charge, cleared, source, current, limits,
          last, fan, duty, adaptive, spent, torn, grace, solo, inforce>>
-----------------------------------------------------------------------------
(* Steps.                                                                  *)

Op == {"gate", "find", "find_curve", "profile_fan", "release", "persist",
       "save_charge", "restore", "reset", "mode", "curve", "stapm", "fast", "slow",
       "ceiling", "ceiling_of_current", "activate", "deactivate", "apply_charge",
       "charge", "known", "read_source", "update", "callback", "auto_apply",
       "select", "select_for", "apply_curve", "startup", "startup_select", "serve",
       "register", "done"}

\* must: an error of this step is an error of the command, and ends it.
Step == [op: Op,
         arg: ProfileId \cup CurveId \cup AnySource \cup Charge \cup Limits
              \cup {None, "state", "power", "on", "off", "auto", "curve"},
         must: BOOLEAN]
Do(op, arg) == [op |-> op, arg |-> arg, must |-> FALSE]
Must(op, arg) == [op |-> op, arg |-> arg, must |-> TRUE]

\* The lock a step takes.
Wants(op) ==
  CASE op \in {"gate", "find", "find_curve", "profile_fan", "persist",
               "save_charge", "restore", "callback"} -> "state"
    [] op \in {"ceiling_of_current", "known", "update", "select", "register"} -> "power"
    [] op = "stapm" -> "tdp"
    [] OTHER -> "none"

Busy(d) == todo[d] # <<>>
Blocked(d) == LET lock == Wants(Head(todo[d]).op)
              IN  lock # "none" /\ holder[lock] # None

\* Thread d is at step op and can take it.
At(d, op) == Busy(d) /\ Head(todo[d]).op = op /\ ~Blocked(d)
Arg(d) == Head(todo[d]).arg

\* The step is done; the steps "more" come before the rest.
Go(d, more) == todo' = [todo EXCEPT ![d] = more \o Tail(@)]
End(d) == todo' = [todo EXCEPT ![d] = <<>>]

Take(lock, d) == holder' = [holder EXCEPT ![lock] = d]

\* The access of this step fails.
Fault(d) ==
  /\ spent.faults < MaxFaults
  /\ spent' = [spent EXCEPT !.faults = @ + 1]
  /\ solo' = None
  /\ inforce' = None
  /\ IF Head(todo[d]).must THEN End(d) ELSE Go(d, <<>>)
  /\ UNCHANGED grace
-----------------------------------------------------------------------------
(* The programs.                                                           *)

Gate == Do("gate", None)

WriteTdp(limit, must) == <<[op |-> "stapm", arg |-> limit, must |-> must]>>

SetFanAuto == <<Gate, Must("mode", "auto"), Do("curve", None)>>

\* The curve is looked up after the mode is set, if the request names one.
SetFanCurve(c) ==
  <<Gate, Must("mode", "curve")>> \o
  (IF c = None THEN <<>> ELSE <<Must("find_curve", c)>>)

\* Seeded fault: no gate.
SetTdp_Fault(limit) == WriteTdp(limit, TRUE)

SetTdp(limit) == <<Gate>> \o WriteTdp(limit, TRUE)

SetChargeLimit(n) == <<Gate, Must("charge", n), Do("save_charge", n)>>

SetProfile(p) == <<Gate, Do("find", p)>>

RestoreDefaults == <<Do("restore", None), Do("reset", "auto")>>

Ceiling(p) == IF Assigned[p] # None THEN Do("ceiling", Assigned[p])
              ELSE Do("ceiling_of_current", None)

\* Seeded fault: a fixed profile leaves the adaptive controller running.
Chosen_Fault(p) ==
  <<Ceiling(p)>> \o
  (IF p \in Adaptive
     THEN <<Do("activate", p)>>
     ELSE WriteTdp(p, TRUE) \o
          (IF FixedCurve[p] = None THEN <<Do("mode", "auto"), Do("curve", None)>>
           ELSE <<Do("profile_fan", FixedCurve[p])>>))
  \o <<Do("done", p)>>

\* What set_profile does with the profile it found.
Chosen(p) ==
  <<Ceiling(p)>> \o
  (IF p \in Adaptive
     THEN <<Do("activate", p)>>
     ELSE WriteTdp(p, TRUE) \o
          (IF FixedCurve[p] = None THEN <<Do("mode", "auto"), Do("curve", None)>>
           ELSE <<Do("profile_fan", FixedCurve[p])>>) \o
          <<Do("deactivate", None)>>)
  \o <<Do("done", p)>>

ApplyAll == <<Do("apply_charge", None), Do("read_source", None), Do("select", None)>>

Startup == <<Do("read_source", None), Do("startup", None), Do("serve", None),
             Do("register", None)>>

\* A default profile applied without a command naming it: errors are logged, and
\* the active curve stays when the profile has none.
Applied(p) ==
  IF p \in Adaptive
    THEN <<Do("activate", p)>>
    ELSE WriteTdp(p, FALSE) \o
         (IF FixedCurve[p] = None THEN <<Do("mode", "auto")>>
          ELSE <<Do("apply_curve", FixedCurve[p])>>)

DefaultOf(s) == IF cleared THEN None ELSE Default[s]
HasCurve(c) == ~cleared \/ c \in BuiltinCurve

Command ==
  {SetFanAuto, RestoreDefaults, <<Do("persist", "on")>>, <<Do("persist", "off")>>,
   SetTdp(Manual)}
  \cup {SetFanCurve(c) : c \in CurveId \cup {None}}
  \cup {SetChargeLimit(n) : n \in Charge}
  \cup {<<Do("save_charge", n)>> : n \in Charge \cup {None}}
  \cup {SetProfile(p) : p \in ProfileId}
-----------------------------------------------------------------------------
(* What the handlers do under state_mutex_.                                *)

\* A dispatcher starts a command.  set_config has the steps of
\* set_session_persist for one field and sets the charge limit with another,
\* to any number: None is one out of range.
Begin(d) ==
  /\ phase # "startup"
  /\ ~Busy(d)
  /\ spent.commands < MaxCommands
  /\ \E program \in Command : todo' = [todo EXCEPT ![d] = program]
  /\ spent' = [spent EXCEPT !.commands = @ + 1]
  /\ grace' = IF persist THEN grace \cup {d} ELSE grace \ {d}
  /\ solo' = IF \E other \in Dispatcher : Busy(other) THEN None ELSE d
  /\ inforce' = None
  /\ UNCHANGED <<holder, config, controllers, source, duty, phase, torn>>

CheckPersist(d) ==
  /\ At(d, "gate")
  /\ IF persist THEN Go(d, <<>>) ELSE End(d)
  /\ UNCHANGED <<holder, config, controllers, environment, history>>

FindProfile(d) ==
  /\ At(d, "find")
  /\ IF cleared THEN End(d) ELSE Go(d, Chosen(Arg(d)))
  /\ UNCHANGED <<holder, config, controllers, environment, history>>

\* set_fan: the mode stays set when there is no such curve.
FindCurve(d) ==
  /\ At(d, "find_curve")
  /\ IF HasCurve(Arg(d))
       THEN fan' = [fan EXCEPT !.curve = Arg(d)] /\ Go(d, <<>>)
       ELSE End(d) /\ UNCHANGED fan
  /\ UNCHANGED <<holder, config, limits, last, adaptive, current, environment, history>>

\* set_profile: state_mutex_ is held while the fan is set.
ProfileFan(d) ==
  /\ At(d, "profile_fan")
  /\ Take("state", d)
  /\ Go(d, (IF HasCurve(Arg(d)) THEN <<Do("mode", "curve"), Do("curve", Arg(d))>>
            ELSE <<Do("mode", "auto"), Do("curve", None)>>)
           \o <<Do("release", "state")>>)
  /\ UNCHANGED <<config, controllers, environment, history>>

Release(d) ==
  /\ At(d, "release")
  /\ Take(Arg(d), None)
  /\ Go(d, <<>>)
  /\ UNCHANGED <<config, controllers, environment, history>>

\* Seeded fault: the settings are applied before state_mutex_ is released.
SetPersist_Fault(d) ==
  /\ At(d, "persist")
  /\ persist' = (Arg(d) = "on")
  /\ grace' = IF persist' THEN Thread ELSE grace
  /\ Take("state", d)
  /\ Go(d, (IF persist' /\ ~persist THEN ApplyAll ELSE <<>>)
           \o <<Do("release", "state")>>)
  /\ UNCHANGED <<charge, cleared, controllers, environment, torn, solo, inforce>>

SetPersist(d) ==
  /\ At(d, "persist")
  /\ persist' = (Arg(d) = "on")
  /\ grace' = IF persist' THEN Thread ELSE grace
  /\ Go(d, IF persist' /\ ~persist THEN ApplyAll ELSE <<>>)
  /\ UNCHANGED <<holder, charge, cleared, controllers, environment, torn, solo,
                 inforce>>

SaveCharge(d) ==
  /\ At(d, "save_charge")
  /\ charge' = [charge EXCEPT !.config = Arg(d)]
  /\ Go(d, <<>>)
  /\ UNCHANGED <<holder, persist, cleared, controllers, environment, history>>

ResetConfig(d) ==
  /\ At(d, "restore")
  /\ persist' = FALSE
  /\ charge' = [charge EXCEPT !.config = FullCharge]
  /\ cleared' = TRUE
  /\ Go(d, <<>>)
  /\ UNCHANGED <<holder, controllers, environment, history>>

\* set_profile and set_session_persist answer.
Done(d) ==
  /\ At(d, "done")
  /\ inforce' = IF solo = d THEN Arg(d) ELSE None
  /\ Go(d, <<>>)
  /\ UNCHANGED <<holder, config, controllers, environment, torn, grace, solo>>
-----------------------------------------------------------------------------
(* The fan controller.                                                     *)

\* mode_ is set whether the EC takes the mode or not.
SetMode(d) ==
  /\ At(d, "mode") \/ At(d, "reset")
  /\ \/ /\ fan' = [fan EXCEPT !.mode = Arg(d), !.ec = Arg(d)]
        /\ Go(d, <<>>)
        /\ UNCHANGED <<spent, history>>
     \/ /\ fan' = [fan EXCEPT !.mode = Arg(d)]
        /\ Fault(d)
        /\ UNCHANGED torn
  /\ UNCHANGED <<holder, config, limits, last, adaptive, current, source, duty, phase>>

SetCurve(d) ==
  /\ At(d, "curve")
  /\ fan' = [fan EXCEPT !.curve = Arg(d)]
  /\ Go(d, <<>>)
  /\ UNCHANGED <<holder, config, limits, last, adaptive, current, environment, history>>

\* The poller: the duty cycle is written, never the mode.
Tick ==
  /\ fan.mode = "curve"
  /\ fan.curve # None
  /\ duty' = fan.curve
  /\ UNCHANGED <<todo, holder, config, controllers, source, phase, spent, history>>
-----------------------------------------------------------------------------
(* The TDP controller.                                                     *)

\* Seeded fault: the mutex is not taken.
WriteStapm_Fault(d) ==
  /\ Busy(d) /\ Head(todo[d]).op = "stapm"
  /\ \/ /\ limits' = [limits EXCEPT !["stapm"] = Arg(d)]
        /\ Go(d, <<[Head(todo[d]) EXCEPT !.op = "fast"]>>)
        /\ UNCHANGED <<holder, spent, history>>
     \/ /\ Fault(d)
        /\ UNCHANGED <<holder, limits, torn>>
  /\ UNCHANGED <<config, last, fan, adaptive, current, source, duty, phase>>

\* write_tdp takes its mutex and writes the first limit.
WriteStapm(d) ==
  /\ At(d, "stapm")
  /\ \/ /\ limits' = [limits EXCEPT !["stapm"] = Arg(d)]
        /\ Take("tdp", d)
        /\ Go(d, <<[Head(todo[d]) EXCEPT !.op = "fast"]>>)
        /\ UNCHANGED <<spent, history>>
     \/ /\ Fault(d)
        /\ UNCHANGED <<holder, limits, torn>>
  /\ UNCHANGED <<config, last, fan, adaptive, current, source, duty, phase>>

WriteFast(d) ==
  /\ At(d, "fast")
  /\ \/ /\ limits' = [limits EXCEPT !["fast"] = Arg(d)]
        /\ Go(d, <<[Head(todo[d]) EXCEPT !.op = "slow"]>>)
        /\ UNCHANGED <<holder, spent, history>>
     \/ /\ Fault(d)
        /\ Take("tdp", None)
        /\ torn' = TRUE
        /\ UNCHANGED limits
  /\ UNCHANGED <<config, last, fan, adaptive, current, source, duty, phase>>

WriteSlow(d) ==
  /\ At(d, "slow")
  /\ Take("tdp", None)
  /\ \/ /\ limits' = [limits EXCEPT !["slow"] = Arg(d)]
        /\ last' = Arg(d)
        /\ torn' = FALSE
        /\ Go(d, <<>>)
        /\ UNCHANGED <<spent, grace, solo, inforce>>
     \/ /\ Fault(d)
        /\ torn' = TRUE
        /\ UNCHANGED <<limits, last>>
  /\ UNCHANGED <<config, fan, adaptive, current, source, duty, phase>>
-----------------------------------------------------------------------------
(* The adaptive controller.                                                *)

SetCeiling(d) ==
  /\ At(d, "ceiling")
  /\ adaptive' = [adaptive EXCEPT !.ceiling = Arg(d)]
  /\ Go(d, <<>>)
  /\ UNCHANGED <<holder, config, limits, last, fan, current, environment, history>>

SetActive(d) ==
  /\ At(d, "activate") \/ At(d, "deactivate")
  /\ adaptive' = [adaptive EXCEPT !.active = Arg(d)]
  /\ Go(d, <<>>)
  /\ UNCHANGED <<holder, config, limits, last, fan, current, environment, history>>
-----------------------------------------------------------------------------
(* The power controller, and what is applied for a power source.           *)

\* The register is written before last_charge_limit_'s lock is taken.
WriteCharge(d) ==
  /\ At(d, "charge")
  /\ \/ /\ charge' = [charge EXCEPT !.register = Arg(d)]
        /\ Go(d, <<Do("known", Arg(d))>>)
        /\ UNCHANGED <<spent, history>>
     \/ /\ Fault(d)
        /\ UNCHANGED <<charge, torn>>
  /\ UNCHANGED <<holder, persist, cleared, controllers, source, duty, phase>>

KnowCharge(d) ==
  /\ At(d, "known")
  /\ charge' = [charge EXCEPT !.last = Arg(d)]
  /\ Go(d, <<>>)
  /\ UNCHANGED <<holder, persist, cleared, controllers, environment, history>>

\* apply_all_settings reads the configuration without its lock.
ApplyCharge(d) ==
  /\ At(d, "apply_charge")
  /\ Go(d, IF charge.config = None THEN <<>> ELSE <<Do("charge", charge.config)>>)
  /\ UNCHANGED <<holder, config, controllers, environment, history>>

\* Seeded fault: an error is not turned into Unknown.
ReadSource_Fault(d) ==
  /\ At(d, "read_source")
  /\ \/ /\ Go(d, <<Do("update", source)>>)
        /\ UNCHANGED spent
     \/ /\ spent.faults < MaxFaults
        /\ spent' = [spent EXCEPT !.faults = @ + 1]
        /\ Go(d, <<Do("update", None)>>)
  /\ UNCHANGED <<holder, config, controllers, source, duty, phase, history>>

\* update_power_state reads the EC before it locks; an error reads as Unknown.
ReadSource(d) ==
  /\ At(d, "read_source")
  /\ \/ /\ Go(d, <<Do("update", source)>>)
        /\ UNCHANGED spent
     \/ /\ spent.faults < MaxFaults
        /\ spent' = [spent EXCEPT !.faults = @ + 1]
        /\ Go(d, <<Do("update", Unknown)>>)
  /\ UNCHANGED <<holder, config, controllers, source, duty, phase, history>>

\* The callback runs with the power controller's mutex held.
UpdatePower(d) ==
  /\ At(d, "update")
  /\ current' = Arg(d)
  /\ IF current # Arg(d) /\ phase = "ready"
       THEN /\ Take("power", d)
            /\ Go(d, <<Do("callback", Arg(d)), Do("release", "power")>>)
       ELSE Go(d, <<>>) /\ UNCHANGED holder
  /\ UNCHANGED <<config, limits, last, fan, adaptive, environment, history>>

Callback(d) ==
  /\ At(d, "callback")
  /\ Go(d, IF persist THEN <<Do("ceiling", Arg(d)), Do("auto_apply", Arg(d))>>
           ELSE <<>>)
  /\ UNCHANGED <<holder, config, controllers, environment, history>>

\* The callback changes nothing for a source without a default; apply_all_settings
\* stops the adaptive controller; startup does not touch it for a fixed profile.
\* All three read the profiles without a lock.  That restore_defaults may free
\* them in the middle of the read is not here: the read is one step, before or after.
ApplyDefault(d) ==
  /\ \E op \in {"auto_apply", "select_for", "startup_select"} :
       /\ At(d, op)
       /\ LET p == DefaultOf(Arg(d))
              stop == <<Do("deactivate", None)>>
              done == <<Do("done", p)>>
          IN  Go(d, CASE p = None -> IF op = "select_for" THEN stop ELSE <<>>
                      [] p \in Adaptive ->
                           Applied(p) \o (IF op = "auto_apply" THEN <<>> ELSE done)
                      [] p \in Fixed /\ op = "auto_apply" -> Applied(p) \o stop
                      [] p \in Fixed /\ op = "select_for" -> Applied(p) \o stop \o done
                      [] p \in Fixed /\ op = "startup_select" -> Applied(p) \o done)
  /\ UNCHANGED <<holder, config, controllers, environment, history>>

\* current_state(), for set_profile and for apply_all_settings.
ReadCurrent(d) ==
  /\ \/ At(d, "ceiling_of_current") /\ Go(d, <<Do("ceiling", current)>>)
     \/ /\ At(d, "select")
        /\ Go(d, <<Do("ceiling", current), Do("select_for", current)>>)
  /\ UNCHANGED <<holder, config, controllers, environment, history>>

ApplyCurve(d) ==
  /\ At(d, "apply_curve")
  /\ Go(d, IF HasCurve(Arg(d)) THEN <<Do("mode", "curve"), Do("curve", Arg(d))>>
           ELSE <<>>)
  /\ UNCHANGED <<holder, config, controllers, environment, history>>

\* The source the EC reports changes.
ChangeSource ==
  /\ spent.changes < MaxChanges
  /\ \E s \in Source \ {source} : source' = s
  /\ spent' = [spent EXCEPT !.changes = @ + 1]
  /\ UNCHANGED <<todo, holder, config, controllers, duty, phase, history>>
-----------------------------------------------------------------------------
(* main.                                                                   *)

ApplyAtStartup(d) ==
  /\ At(d, "startup")
  /\ Go(d, IF persist
             THEN <<Do("ceiling", current), Do("apply_charge", None),
                    Do("startup_select", current)>>
             ELSE <<>>)
  /\ UNCHANGED <<holder, config, controllers, environment, history>>

\* The service takes commands before the callback is registered.
Serve(d) ==
  /\ \/ At(d, "serve") /\ phase' = "serving"
     \/ At(d, "register") /\ phase' = "ready"
  /\ Go(d, <<>>)
  /\ UNCHANGED <<holder, config, controllers, source, duty, spent, history>>
-----------------------------------------------------------------------------
Init ==
  /\ todo = [d \in Thread |-> IF d = Main THEN Startup ELSE <<>>]
  /\ holder = [lock \in {"state", "power", "tdp"} |-> None]
  /\ phase = "startup"
  /\ persist \in BOOLEAN
  /\ \E n, m \in Charge : charge = [config |-> n, register |-> m, last |-> None]
  /\ cleared = FALSE
  /\ source \in Source
  /\ current = Unknown
  /\ limits = [l \in {"stapm", "fast", "slow"} |-> Bios]
  /\ last = Bios
  /\ fan = [mode |-> "auto", curve |-> None, ec |-> "auto"]
  /\ duty = Bios
  /\ adaptive = [active |-> None, ceiling |-> None]
  /\ spent = [commands |-> 0, faults |-> 0, changes |-> 0]
  /\ torn = FALSE
  /\ grace = IF persist THEN Thread ELSE {}
  /\ solo = Main
  /\ inforce = None

Run(d) ==
  \/ CheckPersist(d) \/ FindProfile(d) \/ FindCurve(d) \/ ProfileFan(d)
  \/ Release(d) \/ SetPersist(d) \/ SaveCharge(d) \/ ResetConfig(d) \/ Done(d)
  \/ SetMode(d) \/ SetCurve(d)
  \/ WriteStapm(d) \/ WriteFast(d) \/ WriteSlow(d)
  \/ SetCeiling(d) \/ SetActive(d)
  \/ WriteCharge(d) \/ KnowCharge(d) \/ ApplyCharge(d)
  \/ ReadSource(d) \/ UpdatePower(d) \/ Callback(d) \/ ApplyDefault(d)
  \/ ReadCurrent(d) \/ ApplyCurve(d) \/ ApplyAtStartup(d) \/ Serve(d)

Next ==
  \/ \E d \in Dispatcher : Begin(d)
  \/ \E d \in Thread : Run(d)
  \/ Tick
  \/ ChangeSource

Spec == Init /\ [][Next]_vars
-----------------------------------------------------------------------------
(* Properties.                                                             *)

\* Types.
TypeOK ==
  /\ todo \in [Thread -> Seq(Step)]
  /\ holder \in [{"state", "power", "tdp"} -> Thread \cup {None}]
  /\ phase \in {"startup", "serving", "ready"}
  /\ persist \in BOOLEAN /\ cleared \in BOOLEAN
  /\ charge \in [config: Charge \cup {None}, register: Charge, last: Charge \cup {None}]
  /\ source \in Source /\ current \in AnySource
  /\ limits \in [{"stapm", "fast", "slow"} -> Limits] /\ last \in Limits
  /\ fan \in [mode: {"auto", "curve"}, curve: CurveId \cup {None}, ec: {"auto", "curve"}]
  /\ duty \in CurveId \cup {Bios}
  /\ adaptive \in [active: ProfileId \cup {None}, ceiling: AnySource \cup {None}]
  /\ spent \in [commands: 0..MaxCommands, faults: 0..MaxFaults, changes: 0..MaxChanges]
  /\ torn \in BOOLEAN /\ grace \subseteq Thread
  /\ solo \in Thread \cup {None} /\ inforce \in ProfileId \cup {None}

\* When no write_tdp is under way, and unless the last one failed half way, the
\* three limits come from one request, the one last_state_ remembers, whoever
\* else was writing.
LimitsCoherent ==
  holder["tdp"] = None /\ ~torn =>
    \A l \in DOMAIN limits : limits[l] = last

\* The threads never all wait for one another's locks: not when the power
\* callback, with the power mutex held, takes state_mutex_ and the controllers'
\* mutexes, and not when set_profile sets the fan with state_mutex_ held.
SomeoneRuns ==
  (\E d \in Thread : Busy(d)) => \E d \in Thread : Busy(d) /\ ~Blocked(d)

\* No command writes the limits, the charge limit or the fan mode unless
\* session_persist was on at some time since it began, whatever the other
\* dispatcher does; only the end of restore_defaults gives the fan back to the
\* firmware.
GateHolds ==
  [][\A d \in Thread :
       todo'[d] # todo[d] /\ registers' # registers =>
         d \in grace \/ At(d, "reset")]_vars

\* Once a profile was answered for, or applied because session_persist was turned
\* on or was on at startup, with no other command and no failed access since, the
\* hardware and the controllers are all at that profile.
ProfileInForce ==
  inforce # None =>
    /\ IF inforce \in Adaptive
         THEN adaptive.active = inforce
         ELSE /\ adaptive.active = None
              /\ \A l \in DOMAIN limits : limits[l] = inforce
              /\ fan.ec = fan.mode
              /\ fan.mode = IF FixedCurve[inforce] = None THEN "auto" ELSE "curve"
              /\ fan.mode = "curve" => fan.curve = FixedCurve[inforce]
    /\ adaptive.ceiling = IF Assigned[inforce] = None THEN current ELSE Assigned[inforce]
=============================================================================
