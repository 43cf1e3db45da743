----------------------------- MODULE ProfileStore -----------------------------
(***************************************************************************)
(* The profile and fan-curve store of the backend: the ProfileStorage that *)
(* main() loads from profiles.json, the TransportService handlers that     *)
(* change it under state_mutex_, and the file every change is saved to.    *)
(*                                                                         *)
(* Two dispatcher threads run the handlers on Linux, the socket's          *)
(* connection thread and the D-Bus thread.  A handler that creates an      *)
(* entry takes state_mutex_ twice, once to pick the slug and once to       *)
(* store: that gap is the two-step creation below.  Every other handler    *)
(* is one critical section, so one action.                                 *)
(*                                                                         *)
(* Names, fan curve points, TDP values and tuning are left out.  A profile *)
(* is Adaptive exactly when it has no curve: the handler and the loader    *)
(* read fan_curve for Fixed profiles only, and save_profile insists on it. *)
(***************************************************************************)
EXTENDS Naturals

CONSTANTS
  PowerState,     \* the power sources a profile can be assigned to
  Unassigned,     \* power_state == nullopt
  UserId,         \* profile ids other than the builtin ones
  UserCurve,      \* fan curve ids other than the builtin ones
  BuiltinCurve,   \* fan curves defined in code
  BuiltinCase,    \* user curve ids that differ from a builtin only in case
  NoCurve,        \* fan_curve == nullopt: the profile is Adaptive
  NoProfile,      \* the map has no such key
  Name,           \* display names a create request may carry
  ProfileSlug,    \* ProfileSlug[n][k]: k-th slug generate_slug tries for n
  CurveSlug,      \* the same for fan curves
  SlugTries,      \* how many slugs of a name the model distinguishes
  Offered,        \* the profiles that save requests carry
  Dispatcher,     \* the threads that run TransportService::dispatch
  Idle,           \* a dispatcher between two commands
  MaxFaults       \* bound on failed writes of profiles.json

BuiltinId(s) == <<"builtin", s>>
BuiltinIds == {BuiltinId(s) : s \in PowerState}
ProfileId == UserId \cup BuiltinIds
CurveId == UserCurve \cup BuiltinCurve

Profile == [power: PowerState \cup {Unassigned},
            isDefault: BOOLEAN,
            curve: CurveId \cup {NoCurve}]

\* std::map<std::string, Profile>, total: an id without an entry is NoProfile.
ProfileMap == [ProfileId -> Profile \cup {NoProfile}]

\* A create request between its two critical sections.
NewProfile == [op: {"profile"}, id: ProfileId, profile: Profile]
NewCurve == [op: {"curve"}, id: CurveId]

ASSUME ConstantAssumption ==
  /\ Unassigned \notin PowerState
  /\ UserId \cap BuiltinIds = {}
  /\ UserCurve \cap BuiltinCurve = {}
  /\ NoCurve \notin CurveId
  /\ BuiltinCase \subseteq UserCurve
  /\ NoProfile \notin Profile
  /\ Offered \subseteq Profile
  /\ Idle \notin NewProfile \cup NewCurve
  /\ SlugTries \in Nat
  /\ ProfileSlug \in [Name -> [1..SlugTries -> UserId]]
  /\ CurveSlug \in [Name -> [1..SlugTries -> CurveId]]
  /\ MaxFaults \in Nat

\* get_builtin_fan_curves returns at least the curve the builtin profiles use.
ASSUME BuiltinCurveAssumption == BuiltinCurve # {}

VARIABLES
  running,    \* the service process is up
  profiles,   \* ProfileStorage::profiles
  curves,     \* the keys of ProfileStorage::fan_curves
  disk,       \* profiles.json
  pending,    \* what each dispatcher carries between two critical sections
  synced,     \* history: the last save_profiles wrote the whole file
  faults      \* history: failed writes so far

vars == <<running, profiles, curves, disk, pending, synced, faults>>
-----------------------------------------------------------------------------
EmptyMap == [i \in ProfileId |-> NoProfile]

Missing == [kind |-> "missing", profiles |-> EmptyMap, curves |-> {}]
Corrupt == [kind |-> "corrupt", profiles |-> EmptyMap, curves |-> {}]

\* The profile the code ships for power source s: Fixed, on a builtin curve.
BuiltinProfile(s) ==
  [power |-> s, isDefault |-> TRUE, curve |-> CHOOSE c \in BuiltinCurve : TRUE]

\* Entry i of map p is the default profile of power source s.
DefaultOf(p, i, s) ==
  /\ p[i] # NoProfile
  /\ p[i].power = s
  /\ p[i].isDefault

UserPart(p) == [i \in ProfileId |-> IF i \in UserId THEN p[i] ELSE NoProfile]

\* Builtin profiles and curves are defined in code and never persisted.
File == [kind: {"missing", "corrupt", "file"},
         profiles: ProfileMap,
         curves: SUBSET UserCurve]
OnDisk(f) == f \in File /\ f.profiles = UserPart(f.profiles)

\* Seeded fault: any user profile of the power source suppresses the builtin.
HasUserDefault_Fault(p, s) ==
  \E i \in UserId : p[i] # NoProfile /\ p[i].power = s

HasUserDefault(p, s) == \E i \in UserId : DefaultOf(p, i, s)

\* The last loop of load_profiles: a builtin yields to a user default of its
\* power source, and is inserted (never overwriting) otherwise.
Seed(p) ==
  [i \in ProfileId |->
     IF i \in UserId THEN p[i]
     ELSE LET s == CHOOSE t \in PowerState : BuiltinId(t) = i
          IN  IF HasUserDefault(p, s) THEN NoProfile
              ELSE IF p[i] # NoProfile THEN p[i] ELSE BuiltinProfile(s)]

\* Seeded fault: the builtins are written out with the rest.
Document_Fault(p, c) == [kind |-> "file", profiles |-> p, curves |-> c]

\* The document save_profiles builds: builtins stay out of the file.
Document(p, c) ==
  [kind |-> "file", profiles |-> UserPart(p), curves |-> c \ BuiltinCurve]

\* save_profiles truncates the file and then writes it.  It may fail to open
\* the file, which leaves the old one, or be cut short (disk full, a crash),
\* which leaves text that does not parse.  No caller looks at the result.
save_profiles(p, c) ==
  \/ /\ disk' = Document(p, c)
     /\ synced' = TRUE
     /\ UNCHANGED faults
  \/ /\ faults < MaxFaults
     /\ disk' \in {disk, Corrupt}
     /\ synced' = FALSE
     /\ faults' = faults + 1
-----------------------------------------------------------------------------
(* One operator per function of profiles.cpp: what the storage becomes.    *)

\* Another profile than id is the default of s.
OtherDefault(p, id, s) == \E i \in ProfileId \ {id} : DefaultOf(p, i, s)

\* The checks of save_profile that the abstraction keeps.
Accepts(id, p) ==
  /\ id \notin BuiltinIds
  /\ p.curve = NoCurve \/ p.curve \in curves

\* Seeded fault: taking the default does not clear it from the others.
Stored_Fault(id, p) ==
  LET default == /\ p.power # Unassigned
                 /\ p.isDefault \/ ~OtherDefault(profiles, id, p.power)
  IN  [profiles EXCEPT ![id] = [p EXCEPT !.isDefault = default]]

\* profiles after save_profile stores p under id: an assigned profile takes
\* the default when it asks for it or when nobody holds it.
Stored(id, p) ==
  LET default == /\ p.power # Unassigned
                 /\ p.isDefault \/ ~OtherDefault(profiles, id, p.power)
  IN  [i \in ProfileId |->
         IF i = id THEN [p EXCEPT !.isDefault = default]
         ELSE IF default /\ DefaultOf(profiles, i, p.power)
              THEN [profiles[i] EXCEPT !.isDefault = FALSE]
              ELSE profiles[i]]

\* The profiles that may inherit the default when id is deleted.  The code
\* takes the first in key order; ids are abstract here, so it may be any.
Heirs(id) ==
  {i \in ProfileId \ {id} : /\ profiles[i] # NoProfile
                            /\ profiles[i].power = profiles[id].power}

\* Seeded fault: only the default profiles count as users of a curve.
CurveInUse_Fault(c) ==
  \E i \in ProfileId : /\ profiles[i] # NoProfile
                       /\ profiles[i].isDefault
                       /\ profiles[i].curve = c

\* Some profile refers to fan curve c.
CurveInUse(c) ==
  \E i \in ProfileId : profiles[i] # NoProfile /\ profiles[i].curve = c

\* generate_slug: the first of the slugs of a name that is not taken.
FirstFree(slugs, taken) ==
  {slugs[k] : k \in {k \in 1..SlugTries :
                       /\ slugs[k] \notin taken
                       /\ \A j \in 1..(k - 1) : slugs[j] \in taken}}
-----------------------------------------------------------------------------
(* The handlers.  d is the dispatcher thread that runs the command.        *)

save_profile(id, p) ==
  IF Accepts(id, p)
  THEN /\ profiles' = Stored(id, p)
       /\ save_profiles(profiles', curves)
       /\ UNCHANGED curves
  ELSE UNCHANGED <<profiles, curves, disk, synced, faults>>

\* handle_save_profile with an id: an update, or a create under a chosen id.
UpdateProfile(d, id, p) ==
  /\ running
  /\ pending[d] = Idle
  /\ save_profile(id, p)
  /\ UNCHANGED <<running, pending>>

\* handle_save_profile without an id: the slug is generated, the lock released.
NameProfile(d, n, p) ==
  /\ running
  /\ pending[d] = Idle
  /\ \E id \in FirstFree(ProfileSlug[n],
                         {i \in ProfileId : profiles[i] # NoProfile}) :
       pending' = [pending EXCEPT
                     ![d] = [op |-> "profile", id |-> id, profile |-> p]]
  /\ UNCHANGED <<running, profiles, curves, disk, synced, faults>>

\* The second critical section stores the profile under the slug, whatever the
\* other dispatcher has stored there since.
CreateProfile(d) ==
  /\ running
  /\ pending[d] \in NewProfile
  /\ save_profile(pending[d].id, pending[d].profile)
  /\ pending' = [pending EXCEPT ![d] = Idle]
  /\ UNCHANGED running

DeleteProfile(d, id) ==
  /\ running
  /\ pending[d] = Idle
  /\ id \notin BuiltinIds
  /\ profiles[id] # NoProfile
  /\ \/ /\ profiles[id].power # Unassigned
        /\ profiles[id].isDefault
        /\ \E h \in Heirs(id) :
             profiles' = [profiles EXCEPT ![h].isDefault = TRUE,
                                          ![id] = NoProfile]
     \/ /\ \/ profiles[id].power = Unassigned
           \/ ~profiles[id].isDefault
           \/ Heirs(id) = {}
        /\ profiles' = [profiles EXCEPT ![id] = NoProfile]
  /\ save_profiles(profiles', curves)
  /\ UNCHANGED <<running, curves, pending>>

\* Seeded fault: the handler forgets to save after storing the curve.
save_fan_curve_Fault(c) ==
  /\ c \notin BuiltinCurve \cup BuiltinCase
  /\ curves' = curves \cup {c}
  /\ UNCHANGED <<profiles, disk, synced, faults>>

save_fan_curve(c) ==
  IF c \notin BuiltinCurve \cup BuiltinCase
  THEN /\ curves' = curves \cup {c}
       /\ save_profiles(profiles, curves')
       /\ UNCHANGED profiles
  ELSE UNCHANGED <<profiles, curves, disk, synced, faults>>

UpdateFanCurve(d, c) ==
  /\ running
  /\ pending[d] = Idle
  /\ save_fan_curve(c)
  /\ UNCHANGED <<running, pending>>

NameFanCurve(d, n) ==
  /\ running
  /\ pending[d] = Idle
  /\ \E c \in FirstFree(CurveSlug[n], curves) :
       pending' = [pending EXCEPT ![d] = [op |-> "curve", id |-> c]]
  /\ UNCHANGED <<running, profiles, curves, disk, synced, faults>>

CreateFanCurve(d) ==
  /\ running
  /\ pending[d] \in NewCurve
  /\ save_fan_curve(pending[d].id)
  /\ pending' = [pending EXCEPT ![d] = Idle]
  /\ UNCHANGED running

DeleteFanCurve(d, c) ==
  /\ running
  /\ pending[d] = Idle
  /\ c \in curves \ BuiltinCurve
  /\ ~CurveInUse(c)
  /\ curves' = curves \ {c}
  /\ save_profiles(profiles, curves')
  /\ UNCHANGED <<running, profiles, pending>>

\* handle_restore_defaults clears every profile, and the user's fan curves.  D-Bus
\* has no method for it; here either dispatcher runs every command.
RestoreDefaults(d) ==
  /\ running
  /\ pending[d] = Idle
  /\ profiles' = EmptyMap
  /\ curves' = curves \cap BuiltinCurve
  /\ save_profiles(profiles', curves')
  /\ UNCHANGED <<running, pending>>
-----------------------------------------------------------------------------
(* load_profiles at start-up, one action per path through it.              *)

LoadMissing ==
  /\ ~running
  /\ disk.kind = "missing"
  /\ running' = TRUE
  /\ profiles' = Seed(EmptyMap)
  /\ curves' = BuiltinCurve
  /\ save_profiles(profiles', curves')
  /\ UNCHANGED pending

\* The file exists but cannot be opened: an early return, before the seeding.
LoadUnreadable ==
  /\ ~running
  /\ disk.kind # "missing"
  /\ faults < MaxFaults
  /\ running' = TRUE
  /\ profiles' = EmptyMap
  /\ curves' = BuiltinCurve
  /\ disk' \in {disk, Corrupt, Document(EmptyMap, BuiltinCurve)}
  /\ synced' = FALSE
  /\ faults' = faults + 1
  /\ UNCHANGED pending

LoadCorrupt ==
  /\ ~running
  /\ disk.kind = "corrupt"
  /\ running' = TRUE
  /\ profiles' = Seed(EmptyMap)
  /\ curves' = BuiltinCurve
  /\ save_profiles(EmptyMap, BuiltinCurve)
  /\ UNCHANGED pending

LoadFile ==
  /\ ~running
  /\ disk.kind = "file"
  /\ running' = TRUE
  /\ profiles' = Seed(disk.profiles)
  /\ curves' = BuiltinCurve \cup disk.curves
  /\ synced' = TRUE
  /\ UNCHANGED <<disk, pending, faults>>

\* The process ends, orderly or not, between two critical sections.  (Ending
\* within one is a short write followed by Exit.)  Memory is lost; profiles
\* and curves keep their last values until the next start reads the file.
Exit ==
  /\ running
  /\ running' = FALSE
  /\ pending' = [d \in Dispatcher |-> Idle]
  /\ UNCHANGED <<profiles, curves, disk, synced, faults>>

Load == LoadMissing \/ LoadUnreadable \/ LoadCorrupt \/ LoadFile
-----------------------------------------------------------------------------
Init ==
  /\ running = FALSE
  /\ profiles = EmptyMap
  /\ curves = BuiltinCurve
  /\ disk = Missing
  /\ pending = [d \in Dispatcher |-> Idle]
  /\ synced = FALSE
  /\ faults = 0

Command(d) ==
  \/ \E id \in ProfileId, p \in Offered : UpdateProfile(d, id, p)
  \/ \E n \in Name, p \in Offered : NameProfile(d, n, p)
  \/ CreateProfile(d)
  \/ \E id \in ProfileId : DeleteProfile(d, id)
  \/ \E c \in CurveId : UpdateFanCurve(d, c)
  \/ \E n \in Name : NameFanCurve(d, n)
  \/ CreateFanCurve(d)
  \/ \E c \in CurveId : DeleteFanCurve(d, c)
  \/ RestoreDefaults(d)

Next == Load \/ Exit \/ \E d \in Dispatcher : Command(d)

Spec == Init /\ [][Next]_vars
-----------------------------------------------------------------------------
\* Every variable has its type; no builtin profile or curve gets into the file.
TypeOK ==
  /\ running \in BOOLEAN
  /\ profiles \in ProfileMap
  /\ curves \in SUBSET CurveId
  /\ OnDisk(disk)
  /\ pending \in [Dispatcher -> {Idle} \cup NewProfile \cup NewCurve]
  /\ synced \in BOOLEAN
  /\ faults \in 0..MaxFaults

\* At most one profile in map p is the default of a power source.
OneDefault(p) ==
  \A s \in PowerState : \A i, j \in ProfileId :
    DefaultOf(p, i, s) /\ DefaultOf(p, j, s) => i = j

\* Every Fixed profile of map p refers to a fan curve in c.
CurvesExist(p, c) ==
  \A i \in ProfileId :
    p[i] # NoProfile => p[i].curve \in c \cup {NoCurve}

\* No power source ever has two default profiles, through saves, promotions on
\* delete, creations by two dispatchers at once, failed writes and restarts:
\* apply_all_settings and main() take the first default they meet.
AtMostOneDefault == OneDefault(profiles)

\* No profile refers to a fan curve that is gone: save_profile checks the curve
\* and delete_fan_curve its users in the critical section that changes the map,
\* and profiles and curves are saved and loaded together.
NoDanglingCurve == CurvesExist(profiles, curves)

\* After a save that wrote the whole file, a restart brings back exactly the
\* user profiles and the fan curves that were in memory.
ReloadFaithful ==
  running /\ synced =>
    /\ disk.kind = "file"
    /\ UserPart(Seed(disk.profiles)) = UserPart(profiles)
    /\ BuiltinCurve \cup disk.curves = curves

\* After such a save a restart also leaves every default where it is: the user's
\* default still suppresses the builtin profile of its power source, and a
\* builtin profile that is the default, though never in the file, is so again.
RestartKeepsDefaults ==
  running /\ synced =>
    \A s \in PowerState, i \in ProfileId :
      DefaultOf(profiles, i, s) => DefaultOf(Seed(disk.profiles), i, s)
=============================================================================
