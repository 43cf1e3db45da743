-------------------------- MODULE ProfileStoreProofs --------------------------
(***************************************************************************)
(* Proofs about ProfileStore for every set of power sources, ids, curves   *)
(* and dispatchers, and every number of failed writes.                     *)
(***************************************************************************)
EXTENDS ProfileStore, TLAPS

\* What memory satisfies: the invariants, and that an entry under a builtin id
\* belongs to that builtin's power source (Seed may have to tell them apart).
MemoryOK(p, c) ==
  /\ p \in ProfileMap
  /\ c \in SUBSET CurveId
  /\ BuiltinCurve \subseteq c
  /\ OneDefault(p)
  /\ CurvesExist(p, c)
  /\ \A s \in PowerState :
       p[BuiltinId(s)] # NoProfile => p[BuiltinId(s)].power = s

\* What the file satisfies: the same (OnDisk: it holds user entries only).
FileOK(f) ==
  /\ OnDisk(f)
  /\ OneDefault(f.profiles)
  /\ CurvesExist(f.profiles, f.curves \cup BuiltinCurve)

\* The inductive invariant.  AtMostOneDefault and NoDanglingCurve alone are not
\* inductive: Load replaces memory by the file, so the file must satisfy them
\* too; and what a restart finds is known only through the last conjunct.
IInv ==
  /\ running \in BOOLEAN
  /\ pending \in [Dispatcher -> {Idle} \cup NewProfile \cup NewCurve]
  /\ MemoryOK(profiles, curves)
  /\ FileOK(disk)
  /\ synced \in BOOLEAN
  /\ faults \in 0..MaxFaults
  /\ running /\ synced => disk = Document(profiles, curves)
-----------------------------------------------------------------------------
(* Facts about the data operators.                                         *)

\* Each power source has a builtin profile of its own.
LEMMA BuiltinIdInjective ==
  \A s, t \in PowerState : BuiltinId(s) = BuiltinId(t) => s = t
BY DEF BuiltinId

\* Seed's CHOOSE recovers the power source of a builtin id.
LEMMA BuiltinSource ==
  ASSUME NEW s \in PowerState
  PROVE  (CHOOSE t \in PowerState : BuiltinId(t) = BuiltinId(s)) = s
BY BuiltinIdInjective

\* A builtin profile is for its source and on a builtin curve.
LEMMA BuiltinProfileType ==
  \A s \in PowerState : /\ BuiltinProfile(s) \in Profile
                        /\ BuiltinProfile(s).power = s
                        /\ BuiltinProfile(s).curve \in BuiltinCurve
<1>1. (CHOOSE c \in BuiltinCurve : TRUE) \in BuiltinCurve
  BY BuiltinCurveAssumption
<1>2. QED
  BY <1>1 DEF BuiltinProfile, Profile, CurveId

\* What Seed makes of each kind of id.
LEMMA SeedAt ==
  ASSUME NEW p \in ProfileMap
  PROVE  /\ \A i \in UserId : Seed(p)[i] = p[i]
         /\ \A s \in PowerState :
              Seed(p)[BuiltinId(s)] =
                IF HasUserDefault(p, s) THEN NoProfile
                ELSE IF p[BuiltinId(s)] # NoProfile THEN p[BuiltinId(s)]
                     ELSE BuiltinProfile(s)
<1>1. ASSUME NEW i \in UserId PROVE Seed(p)[i] = p[i]
  BY <1>1 DEF Seed, ProfileId
<1>2. ASSUME NEW s \in PowerState
      PROVE  Seed(p)[BuiltinId(s)] =
                IF HasUserDefault(p, s) THEN NoProfile
                ELSE IF p[BuiltinId(s)] # NoProfile THEN p[BuiltinId(s)]
                     ELSE BuiltinProfile(s)
  <2>1. BuiltinId(s) \in ProfileId /\ BuiltinId(s) \notin UserId
    BY ConstantAssumption DEF ProfileId, BuiltinIds
  <2>2. QED
    BY <2>1, BuiltinSource DEF Seed
<1>3. QED
  BY <1>1, <1>2

\* A file holds nothing under a builtin id.
LEMMA FileUserOnly ==
  ASSUME NEW f, OnDisk(f)
  PROVE  /\ f.profiles \in ProfileMap
         /\ f.curves \subseteq UserCurve
         /\ \A i \in BuiltinIds : f.profiles[i] = NoProfile
<1>1. f.profiles \in ProfileMap /\ f.curves \subseteq UserCurve
  BY DEF OnDisk, File
<1>2. f.profiles = UserPart(f.profiles)
  BY DEF OnDisk, File
<1>3. ASSUME NEW i \in BuiltinIds PROVE f.profiles[i] = NoProfile
  <2>1. i \in ProfileId /\ i \notin UserId
    BY ConstantAssumption DEF ProfileId
  <2>2. UserPart(f.profiles)[i] = NoProfile
    BY <2>1 DEF UserPart
  <2>3. QED
    BY <1>2, <2>2
<1>4. QED
  BY <1>1, <1>3

\* The empty store and a file that gives nothing.
LEMMA EmptyOK ==
  /\ EmptyMap \in ProfileMap
  /\ MemoryOK(EmptyMap, BuiltinCurve)
  /\ FileOK(Missing)
  /\ FileOK(Corrupt)
<1>1. \A i \in ProfileId : EmptyMap[i] = NoProfile
  BY DEF EmptyMap
<1>2. EmptyMap \in ProfileMap
  BY DEF EmptyMap, ProfileMap
<1>3. BuiltinIds \subseteq ProfileId /\ \A s \in PowerState : BuiltinId(s) \in ProfileId
  BY DEF ProfileId, BuiltinIds
<1>4. OneDefault(EmptyMap) /\ \A c : CurvesExist(EmptyMap, c)
  BY <1>1 DEF OneDefault, DefaultOf, CurvesExist
<1>5. MemoryOK(EmptyMap, BuiltinCurve)
  BY <1>1, <1>2, <1>3, <1>4 DEF MemoryOK, CurveId
<1>6. UserPart(EmptyMap) = EmptyMap
  BY DEF UserPart, EmptyMap
<1>7. FileOK(Missing)
  BY <1>2, <1>4, <1>6 DEF FileOK, Missing, OnDisk, File
<1>8. FileOK(Corrupt)
  BY <1>2, <1>4, <1>6 DEF FileOK, Corrupt, OnDisk, File
<1>9. QED
  BY <1>2, <1>5, <1>7, <1>8

\* Seeding what a good file holds gives a good memory with the same user part.
LEMMA SeedOK ==
  ASSUME NEW f, FileOK(f)
  PROVE  /\ MemoryOK(Seed(f.profiles), BuiltinCurve \cup f.curves)
         /\ UserPart(Seed(f.profiles)) = f.profiles
<1> DEFINE p == f.profiles
           q == Seed(p)
           c == BuiltinCurve \cup f.curves
<1>1. p \in ProfileMap /\ c \in SUBSET CurveId
  BY FileUserOnly DEF FileOK, CurveId
<1>2. \A s \in PowerState :
        /\ p[BuiltinId(s)] = NoProfile
        /\ q[BuiltinId(s)] =
             IF HasUserDefault(p, s) THEN NoProfile ELSE BuiltinProfile(s)
  BY <1>1, SeedAt, FileUserOnly DEF FileOK, BuiltinIds
<1>3. \A i \in UserId : q[i] = p[i]
  BY <1>1, SeedAt
<1>4. \A i \in ProfileId : i \in UserId \/ \E s \in PowerState : i = BuiltinId(s)
  BY DEF ProfileId, BuiltinIds
<1>5. q \in ProfileMap
  <2>1. \A i \in ProfileId : q[i] \in Profile \cup {NoProfile}
    BY <1>1, <1>2, <1>3, <1>4, BuiltinProfileType DEF ProfileMap
  <2>2. q = [i \in ProfileId |-> q[i]]
    BY DEF Seed
  <2>3. QED
    BY <2>1, <2>2 DEF ProfileMap
<1>6. OneDefault(q)
  <2>1. SUFFICES ASSUME NEW s \in PowerState, NEW i \in ProfileId, NEW j \in ProfileId,
                        DefaultOf(q, i, s), DefaultOf(q, j, s)
                 PROVE  i = j
    BY DEF OneDefault
  <2>2. \A t \in PowerState :
          DefaultOf(q, BuiltinId(t), s) => t = s /\ ~HasUserDefault(p, s)
    BY <1>2, BuiltinProfileType DEF DefaultOf
  <2>3. \A k \in UserId :
          DefaultOf(q, k, s) => DefaultOf(p, k, s) /\ HasUserDefault(p, s)
    BY <1>3 DEF DefaultOf, HasUserDefault
  <2>4. UserId \subseteq ProfileId
    BY DEF ProfileId
  <2>5. QED
    BY <1>4, <2>1, <2>2, <2>3, <2>4 DEF FileOK, OneDefault
<1>7. CurvesExist(q, c)
  BY <1>2, <1>3, <1>4, BuiltinProfileType DEF CurvesExist, FileOK, ProfileId
<1>8. MemoryOK(q, c)
  BY <1>1, <1>2, <1>5, <1>6, <1>7, BuiltinProfileType DEF MemoryOK
<1>9. UserPart(q) = p
  <2>1. \A i \in ProfileId : UserPart(q)[i] = p[i]
    BY <1>2, <1>3, <1>4 DEF UserPart
  <2>2. QED
    BY <1>1, <2>1 DEF UserPart, ProfileMap
<1>10. QED
  BY <1>8, <1>9

\* What save_profiles writes of a good memory is a good file.
LEMMA DocumentOK ==
  ASSUME NEW p, NEW c, MemoryOK(p, c)
  PROVE  FileOK(Document(p, c))
<1> DEFINE f == Document(p, c)
<1>1. /\ f.profiles = UserPart(p) /\ f.curves = c \ BuiltinCurve
      /\ f.kind = "file"
  BY DEF Document
<1>2. \A i \in ProfileId :
        UserPart(p)[i] = IF i \in UserId THEN p[i] ELSE NoProfile
  BY DEF UserPart
<1>3. UserPart(p) \in ProfileMap
  BY DEF UserPart, MemoryOK, ProfileMap
<1>4. f.curves \subseteq UserCurve
  BY <1>1 DEF MemoryOK, CurveId
<1>5. UserPart(UserPart(p)) = UserPart(p)
  BY <1>2 DEF UserPart
<1>6. OnDisk(f)
  BY <1>1, <1>3, <1>4, <1>5 DEF Document, OnDisk, File
<1>7. OneDefault(f.profiles)
  BY <1>1, <1>2 DEF OneDefault, DefaultOf, MemoryOK
<1>8. CurvesExist(f.profiles, f.curves \cup BuiltinCurve)
  BY <1>1, <1>2 DEF CurvesExist, MemoryOK
<1>9. QED
  BY <1>6, <1>7, <1>8 DEF FileOK

\* save_profiles leaves a good file behind, whole, old or corrupt.
LEMMA SaveOK ==
  ASSUME NEW p, NEW c, MemoryOK(p, c), FileOK(disk), faults \in 0..MaxFaults,
         save_profiles(p, c)
  PROVE  /\ FileOK(disk)'
         /\ synced' \in BOOLEAN
         /\ faults' \in 0..MaxFaults
         /\ synced' => disk' = Document(p, c)
<1>1. FileOK(Document(p, c)) /\ FileOK(Corrupt)
  BY DocumentOK, EmptyOK
<1>2. disk' \in {Document(p, c), disk, Corrupt}
  BY DEF save_profiles
<1>3. FileOK(disk')
  BY <1>1, <1>2
<1>4. FileOK(disk') <=> FileOK(disk)'
  BY DEF FileOK
<1>5. synced' \in BOOLEAN
  BY DEF save_profiles
<1>6. faults' \in 0..MaxFaults
  BY ConstantAssumption DEF save_profiles, ConstantAssumption
<1>7. synced' => disk' = Document(p, c)
  BY DEF save_profiles
<1>8. QED
  BY <1>3, <1>4, <1>5, <1>6, <1>7
-----------------------------------------------------------------------------
(* What the handlers compute of a good memory.                             *)

\* save_profile: storing an accepted profile keeps the storage good.
LEMMA StoredOK ==
  ASSUME NEW id \in ProfileId, NEW p \in Profile,
         MemoryOK(profiles, curves), Accepts(id, p)
  PROVE  MemoryOK(Stored(id, p), curves)
<1> DEFINE default == /\ p.power # Unassigned
                      /\ p.isDefault \/ ~OtherDefault(profiles, id, p.power)
           q == Stored(id, p)
<1>1. default \in BOOLEAN
  OBVIOUS
<1>2. \A i \in ProfileId :
        q[i] = IF i = id THEN [p EXCEPT !.isDefault = default]
               ELSE IF default /\ DefaultOf(profiles, i, p.power)
                    THEN [profiles[i] EXCEPT !.isDefault = FALSE]
                    ELSE profiles[i]
  BY DEF Stored
<1>3. /\ [p EXCEPT !.isDefault = default] \in Profile
      /\ [p EXCEPT !.isDefault = default].power = p.power
      /\ [p EXCEPT !.isDefault = default].curve = p.curve
      /\ [p EXCEPT !.isDefault = default].isDefault = default
  BY <1>1 DEF Profile
<1>4. \A i \in ProfileId : profiles[i] # NoProfile => profiles[i] \in Profile
  BY DEF MemoryOK, ProfileMap
<1>5. \A i \in ProfileId : profiles[i] # NoProfile =>
        /\ [profiles[i] EXCEPT !.isDefault = FALSE] \in Profile
        /\ [profiles[i] EXCEPT !.isDefault = FALSE].power = profiles[i].power
        /\ [profiles[i] EXCEPT !.isDefault = FALSE].curve = profiles[i].curve
        /\ [profiles[i] EXCEPT !.isDefault = FALSE].isDefault = FALSE
  BY <1>4 DEF Profile
<1>6. NoProfile \notin Profile
  BY ConstantAssumption
<1>7. q \in ProfileMap
  <2>1. \A i \in ProfileId : q[i] \in Profile \cup {NoProfile}
    BY <1>2, <1>3, <1>4, <1>5 DEF DefaultOf
  <2>2. QED
    BY <2>1 DEF Stored, ProfileMap
<1>8. OneDefault(q)
  <2>1. SUFFICES ASSUME NEW s \in PowerState, NEW i \in ProfileId, NEW j \in ProfileId,
                        DefaultOf(q, i, s), DefaultOf(q, j, s)
                 PROVE  i = j
    BY DEF OneDefault
  <2>2. \A k \in ProfileId \ {id} :
          DefaultOf(q, k, s) => /\ DefaultOf(profiles, k, s)
                                /\ ~(default /\ p.power = s)
    BY <1>2, <1>5 DEF DefaultOf
  <2>3. DefaultOf(q, id, s) => default /\ p.power = s
    BY <1>2, <1>3 DEF DefaultOf
  <2>4. QED
    BY <2>1, <2>2, <2>3 DEF MemoryOK, OneDefault
<1>9. CurvesExist(q, curves)
  BY <1>2, <1>3, <1>5, <1>6 DEF CurvesExist, MemoryOK, Accepts, DefaultOf
<1>10. \A s \in PowerState :
         q[BuiltinId(s)] # NoProfile => q[BuiltinId(s)].power = s
  BY <1>2, <1>5 DEF MemoryOK, Accepts, BuiltinIds, ProfileId, DefaultOf
<1>11. QED
  BY <1>7, <1>8, <1>9, <1>10 DEF MemoryOK

\* delete_profile, with or without a promotion.
LEMMA DeletedOK ==
  ASSUME MemoryOK(profiles, curves), NEW d, NEW id \in ProfileId,
         DeleteProfile(d, id)
  PROVE  MemoryOK(profiles', curves)
<1> USE DEF MemoryOK
<1>1. \A i \in ProfileId : profiles[i] # NoProfile => profiles[i] \in Profile
  BY DEF ProfileMap
<1>2. CASE /\ profiles[id].power # Unassigned
           /\ profiles[id].isDefault
           /\ \E h \in Heirs(id) :
                profiles' = [profiles EXCEPT ![h].isDefault = TRUE,
                                             ![id] = NoProfile]
  <2>1. PICK h \in Heirs(id) :
          profiles' = [profiles EXCEPT ![h].isDefault = TRUE, ![id] = NoProfile]
    BY <1>2
  <2>2. /\ h \in ProfileId /\ h # id /\ profiles[h] \in Profile
        /\ profiles[h] # NoProfile /\ profiles[h].power = profiles[id].power
    BY <1>1 DEF Heirs
  <2>3. /\ profiles'[id] = NoProfile
        /\ profiles'[h] = [profiles[h] EXCEPT !.isDefault = TRUE]
        /\ \A i \in ProfileId \ {id, h} : profiles'[i] = profiles[i]
    BY <2>1, <2>2 DEF ProfileMap
  <2>4. /\ profiles'[h] \in Profile
        /\ profiles'[h].power = profiles[h].power
        /\ profiles'[h].curve = profiles[h].curve
        /\ profiles'[h].isDefault
    BY <2>2, <2>3 DEF Profile
  <2>5. profiles' \in ProfileMap
    BY <1>1, <2>1, <2>2, <2>4 DEF ProfileMap
  <2>6. OneDefault(profiles')
    <3>1. SUFFICES ASSUME NEW s \in PowerState, NEW i \in ProfileId, NEW j \in ProfileId,
                          DefaultOf(profiles', i, s), DefaultOf(profiles', j, s)
                   PROVE  i = j
      BY DEF OneDefault
    <3>2. DefaultOf(profiles, id, s) \/ s # profiles[id].power
      BY <1>2 DEF DeleteProfile, DefaultOf
    <3>3. \A k \in ProfileId \ {id, h} :
            DefaultOf(profiles', k, s) => DefaultOf(profiles, k, s)
      BY <2>3 DEF DefaultOf
    <3>4. ~DefaultOf(profiles', id, s)
      BY <2>3 DEF DefaultOf
    <3>5. DefaultOf(profiles', h, s) => s = profiles[id].power
      BY <2>2, <2>4 DEF DefaultOf
    <3>6. QED
      BY <3>1, <3>2, <3>3, <3>4, <3>5 DEF OneDefault
  <2>7. CurvesExist(profiles', curves)
    BY <2>2, <2>3, <2>4 DEF CurvesExist
  <2>8. \A s \in PowerState :
          profiles'[BuiltinId(s)] # NoProfile => profiles'[BuiltinId(s)].power = s
    BY <2>2, <2>3, <2>4 DEF ProfileId, BuiltinIds
  <2>9. QED
    BY <2>5, <2>6, <2>7, <2>8
<1>3. CASE profiles' = [profiles EXCEPT ![id] = NoProfile]
  <2>1. /\ profiles'[id] = NoProfile
        /\ \A i \in ProfileId \ {id} : profiles'[i] = profiles[i]
        /\ profiles' \in ProfileMap
    BY <1>3 DEF ProfileMap
  <2>2. OneDefault(profiles') /\ CurvesExist(profiles', curves)
    BY <2>1 DEF OneDefault, DefaultOf, CurvesExist
  <2>3. \A s \in PowerState :
          profiles'[BuiltinId(s)] # NoProfile => profiles'[BuiltinId(s)].power = s
    BY <2>1 DEF ProfileId, BuiltinIds
  <2>4. QED
    BY <2>1, <2>2, <2>3
<1>4. QED
  BY <1>2, <1>3 DEF DeleteProfile
-----------------------------------------------------------------------------
(* The invariant is inductive.                                             *)

\* The part of IInv that the handlers' data changes can disturb.
StorageOK ==
  /\ MemoryOK(profiles, curves)
  /\ FileOK(disk)
  /\ synced \in BOOLEAN
  /\ faults \in 0..MaxFaults
  /\ running /\ synced => disk = Document(profiles, curves)

\* A handler that computes a good memory and saves it keeps StorageOK.
LEMMA SavedStep ==
  ASSUME StorageOK, MemoryOK(profiles', curves'), save_profiles(profiles', curves')
  PROVE  StorageOK'
<1>1. /\ FileOK(disk)'
      /\ synced' \in BOOLEAN
      /\ faults' \in 0..MaxFaults
      /\ synced' => disk' = Document(profiles', curves')
  BY SaveOK DEF StorageOK
<1>2. QED
  BY <1>1 DEF StorageOK

\* A command the storage rejects keeps StorageOK.
LEMMA RejectedStep ==
  ASSUME StorageOK, UNCHANGED <<running, profiles, curves, disk, synced, faults>>
  PROVE  StorageOK'
BY DEF StorageOK

\* Storing a profile keeps the store and the file.
LEMMA SaveProfileStep ==
  ASSUME StorageOK, UNCHANGED running,
         NEW id \in ProfileId, NEW p \in Profile, save_profile(id, p)
  PROVE  StorageOK'
<1>1. CASE Accepts(id, p)
  <2>1. /\ profiles' = Stored(id, p) /\ curves' = curves
        /\ save_profiles(profiles', curves')
    BY <1>1 DEF save_profile
  <2>2. MemoryOK(profiles', curves')
    BY <1>1, <2>1, StoredOK DEF StorageOK
  <2>3. QED
    BY <2>1, <2>2, SavedStep
<1>2. CASE ~Accepts(id, p)
  BY <1>2, RejectedStep DEF save_profile
<1>3. QED
  BY <1>1, <1>2

\* So does storing a curve.
LEMMA SaveFanCurveStep ==
  ASSUME StorageOK, UNCHANGED running, NEW c \in CurveId, save_fan_curve(c)
  PROVE  StorageOK'
<1>1. CASE c \notin BuiltinCurve \cup BuiltinCase
  <2>1. /\ curves' = curves \cup {c} /\ profiles' = profiles
        /\ save_profiles(profiles', curves')
    BY <1>1 DEF save_fan_curve
  <2>2. MemoryOK(profiles', curves')
    BY <2>1 DEF StorageOK, MemoryOK, CurvesExist
  <2>3. QED
    BY <2>1, <2>2, SavedStep
<1>2. CASE c \in BuiltinCurve \cup BuiltinCase
  BY <1>2, RejectedStep DEF save_fan_curve
<1>3. QED
  BY <1>1, <1>2

\* Every command keeps the invariant.
LEMMA CommandStep ==
  ASSUME IInv, NEW d \in Dispatcher, Command(d)
  PROVE  IInv'
<1> USE DEF IInv, StorageOK
<1>1. ASSUME NEW id \in ProfileId, NEW p \in Offered, UpdateProfile(d, id, p)
      PROVE  IInv'
  <2>1. p \in Profile
    BY ConstantAssumption
  <2>2. StorageOK'
    BY <1>1, <2>1, SaveProfileStep DEF UpdateProfile
  <2>3. QED
    BY <1>1, <2>2 DEF UpdateProfile
<1>2. ASSUME NEW n \in Name, NEW p \in Offered, NameProfile(d, n, p)
      PROVE  IInv'
  <2>1. p \in Profile
    BY ConstantAssumption
  <2>2. FirstFree(ProfileSlug[n],
                  {i \in ProfileId : profiles[i] # NoProfile}) \subseteq ProfileId
    BY ConstantAssumption DEF FirstFree, ProfileId
  <2>3. PICK id \in ProfileId :
          pending' = [pending EXCEPT
                        ![d] = [op |-> "profile", id |-> id, profile |-> p]]
    BY <1>2, <2>2 DEF NameProfile
  <2>4. pending' \in [Dispatcher -> {Idle} \cup NewProfile \cup NewCurve]
    BY <2>1, <2>3 DEF NewProfile
  <2>5. StorageOK'
    BY <1>2, RejectedStep DEF NameProfile
  <2>6. QED
    BY <1>2, <2>4, <2>5 DEF NameProfile
<1>3. ASSUME CreateProfile(d)
      PROVE  IInv'
  <2>1. pending[d].id \in ProfileId /\ pending[d].profile \in Profile
    BY <1>3 DEF CreateProfile, NewProfile
  <2>2. StorageOK'
    BY <1>3, <2>1, SaveProfileStep DEF CreateProfile
  <2>3. QED
    BY <1>3, <2>2 DEF CreateProfile
<1>4. ASSUME NEW id \in ProfileId, DeleteProfile(d, id)
      PROVE  IInv'
  <2>1. /\ MemoryOK(profiles', curves') /\ save_profiles(profiles', curves')
    BY <1>4, DeletedOK DEF DeleteProfile
  <2>2. StorageOK'
    BY <2>1, SavedStep
  <2>3. QED
    BY <1>4, <2>2 DEF DeleteProfile
<1>5. ASSUME NEW c \in CurveId, UpdateFanCurve(d, c)
      PROVE  IInv'
  <2>1. StorageOK'
    BY <1>5, SaveFanCurveStep DEF UpdateFanCurve
  <2>2. QED
    BY <1>5, <2>1 DEF UpdateFanCurve
<1>6. ASSUME NEW n \in Name, NameFanCurve(d, n)
      PROVE  IInv'
  <2>1. FirstFree(CurveSlug[n], curves) \subseteq CurveId
    BY ConstantAssumption DEF FirstFree
  <2>2. PICK c \in CurveId :
          pending' = [pending EXCEPT ![d] = [op |-> "curve", id |-> c]]
    BY <1>6, <2>1 DEF NameFanCurve
  <2>3. pending' \in [Dispatcher -> {Idle} \cup NewProfile \cup NewCurve]
    BY <2>2 DEF NewCurve
  <2>4. StorageOK'
    BY <1>6, RejectedStep DEF NameFanCurve
  <2>5. QED
    BY <1>6, <2>3, <2>4 DEF NameFanCurve
<1>7. ASSUME CreateFanCurve(d)
      PROVE  IInv'
  <2>1. pending[d].id \in CurveId
    BY <1>7 DEF CreateFanCurve, NewCurve
  <2>2. StorageOK'
    BY <1>7, <2>1, SaveFanCurveStep DEF CreateFanCurve
  <2>3. QED
    BY <1>7, <2>2 DEF CreateFanCurve
<1>8. ASSUME NEW c \in CurveId, DeleteFanCurve(d, c)
      PROVE  IInv'
  <2>1. /\ curves' = curves \ {c} /\ profiles' = profiles
        /\ save_profiles(profiles', curves')
    BY <1>8 DEF DeleteFanCurve
  <2>2. MemoryOK(profiles', curves')
    BY <1>8, <2>1 DEF MemoryOK, CurvesExist, DeleteFanCurve, CurveInUse
  <2>3. StorageOK'
    BY <2>1, <2>2, SavedStep
  <2>4. QED
    BY <1>8, <2>3 DEF DeleteFanCurve
<1>9. ASSUME RestoreDefaults(d)
      PROVE  IInv'
  <2>1. curves' = BuiltinCurve
    BY <1>9 DEF RestoreDefaults, MemoryOK
  <2>2. MemoryOK(profiles', curves')
    BY <1>9, <2>1, EmptyOK DEF RestoreDefaults
  <2>3. StorageOK'
    BY <1>9, <2>2, SavedStep DEF RestoreDefaults
  <2>4. QED
    BY <1>9, <2>3 DEF RestoreDefaults
<1>10. QED
  BY <1>1, <1>2, <1>3, <1>4, <1>5, <1>6, <1>7, <1>8, <1>9 DEF Command
\* So does a start,
LEMMA LoadStep ==
  ASSUME IInv, Load
  PROVE  IInv'
<1> USE DEF IInv
<1>1. FileOK(Missing) /\ EmptyMap = Missing.profiles /\ Missing.curves = {}
  BY EmptyOK DEF Missing
<1>2. /\ MemoryOK(Seed(EmptyMap), BuiltinCurve)
      /\ UserPart(Seed(EmptyMap)) = EmptyMap
  <2>1. BuiltinCurve \cup {} = BuiltinCurve
    OBVIOUS
  <2>2. QED
    BY <1>1, <2>1, SeedOK
<1>3. CASE LoadMissing
  <2>1. /\ MemoryOK(profiles', curves') /\ save_profiles(profiles', curves')
    BY <1>2, <1>3 DEF LoadMissing
  <2>2. QED
    BY <1>3, <2>1, SaveOK DEF LoadMissing
<1>4. CASE LoadUnreadable
  <2>1. MemoryOK(EmptyMap, BuiltinCurve)
    BY EmptyOK
  <2>2. FileOK(disk')
    BY <1>4, <2>1, EmptyOK, DocumentOK DEF LoadUnreadable
  <2>3. faults' \in 0..MaxFaults
    BY <1>4, ConstantAssumption DEF LoadUnreadable
  <2>4. QED
    BY <1>4, <2>1, <2>2, <2>3 DEF LoadUnreadable
<1>5. CASE LoadCorrupt
  <2>1. MemoryOK(profiles', curves')
    BY <1>2, <1>5 DEF LoadCorrupt
  <2>2. MemoryOK(EmptyMap, BuiltinCurve) /\ save_profiles(EmptyMap, BuiltinCurve)
    BY <1>5, EmptyOK DEF LoadCorrupt
  <2>3. /\ FileOK(disk)'
        /\ synced' \in BOOLEAN
        /\ faults' \in 0..MaxFaults
        /\ synced' => disk' = Document(EmptyMap, BuiltinCurve)
    BY <2>2, SaveOK
  <2>4. UserPart(EmptyMap) = EmptyMap
    BY DEF UserPart, EmptyMap
  <2>5. Document(EmptyMap, BuiltinCurve) = Document(profiles', curves')
    BY <1>2, <1>5, <2>4 DEF Document, LoadCorrupt
  <2>6. QED
    BY <1>5, <2>1, <2>3, <2>5 DEF LoadCorrupt
<1>6. CASE LoadFile
  <2>1. /\ MemoryOK(profiles', curves')
        /\ UserPart(profiles') = disk.profiles
    BY <1>6, SeedOK DEF LoadFile
  <2>2. curves' \ BuiltinCurve = disk.curves
    BY <1>6, FileUserOnly, ConstantAssumption DEF LoadFile, FileOK
  <2>3. disk = [kind |-> "file", profiles |-> disk.profiles, curves |-> disk.curves]
    BY <1>6 DEF LoadFile, FileOK, OnDisk, File
  <2>4. disk' = Document(profiles', curves')
    BY <1>6, <2>1, <2>2, <2>3 DEF LoadFile, Document
  <2>5. QED
    BY <1>6, <2>1, <2>4 DEF LoadFile
<1>7. QED
  BY <1>3, <1>4, <1>5, <1>6 DEF Load

\* the end of the process,
LEMMA ExitStep ==
  ASSUME IInv, Exit
  PROVE  IInv'
BY DEF IInv, Exit

\* and a step that changes nothing.
LEMMA StutterStep ==
  ASSUME IInv, UNCHANGED vars
  PROVE  IInv'
BY DEF IInv, vars

\* The invariant holds initially and every step preserves it.
THEOREM Invariance == Spec => []IInv
<1>1. Init => IInv
  <2>1. MemoryOK(EmptyMap, BuiltinCurve) /\ FileOK(Missing)
    BY EmptyOK
  <2>2. SUFFICES ASSUME Init PROVE IInv
    OBVIOUS
  <2>3. MemoryOK(profiles, curves) /\ FileOK(disk)
    BY <2>1, <2>2 DEF Init
  <2>4. pending \in [Dispatcher -> {Idle} \cup NewProfile \cup NewCurve]
    BY <2>2 DEF Init
  <2>5. faults \in 0..MaxFaults
    BY <2>2, ConstantAssumption DEF Init
  <2>6. QED
    BY <2>2, <2>3, <2>4, <2>5 DEF Init, IInv
<1>2. IInv /\ [Next]_vars => IInv'
  <2>1. SUFFICES ASSUME IInv, [Next]_vars PROVE IInv'
    OBVIOUS
  <2>2. QED
    BY <2>1, LoadStep, ExitStep, CommandStep, StutterStep DEF Next
<1>3. QED
  BY <1>1, <1>2, PTL DEF Spec
-----------------------------------------------------------------------------
(* What follows for the properties of ProfileStore.                        *)

\* Every variable of the store keeps its type, whatever the ids and sources.
THEOREM TypeCorrect == Spec => []TypeOK
<1>1. IInv => TypeOK
  BY DEF IInv, MemoryOK, FileOK, TypeOK
<1>2. QED
  BY <1>1, Invariance, PTL

\* No reachable state has two default profiles for one power source.
THEOREM UniqueDefault == Spec => []AtMostOneDefault
<1>1. IInv => AtMostOneDefault
  BY DEF IInv, MemoryOK, AtMostOneDefault
<1>2. QED
  BY <1>1, Invariance, PTL

\* No reachable state has a Fixed profile whose fan curve is gone.
THEOREM ReferencesIntact == Spec => []NoDanglingCurve
<1>1. IInv => NoDanglingCurve
  BY DEF IInv, MemoryOK, NoDanglingCurve
<1>2. QED
  BY <1>1, Invariance, PTL

\* A restart after a complete save brings back the user's data exactly.
THEOREM RestartFaithful == Spec => []ReloadFaithful
<1>1. IInv => ReloadFaithful
  <2>1. SUFFICES ASSUME IInv, running, synced
                 PROVE  /\ disk.kind = "file"
                        /\ UserPart(Seed(disk.profiles)) = UserPart(profiles)
                        /\ BuiltinCurve \cup disk.curves = curves
    BY DEF ReloadFaithful
  <2>2. disk = Document(profiles, curves) /\ FileOK(disk) /\ BuiltinCurve \subseteq curves
    BY <2>1 DEF IInv, MemoryOK
  <2>3. /\ disk.kind = "file"
        /\ disk.profiles = UserPart(profiles)
        /\ disk.curves = curves \ BuiltinCurve
    BY <2>2 DEF Document
  <2>4. UserPart(Seed(disk.profiles)) = UserPart(profiles)
    BY <2>2, <2>3, SeedOK
  <2>5. QED
    BY <2>2, <2>3, <2>4
<1>2. QED
  BY <1>1, Invariance, PTL

\* A restart after a complete save keeps every default where it was.
THEOREM DefaultsSurvive == Spec => []RestartKeepsDefaults
<1>1. IInv => RestartKeepsDefaults
  <2>1. SUFFICES ASSUME IInv, running, synced,
                        NEW s \in PowerState, NEW i \in ProfileId,
                        DefaultOf(profiles, i, s)
                 PROVE  DefaultOf(Seed(disk.profiles), i, s)
    BY DEF RestartKeepsDefaults
  <2>2. MemoryOK(profiles, curves) /\ FileOK(disk)
    BY <2>1 DEF IInv
  <2>3. /\ disk.profiles \in ProfileMap
        /\ \A j \in UserId : disk.profiles[j] = profiles[j]
        /\ \A j \in BuiltinIds : disk.profiles[j] = NoProfile
    <3>1. disk.profiles = UserPart(profiles)
      BY <2>1 DEF IInv, Document
    <3>2. \A j \in UserId : UserPart(profiles)[j] = profiles[j]
      BY DEF UserPart, ProfileId
    <3>3. QED
      BY <2>2, <3>1, <3>2, FileUserOnly DEF FileOK
  <2>4. CASE i \in UserId
    BY <2>1, <2>3, <2>4, SeedAt DEF DefaultOf
  <2>5. CASE i \notin UserId
    \* The default is a builtin profile, so no user profile holds it.
    <3>1. PICK t \in PowerState : i = BuiltinId(t)
      BY <2>5 DEF ProfileId, BuiltinIds
    <3>2. t = s
      BY <2>1, <2>2, <3>1 DEF MemoryOK, DefaultOf
    <3>3. ~HasUserDefault(disk.profiles, s)
      <4>1. \A j \in UserId : j \in ProfileId
        BY DEF ProfileId
      <4>2. \A j \in UserId : ~DefaultOf(profiles, j, s)
        BY <2>1, <2>2, <2>5, <4>1 DEF MemoryOK, OneDefault
      <4>3. QED
        BY <2>3, <4>2 DEF HasUserDefault, DefaultOf
    <3>4. Seed(disk.profiles)[i] = BuiltinProfile(s)
      BY <2>3, <3>1, <3>2, <3>3, SeedAt DEF BuiltinIds
    <3>5. BuiltinProfile(s).power = s /\ BuiltinProfile(s).isDefault
      BY BuiltinProfileType DEF BuiltinProfile
    <3>6. QED
      BY <3>4, <3>5, BuiltinProfileType, ConstantAssumption DEF DefaultOf
  <2>6. QED
    BY <2>4, <2>5
<1>2. QED
  BY <1>1, Invariance, PTL
=============================================================================
