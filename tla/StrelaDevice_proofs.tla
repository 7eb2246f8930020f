------------------------- MODULE StrelaDevice_proofs -------------------------
(***************************************************************************)
(* Proofs about the life of a device, for any sets of allocators and       *)
(* channel providers.                                                      *)
(*                                                                         *)
(* The three properties need each other and, above all, the stages: what   *)
(* destruction releases is what creation, and the calls in between, have   *)
(* taken, only because each stage fixes which fields are set.  IInv says   *)
(* so.                                                                     *)
(***************************************************************************)
EXTENDS StrelaDevice, TLAPS

Stages == {"none", "proactor", "init", "allocator", "live", "newAllocator",
           "newProvider", "destroy", "release", "deinit"}

Usable == {"live", "newAllocator", "newProvider"}

Creating == {"proactor", "init", "allocator"}

TypeInv ==
  /\ driver \in BOOLEAN /\ dev \in BOOLEAN /\ axis \in BOOLEAN /\ given \in BOOLEAN
  /\ identifier \in {Null, "device"}
  /\ stage \in Stages
  /\ refs \in [Objects -> Int]
  /\ app \in SUBSET Shared
  /\ pool \in {Null, Pool}
  /\ allocator \in {Null, OwnAllocator} \cup Allocators
  /\ provider \in {Null} \cup Providers
  /\ tracker \in {Null, Tracker}
  /\ incoming \in {Null, OwnAllocator} \cup Allocators \cup Providers

(* Which fields are set in which stage.                                    *)
StageInv ==
  /\ stage \in {"none", "deinit"} => pool = Null /\ allocator = Null
  /\ stage \notin {"none", "deinit"} => pool = Pool
  /\ stage \in Creating => allocator = Null
  /\ stage \notin Usable \cup {"destroy", "release"} => provider = Null
  /\ stage \notin Usable \cup {"destroy"} => tracker = Null
  /\ stage \in Usable => allocator # Null
  /\ stage = "newAllocator" => incoming \in {OwnAllocator} \cup Allocators
  /\ stage = "newProvider" => incoming \in Providers
  /\ stage \notin {"newAllocator", "newProvider"} => incoming = Null
  /\ stage \in Usable \cup {"allocator"} => dev
  /\ stage \in {"none", "proactor", "init"} => ~dev
  /\ given <=> stage \in Usable
  /\ axis <=> tracker # Null

IInv == TypeInv /\ StageInv /\ RefsBalanced

-----------------------------------------------------------------------------
(* No object can be in two fields.                                         *)
LEMMA FieldsApart ==
  ASSUME TypeInv
  PROVE  /\ pool # Null => pool \notin {allocator, provider, tracker}
         /\ allocator # Null => allocator \notin {pool, provider, tracker}
         /\ provider # Null => provider \notin {pool, allocator, tracker}
         /\ tracker # Null => tracker \notin {pool, allocator, provider}
  BY DeviceAssumption DEF TypeInv, Shared, Objects

LEMMA Initially == Init => IInv
  <1> SUFFICES ASSUME Init PROVE IInv
    OBVIOUS
  <1> USE DEF Init
  <1>1. TypeInv
    <2>1. /\ driver \in BOOLEAN /\ dev \in BOOLEAN
          /\ axis \in BOOLEAN /\ given \in BOOLEAN
      BY Zenon
    <2>2. refs \in [Objects -> Int]
      BY SMT
    <2>3. app \in SUBSET Shared
      BY Zenon
    <2> QED BY <2>1, <2>2, <2>3 DEF TypeInv, Stages
  <1>2. StageInv
    BY DEF StageInv, Creating, Usable
  <1>3. RefsBalanced
    BY DeviceAssumption DEF RefsBalanced, Shared, Objects
  <1> QED BY <1>1, <1>2, <1>3 DEF IInv

(* Retaining and releasing change one count.                               *)
LEMMA RetainOne ==
  ASSUME TypeInv, NEW o \in Objects
  PROVE  /\ Retain(o) \in [Objects -> Int]
         /\ \A x \in Objects : Retain(o)[x] = IF x = o THEN refs[x] + 1 ELSE refs[x]
  BY DEF TypeInv, Retain

LEMMA ReleaseOne ==
  ASSUME NEW r \in [Objects -> Int], NEW o \in Objects \cup {Null}
  PROVE  /\ ReleaseFrom(r, o) \in [Objects -> Int]
         /\ \A x \in Objects : ReleaseFrom(r, o)[x] = IF x = o THEN r[x] - 1 ELSE r[x]
  BY DeviceAssumption DEF ReleaseFrom

-----------------------------------------------------------------------------
(* Creation and destruction of the driver touch nothing of the device.     *)
LEMMA DriverSteps ==
  ASSUME IInv, DestroyDriver \/ \E name \in Names : TryCreateDriver(name)
  PROVE  IInv'
  <1>1. driver' \in BOOLEAN
    BY Zenon DEF DestroyDriver, TryCreateDriver, DriverCreate
  <1>2. UNCHANGED <<identifier, stage, refs, app, pool, allocator, provider,
                    tracker, incoming, dev, axis, given>>
    BY Zenon DEF DestroyDriver, TryCreateDriver
  <1>3. TypeInv'
    BY <1>1, <1>2 DEF IInv, TypeInv
  <1>4. StageInv' /\ RefsBalanced'
    BY <1>2 DEF IInv, StageInv, RefsBalanced
  <1> QED BY <1>3, <1>4 DEF IInv

(* Creation takes the pool, opens the device, makes an allocator.          *)
LEMMA CreateSteps ==
  ASSUME IInv,
         CreateDeviceById \/ GetProactor \/ DevInit \/ DevInitFails
           \/ CreateAllocator \/ CreateFails
  PROVE  IInv'
  <1> USE DeviceAssumption, FieldsApart
          DEF IInv, TypeInv, StageInv, RefsBalanced, Stages, Creating, Usable, At, Goto, fields
  <1>1. CASE CreateDeviceById
    <2>1. Pool \in Objects
      BY DEF Shared, Objects
    <2>2. TypeInv' /\ StageInv'
      BY <1>1, <2>1, RetainOne DEF CreateDeviceById, Create
    <2>3. RefsBalanced'
      BY <1>1, <2>1, RetainOne DEF CreateDeviceById, Create
    <2> QED BY <2>2, <2>3
  <1>2. CASE GetProactor
    BY <1>2 DEF GetProactor
  <1>3. CASE DevInit
    BY <1>3 DEF DevInit
  <1>4. CASE DevInitFails
    BY <1>4 DEF DevInitFails
  <1>5. CASE CreateAllocator
    <2>1. OwnAllocator \in Objects /\ OwnAllocator \notin app /\ OwnAllocator # Null
      BY DEF Shared, Objects
    <2>2. OwnAllocator \notin {pool, provider, tracker}
      BY <1>5, <2>1 DEF CreateAllocator, Shared
    <2>3. TypeInv' /\ StageInv'
      BY <1>5, <2>1 DEF CreateAllocator
    <2>4. RefsBalanced'
      BY <1>5, <2>1, <2>2 DEF CreateAllocator
    <2> QED BY <2>3, <2>4
  <1>6. CASE CreateFails
    BY <1>6 DEF CreateFails
  <1> QED BY <1>1, <1>2, <1>3, <1>4, <1>5, <1>6

(* The new value is retained ...                                           *)
LEMMA RetainSteps ==
  ASSUME IInv, NEW o \in Objects, stage = "live", stage' \in {"newAllocator", "newProvider"},
         stage' = "newAllocator" => o \in {OwnAllocator} \cup Allocators,
         stage' = "newProvider" => o \in Providers,
         refs' = Retain(o), incoming' = o,
         UNCHANGED <<driver, identifier, app, pool, allocator, provider, tracker,
                     dev, axis, given>>
  PROVE  IInv'
  <1> USE DeviceAssumption DEF IInv, TypeInv, StageInv, Stages, Creating, Usable
  <1>1. incoming = Null /\ Null \notin Objects
    OBVIOUS
  <1>2. /\ refs' \in [Objects -> Int]
        /\ \A x \in Objects : refs'[x] = IF x = o THEN refs[x] + 1 ELSE refs[x]
    BY RetainOne
  <1>3. TypeInv' /\ StageInv'
    BY <1>2
  <1>4. RefsBalanced'
    BY <1>1, <1>2 DEF RefsBalanced
  <1> QED BY <1>3, <1>4

(* ... before what was in the field is released, which may be the same.    *)
LEMMA ReplaceSteps ==
  ASSUME IInv,
         \/ \E a \in Allocators \cup {OwnAllocator} : ReplaceDeviceAllocator(a)
         \/ \E p \in Providers : ReplaceChannelProvider(p)
  PROVE  IInv'
  <1> USE DeviceAssumption, FieldsApart
          DEF IInv, TypeInv, StageInv, Stages, Creating, Usable, At, Goto
  <1>1. ASSUME NEW a \in Allocators \cup {OwnAllocator}, ReplaceDeviceAllocator(a)
        PROVE  IInv'
    <2>1. a \in Objects /\ a # Null /\ a \notin {pool, provider, tracker}
      BY DEF Shared, Objects
    <2>2. CASE stage = "live"
      BY <1>1, <2>1, <2>2, RetainSteps DEF ReplaceDeviceAllocator
    <2>3. CASE stage = "newAllocator"
      <3>1. allocator \in Objects /\ incoming = a
        BY <1>1, <2>3 DEF ReplaceDeviceAllocator, Shared, Objects
      <3>2. /\ refs' = ReleaseFrom(refs, allocator) /\ stage' = "live"
            /\ allocator' = a /\ incoming' = Null
            /\ UNCHANGED <<driver, identifier, app, pool, provider, tracker, dev, axis, given>>
        BY <1>1, <2>3 DEF ReplaceDeviceAllocator
      <3>3. /\ refs' \in [Objects -> Int]
            /\ \A x \in Objects : refs'[x] = IF x = allocator THEN refs[x] - 1 ELSE refs[x]
        BY <3>1, <3>2, ReleaseOne
      <3>4. TypeInv' /\ StageInv'
        BY <2>1, <2>3, <3>2, <3>3
      <3>5. RefsBalanced'
        BY <2>1, <3>1, <3>2, <3>3 DEF RefsBalanced
      <3> QED BY <3>4, <3>5
    <2> QED BY <1>1, <2>2, <2>3 DEF ReplaceDeviceAllocator
  <1>2. ASSUME NEW p \in Providers, ReplaceChannelProvider(p)
        PROVE  IInv'
    <2>1. p \in Objects /\ p # Null /\ p \notin {pool, allocator, tracker}
      BY DEF Shared, Objects
    <2>2. CASE stage = "live"
      BY <1>2, <2>1, <2>2, RetainSteps DEF ReplaceChannelProvider
    <2>3. CASE stage = "newProvider"
      <3>1. provider \in Objects \cup {Null} /\ incoming = p
        BY <1>2, <2>3 DEF ReplaceChannelProvider, Shared, Objects
      <3>2. /\ refs' = ReleaseFrom(refs, provider) /\ stage' = "live"
            /\ provider' = p /\ incoming' = Null
            /\ UNCHANGED <<driver, identifier, app, pool, allocator, tracker, dev, axis, given>>
        BY <1>2, <2>3 DEF ReplaceChannelProvider
      <3>3. /\ refs' \in [Objects -> Int]
            /\ \A x \in Objects : refs'[x] = IF x = provider THEN refs[x] - 1 ELSE refs[x]
        BY <3>1, <3>2, ReleaseOne
      <3>4. TypeInv' /\ StageInv'
        BY <2>1, <2>3, <3>2, <3>3
      <3>5. RefsBalanced'
        BY <2>1, <3>1, <3>2, <3>3 DEF RefsBalanced
      <3> QED BY <3>4, <3>5
    <2> QED BY <1>2, <2>2, <2>3 DEF ReplaceChannelProvider
  <1> QED BY <1>1, <1>2

(* Clearing the topology releases the tracker and retires the axis.        *)
LEMMA ClearTopology ==
  ASSUME IInv, ClearTopologyInfo
  PROVE  /\ axis' = FALSE /\ tracker' = Null
         /\ refs' \in [Objects -> Int]
         /\ \A x \in Objects :
              refs'[x] = refs[x] - (IF x = tracker THEN 1 ELSE 0)
  <1>1. CASE tracker = Null
    <2>1. axis = FALSE /\ UNCHANGED <<refs, axis, tracker>>
      <3>1. ~axis /\ axis \in BOOLEAN
        BY <1>1, Zenon DEF IInv, TypeInv, StageInv
      <3>2. axis = FALSE
        BY <3>1, Zenon
      <3> QED BY <1>1, <3>2, Zenon DEF ClearTopologyInfo
    <2>2. refs \in [Objects -> Int] /\ Null \notin Objects
      BY DeviceAssumption DEF IInv, TypeInv
    <2>3. \A x \in Objects : x # tracker /\ refs[x] \in Int
      BY <1>1, <2>2
    <2>4. \A x \in Objects : refs'[x] = refs[x] - (IF x = tracker THEN 1 ELSE 0)
      BY <2>1, <2>3
    <2>5. axis' = FALSE /\ tracker' = Null
      BY <1>1, <2>1, Zenon
    <2> QED BY <2>1, <2>2, <2>4, <2>5
  <1>2. CASE tracker # Null
    <2>1. axis' = FALSE /\ tracker' = Null /\ refs' = ReleaseFrom(refs, tracker)
      BY <1>2, Zenon DEF ClearTopologyInfo
    <2>2. tracker \in Objects /\ refs \in [Objects -> Int]
      BY <1>2 DEF IInv, TypeInv, Shared, Objects
    <2>3. /\ refs' \in [Objects -> Int]
          /\ \A x \in Objects : refs'[x] = IF x = tracker THEN refs[x] - 1 ELSE refs[x]
      BY <2>1, <2>2, ReleaseOne
    <2>4. \A x \in Objects : refs'[x] = refs[x] - (IF x = tracker THEN 1 ELSE 0)
      BY <2>2, <2>3
    <2> QED BY <2>1, <2>3, <2>4, Zenon
  <1> QED BY <1>1, <1>2

(* What remains when the tracker is gone is balanced.                      *)
LEMMA ClearedBalance ==
  ASSUME IInv, ClearTopologyInfo, UNCHANGED <<app, pool, allocator, provider, incoming>>
  PROVE  RefsBalanced'
  <1> SUFFICES ASSUME NEW x \in Objects
               PROVE  refs'[x] = (IF x \in app THEN 1 ELSE 0)
                        + (IF x \in {pool, allocator, provider, Null} THEN 1 ELSE 0)
                        + (IF x = incoming THEN 1 ELSE 0)
    BY ClearTopology DEF RefsBalanced
  <1>1. refs'[x] = refs[x] - (IF x = tracker THEN 1 ELSE 0)
    BY ClearTopology
  <1>2. refs[x] = (IF x \in app THEN 1 ELSE 0)
                  + (IF x \in {pool, allocator, provider, tracker} THEN 1 ELSE 0)
                  + (IF x = incoming THEN 1 ELSE 0)
    BY DEF IInv, RefsBalanced
  <1>3. x # Null /\ (x = tracker => x \notin {pool, allocator, provider})
    BY FieldsApart, DeviceAssumption DEF IInv
  <1> QED BY <1>1, <1>2, <1>3

LEMMA TopologySteps ==
  ASSUME IInv, AssignTopologyInfo \/ AssignNoTopologyInfo \/ DestroyTopology
  PROVE  IInv'
  <1> USE DeviceAssumption, FieldsApart
          DEF IInv, TypeInv, StageInv, RefsBalanced, Stages, Creating, Usable, At, Goto
  <1>1. CASE AssignTopologyInfo
    <2>1. Tracker \in Objects /\ Tracker # Null
      BY DEF Shared, Objects
    <2>2. Tracker \in app /\ Tracker \notin {pool, allocator, provider} /\ tracker = Null
      <3>1. Tracker \in app /\ ~axis
        BY <1>1, Zenon DEF AssignTopologyInfo
      <3>2. tracker = Null
        BY <3>1, Zenon
      <3>3. Tracker \notin {pool, allocator, provider}
        BY DEF Shared, Objects
      <3> QED BY <3>1, <3>2, <3>3
    <2>3. TypeInv' /\ StageInv'
      BY <1>1, <2>1, RetainOne DEF AssignTopologyInfo
    <2>4. RefsBalanced'
      BY <1>1, <2>1, <2>2, RetainOne DEF AssignTopologyInfo
    <2> QED BY <2>3, <2>4
  <1>2. CASE AssignNoTopologyInfo
    <2>1. /\ axis' = FALSE /\ tracker' = Null /\ refs' \in [Objects -> Int]
          /\ RefsBalanced'
      BY <1>2, ClearTopology, ClearedBalance DEF AssignNoTopologyInfo
    <2>2. UNCHANGED <<driver, identifier, stage, app, pool, allocator, provider, incoming,
                     dev, given>>
      BY <1>2 DEF AssignNoTopologyInfo
    <2>3. TypeInv'
      <3>1. /\ driver' \in BOOLEAN /\ dev' \in BOOLEAN
            /\ axis' \in BOOLEAN /\ given' \in BOOLEAN
        BY <2>1, <2>2, Zenon
      <3>2. tracker' \in {Null, Tracker} /\ stage' \in Stages
        BY <2>1, <2>2
      <3> QED BY <2>1, <2>2, <3>1, <3>2
    <2>4. StageInv'
      BY <1>2, <2>1, <2>2 DEF AssignNoTopologyInfo
    <2> QED BY <2>1, <2>3, <2>4
  <1>3. CASE DestroyTopology
    <2>1. /\ axis' = FALSE /\ tracker' = Null /\ refs' \in [Objects -> Int]
          /\ RefsBalanced'
      BY <1>3, ClearTopology, ClearedBalance DEF DestroyTopology
    <2>2. /\ UNCHANGED <<driver, identifier, app, pool, allocator, provider, incoming, dev, given>>
          /\ stage = "destroy" /\ stage' = "release"
      BY <1>3 DEF DestroyTopology
    <2>3. TypeInv'
      <3>1. /\ driver' \in BOOLEAN /\ dev' \in BOOLEAN
            /\ axis' \in BOOLEAN /\ given' \in BOOLEAN
        BY <2>1, <2>2, Zenon
      <3>2. tracker' \in {Null, Tracker} /\ stage' \in Stages
        BY <2>1, <2>2
      <3> QED BY <2>1, <2>2, <3>1, <3>2
    <2>4. StageInv'
      BY <2>1, <2>2
    <2> QED BY <2>1, <2>3, <2>4
  <1> QED BY <1>1, <1>2, <1>3

(* Destruction releases what the fields hold.                              *)
LEMMA DestroySteps ==
  ASSUME IInv, Release \/ DestroyReferences \/ DestroyDev
  PROVE  IInv'
  <1> USE DeviceAssumption, FieldsApart
          DEF IInv, TypeInv, StageInv, RefsBalanced, Stages, Creating, Usable, At, Goto
  <1>1. CASE Release
    BY <1>1 DEF Release, fields
  <1>2. CASE DestroyReferences
    <2>1. {pool, allocator, provider} \subseteq Objects \cup {Null}
      BY DEF Shared, Objects
    <2>2. /\ refs' \in [Objects -> Int]
          /\ \A x \in Objects : refs'[x] =
               refs[x] - (IF x = allocator THEN 1 ELSE 0)
                       - (IF x = provider THEN 1 ELSE 0) - (IF x = pool THEN 1 ELSE 0)
      <3> DEFINE r1 == ReleaseFrom(refs, allocator)
                 r2 == ReleaseFrom(r1, provider)
      <3>1. r1 \in [Objects -> Int] /\ \A x \in Objects :
              r1[x] = IF x = allocator THEN refs[x] - 1 ELSE refs[x]
        BY <2>1, ReleaseOne
      <3> HIDE DEF r1
      <3>2. r2 \in [Objects -> Int] /\ \A x \in Objects :
              r2[x] = IF x = provider THEN r1[x] - 1 ELSE r1[x]
        BY <2>1, <3>1, ReleaseOne
      <3> HIDE DEF r2
      <3>3. refs' = ReleaseFrom(r2, pool)
        BY <1>2 DEF DestroyReferences, r1, r2
      <3>4. refs' \in [Objects -> Int] /\ \A x \in Objects :
              refs'[x] = IF x = pool THEN r2[x] - 1 ELSE r2[x]
        BY <2>1, <3>2, <3>3, ReleaseOne
      <3> QED BY <3>1, <3>2, <3>4
    <2>3. TypeInv' /\ StageInv'
      BY <1>2, <2>2 DEF DestroyReferences
    <2>4. RefsBalanced'
      <3>1. /\ tracker = Null /\ incoming = Null /\ Null \notin Objects
            /\ pool' = Null /\ allocator' = Null /\ provider' = Null
            /\ UNCHANGED <<app, tracker, incoming>>
        BY <1>2 DEF DestroyReferences
      <3> SUFFICES ASSUME NEW x \in Objects
                   PROVE  refs'[x] = IF x \in app THEN 1 ELSE 0
        BY <3>1
      <3>2. refs[x] = (IF x \in app THEN 1 ELSE 0)
                      + (IF x \in {pool, allocator, provider} THEN 1 ELSE 0)
        BY <3>1
      <3>3. x = pool => x \notin {allocator, provider}
        BY <3>1
      <3>4. x = allocator => x # provider
        BY <3>1
      <3> QED BY <2>2, <3>2, <3>3, <3>4
    <2> QED BY <2>3, <2>4
  <1>3. CASE DestroyDev
    BY <1>3 DEF DestroyDev
  <1> QED BY <1>1, <1>2, <1>3

(* The application's references are its own.                               *)
LEMMA ApplicationSteps ==
  ASSUME IInv, NEW o \in Shared, AppRelease(o) \/ AppRetain(o)
  PROVE  IInv'
  <1> USE DeviceAssumption
          DEF IInv, TypeInv, StageInv, RefsBalanced, Stages, Creating, Usable, fields
  <1>1. o \in Objects
    BY DEF Objects
  <1>2. CASE AppRelease(o)
    BY <1>1, <1>2, ReleaseOne DEF AppRelease
  <1>3. CASE AppRetain(o)
    BY <1>1, <1>3, RetainOne DEF AppRetain
  <1> QED BY <1>2, <1>3

LEMMA Stutter ==
  ASSUME IInv, UNCHANGED vars
  PROVE  IInv'
  BY DEF vars, IInv, TypeInv, StageInv, RefsBalanced

-----------------------------------------------------------------------------
(* The stages, the fields and the counts agree in every state: the         *)
(* invariant from which the properties below follow (device.c:62-208).     *)
THEOREM DeviceInvariance == Spec => []IInv
  <1>1. IInv /\ [Next]_vars => IInv'
    BY DriverSteps, CreateSteps, ReplaceSteps, TopologySteps, DestroySteps,
       ApplicationSteps, Stutter
       DEF Next
  <1> QED BY Initially, <1>1, PTL DEF Spec

(* The count of every object is the number of its holders: nothing is      *)
(* leaked and nothing given back twice, whatever creation failed at        *)
(* (device.c:121-125, 153-156, 193-207).                                   *)
THEOREM RefsBalancedTheorem == Spec => []RefsBalanced
  <1>1. IInv => RefsBalanced
    BY DEF IInv
  <1> QED BY DeviceInvariance, <1>1, PTL

(* Whatever the device points to is still there (device.c:88-94, 186-208). *)
THEOREM FieldsAliveTheorem == Spec => []FieldsAlive
  <1>1. ASSUME IInv PROVE FieldsAlive
    <2>1. ASSUME NEW o \in {pool, allocator, provider, tracker, incoming} \ {Null}
          PROVE  refs[o] > 0
      <3>1. o \in Objects
        BY <1>1 DEF IInv, TypeInv, Shared, Objects
      <3> QED BY <1>1, <2>1, <3>1 DEF IInv, RefsBalanced
    <2>2. identifier = "driver" => driver
      BY <1>1, DeviceAssumption DEF IInv, TypeInv
    <2> QED BY <2>1, <2>2 DEF FieldsAlive
  <1> QED BY DeviceInvariance, <1>1, PTL

(* A device that was given out is open and has its allocator, and nothing  *)
(* stays open or registered without one (device.c:102-130, 153-159).       *)
THEOREM OpenWhileDeviceTheorem == Spec => []OpenWhileDevice
  <1>1. ASSUME IInv PROVE OpenWhileDevice
    BY <1>1, DeviceAssumption
       DEF IInv, TypeInv, StageInv, OpenWhileDevice, Shared, Objects
  <1> QED BY DeviceInvariance, <1>1, PTL

=============================================================================
