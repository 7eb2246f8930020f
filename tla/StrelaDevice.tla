---------------------------- MODULE StrelaDevice ----------------------------
(***************************************************************************)
(* The life of a strela HAL device (device.c:62-208, 284-313): what it     *)
(* retains, registers and opens while it is created, used and destroyed,   *)
(* with a failure possible at every step of creation; and the driver that  *)
(* creates it (factory.c, driver.c), which it may outlive.                 *)
(*                                                                         *)
(* The shared objects are reference counted, and IREE's malloc zeroes: a   *)
(* field that creation has not reached is Null.                            *)
(***************************************************************************)
EXTENDS Integers

CONSTANTS
  Allocators,     \* the allocators the application may install
  Providers,      \* the channel providers it may install
  OwnAllocator,   \* the allocator a device creates for itself
  Pool,           \* the proactor pool
  Tracker,        \* the frontier tracker of the one topology
  Names,          \* the driver names asked of the factory
  StrelaName,     \* the one it knows
  Null

Shared == Allocators \cup Providers \cup {Pool, Tracker}
Objects == Shared \cup {OwnAllocator}

ASSUME DeviceAssumption ==
  /\ Null \notin Objects \cup {"device", "driver"}
  /\ Allocators \cap Providers = {}
  /\ OwnAllocator \notin Shared
  /\ StrelaName \in Names
  /\ Pool # Tracker /\ {Pool, Tracker} \cap (Allocators \cup Providers) = {}

VARIABLES
  driver,       \* whether the application has a driver
  stage,        \* "none", a stage of creation, "live", of a replacement, of
                \* destruction
  refs,         \* refs[o]: the reference count of o, 0 when it is gone
  app,          \* the objects the application still holds a reference to
  identifier,   \* whose storage the device's name is in
  pool, allocator, provider, tracker,    \* fields of the device
  incoming,     \* what a replacement has retained and not yet stored
  dev,          \* device->dev: whether libstrela's device was initialised
  axis,         \* whether the device's axis is registered with the tracker
  given         \* history: whether the caller was given a device

fields == <<driver, identifier, pool, allocator, provider, tracker, incoming>>
vars == <<driver, identifier, stage, refs, app, pool, allocator, provider, tracker,
          incoming, dev, axis, given>>

Init ==
  /\ driver = FALSE /\ identifier = Null
  /\ stage = "none"
  /\ refs = [o \in Objects |-> IF o = OwnAllocator THEN 0 ELSE 1]
  /\ app = Shared
  /\ pool = Null /\ allocator = Null /\ provider = Null /\ tracker = Null
  /\ incoming = Null
  /\ dev = FALSE /\ axis = FALSE /\ given = FALSE

Retain(o) == [refs EXCEPT ![o] = @ + 1]

(* Releasing Null does nothing.                                            *)
ReleaseFrom(r, o) == IF o = Null THEN r ELSE [r EXCEPT ![o] = @ - 1]

At(s) == stage = s
Goto(s) == stage' = s

-----------------------------------------------------------------------------
(* The options, which the factory makes itself, always pass; there may be  *)
(* no memory.                                                              *)
DriverCreate == driver' \in BOOLEAN

(* iree_hal_strela_driver_factory_try_create: another name is unavailable. *)
TryCreateDriver(name) ==
  /\ ~driver
  /\ IF name = StrelaName THEN DriverCreate ELSE driver' = FALSE
  /\ UNCHANGED <<identifier, stage, refs, app, pool, allocator, provider,
                 tracker, incoming, dev, axis, given>>

(* Its devices do not hold it.                                             *)
DestroyDriver ==
  /\ driver
  /\ driver' = FALSE
  /\ UNCHANGED <<identifier, stage, refs, app, pool, allocator, provider,
                 tracker, incoming, dev, axis, given>>

-----------------------------------------------------------------------------
(* iree_hal_strela_device_create: the name is copied behind the device.    *)
Create ==
  /\ At("none") /\ Pool \in app
  /\ identifier' = "device"
  /\ pool' = Pool /\ refs' = Retain(Pool)
  /\ Goto("proactor")
  /\ UNCHANGED <<driver, app, allocator, provider, tracker, incoming, dev, axis, given>>

(* Also by path, which is not looked at.                                   *)
CreateDeviceById == driver /\ Create

GetProactor ==
  /\ At("proactor")
  /\ Goto("init")
  /\ UNCHANGED <<refs, app, fields, dev, axis, given>>

DevInit ==
  /\ At("init")
  /\ dev' = TRUE
  /\ Goto("allocator")
  /\ UNCHANGED <<refs, app, fields, axis, given>>

(* libstrela hands out a device that is not usable and has to be closed.   *)
DevInitFails ==
  /\ At("init")
  /\ dev' = TRUE
  /\ Goto("destroy")
  /\ UNCHANGED <<refs, app, fields, axis, given>>

CreateAllocator ==
  /\ At("allocator")
  /\ allocator' = OwnAllocator
  /\ refs' = [refs EXCEPT ![OwnAllocator] = 1]
  /\ Goto("live")
  /\ given' = TRUE
  /\ UNCHANGED <<driver, identifier, app, pool, provider, tracker, incoming, dev, axis>>

(* A failed creation releases the device, and so destroys it.              *)
CreateFails ==
  /\ stage \in {"proactor", "allocator"}
  /\ Goto("destroy")
  /\ UNCHANGED <<refs, app, fields, dev, axis, given>>

-----------------------------------------------------------------------------
(* Mutant: the allocator of the device is released first.                  *)
ReplaceDeviceAllocator_ReleasesFirst(a) ==
  \/ /\ At("live") /\ a \in app \cup {allocator}
     /\ refs' = ReleaseFrom(refs, allocator)
     /\ incoming' = a
     /\ Goto("newAllocator")
     /\ UNCHANGED <<driver, identifier, app, pool, allocator, provider, tracker, dev, axis, given>>
  \/ /\ At("newAllocator") /\ a = incoming
     /\ refs' = Retain(a)
     /\ allocator' = a /\ incoming' = Null
     /\ Goto("live")
     /\ UNCHANGED <<driver, identifier, app, pool, provider, tracker, dev, axis, given>>

(* The new one may be the allocator of the device itself, and the          *)
(* application another thread that drops it.                               *)
ReplaceDeviceAllocator(a) ==
  \/ /\ At("live") /\ a \in app \cup {allocator}
     /\ refs' = Retain(a)
     /\ incoming' = a
     /\ Goto("newAllocator")
     /\ UNCHANGED <<driver, identifier, app, pool, allocator, provider, tracker, dev, axis, given>>
  \/ /\ At("newAllocator") /\ a = incoming
     /\ refs' = ReleaseFrom(refs, allocator)
     /\ allocator' = a /\ incoming' = Null
     /\ Goto("live")
     /\ UNCHANGED <<driver, identifier, app, pool, provider, tracker, dev, axis, given>>

ReplaceChannelProvider(p) ==
  \/ /\ At("live") /\ p \in app \cup {provider}
     /\ refs' = Retain(p)
     /\ incoming' = p
     /\ Goto("newProvider")
     /\ UNCHANGED <<driver, identifier, app, pool, allocator, provider, tracker, dev, axis, given>>
  \/ /\ At("newProvider") /\ p = incoming
     /\ refs' = ReleaseFrom(refs, provider)
     /\ provider' = p /\ incoming' = Null
     /\ Goto("live")
     /\ UNCHANGED <<driver, identifier, app, pool, allocator, tracker, dev, axis, given>>

(* The tracker refuses an axis that is registered already.                 *)
AssignTopologyInfo ==
  /\ At("live") /\ Tracker \in app
  /\ ~axis
  /\ axis' = TRUE
  /\ tracker' = Tracker /\ refs' = Retain(Tracker)
  /\ UNCHANGED <<driver, identifier, stage, app, pool, allocator, provider, incoming, dev, given>>

(* Mutant: the tracker is released but the axis stays registered.          *)
ClearTopologyInfo_KeepsAxis ==
  IF tracker = Null
  THEN UNCHANGED <<refs, axis, tracker>>
  ELSE /\ refs' = ReleaseFrom(refs, tracker)
       /\ tracker' = Null
       /\ UNCHANGED axis

(* Assigning no topology; also the first step of destruction.              *)
ClearTopologyInfo ==
  IF tracker = Null
  THEN UNCHANGED <<refs, axis, tracker>>
  ELSE /\ axis' = FALSE
       /\ refs' = ReleaseFrom(refs, tracker)
       /\ tracker' = Null

AssignNoTopologyInfo ==
  /\ At("live") /\ tracker # Null
  /\ ClearTopologyInfo
  /\ UNCHANGED <<driver, identifier, stage, app, pool, allocator, provider, incoming, dev, given>>

(* The application gives up its last reference to the device.              *)
Release ==
  /\ At("live")
  /\ Goto("destroy")
  /\ given' = FALSE
  /\ UNCHANGED <<refs, app, fields, dev, axis>>

(* iree_hal_strela_device_destroy, in the order of the code.               *)
DestroyTopology ==
  /\ At("destroy")
  /\ ClearTopologyInfo
  /\ Goto("release")
  /\ UNCHANGED <<driver, identifier, app, pool, allocator, provider, incoming, dev, given>>

(* Mutant: the proactor pool is not released.                              *)
DestroyReferences_KeepsPool ==
  /\ At("release")
  /\ refs' = ReleaseFrom(ReleaseFrom(refs, allocator), provider)
  /\ pool' = Null /\ allocator' = Null /\ provider' = Null
  /\ Goto("deinit")
  /\ UNCHANGED <<driver, identifier, app, tracker, incoming, dev, axis, given>>

DestroyReferences ==
  /\ At("release")
  /\ refs' = ReleaseFrom(ReleaseFrom(ReleaseFrom(refs, allocator), provider), pool)
  /\ pool' = Null /\ allocator' = Null /\ provider' = Null
  /\ Goto("deinit")
  /\ UNCHANGED <<driver, identifier, app, tracker, incoming, dev, axis, given>>

DestroyDev ==
  /\ At("deinit")
  /\ dev' = FALSE /\ identifier' = Null
  /\ Goto("none")
  /\ UNCHANGED <<driver, refs, app, pool, allocator, provider, tracker, incoming,
                 axis, given>>

(* The application drops, or gets hold of again, an object it does not     *)
(* need itself.                                                            *)
AppRelease(o) ==
  /\ o \in app
  /\ app' = app \ {o}
  /\ refs' = ReleaseFrom(refs, o)
  /\ UNCHANGED <<stage, fields, dev, axis, given>>

AppRetain(o) ==
  /\ o \in Shared \ app /\ refs[o] > 0
  /\ app' = app \cup {o}
  /\ refs' = Retain(o)
  /\ UNCHANGED <<stage, fields, dev, axis, given>>

Next ==
  \/ \E name \in Names : TryCreateDriver(name)
  \/ DestroyDriver
  \/ CreateDeviceById \/ GetProactor \/ DevInit \/ DevInitFails
  \/ CreateAllocator \/ CreateFails
  \/ \E a \in Allocators \cup {OwnAllocator} : ReplaceDeviceAllocator(a)
  \/ \E p \in Providers : ReplaceChannelProvider(p)
  \/ AssignTopologyInfo \/ AssignNoTopologyInfo
  \/ Release \/ DestroyTopology \/ DestroyReferences \/ DestroyDev
  \/ \E o \in Shared : AppRelease(o) \/ AppRetain(o)

Spec == Init /\ [][Next]_vars

-----------------------------------------------------------------------------
(* Whatever the device points to, or is about to, is still there, though   *)
(* the application may have dropped it, or the driver, in the meantime, or *)
(* never have held it but through the device (device.c:88-94, 186-208).    *)
FieldsAlive ==
  /\ \A o \in {pool, allocator, provider, tracker, incoming} \ {Null} : refs[o] > 0
  /\ identifier = "driver" => driver

(* Every reference is somebody's: none is leaked, and none given back      *)
(* twice, by replacements in any order or by a creation that fails halfway.*)
RefsBalanced ==
  \A o \in Objects :
    refs[o] = (IF o \in app THEN 1 ELSE 0)
              + (IF o \in {pool, allocator, provider, tracker} THEN 1 ELSE 0)
              + (IF o = incoming THEN 1 ELSE 0)

(* A device is given out only with an open libstrela device and an         *)
(* allocator; without a device nothing of it stays open or registered.     *)
OpenWhileDevice ==
  /\ given => dev /\ allocator # Null /\ pool # Null
  /\ stage = "none" => ~dev /\ ~axis
  /\ axis => tracker # Null

=============================================================================
