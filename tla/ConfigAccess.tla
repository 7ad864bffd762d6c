---------------------------- MODULE ConfigAccess ----------------------------
(***************************************************************************)
(* Configuration space through the driver: READ/WRITE_CONFIG for the       *)
(* device itself, GET_SBOBJ to look up another PCI device by its address,  *)
(* and READ/WRITE_CONFIG_SB for the device looked up last.                 *)
(*                                                                         *)
(* Each access builds a request with an event and a status block on the    *)
(* stack of the handler, sends it down the stack of the target device and  *)
(* waits when the bus driver answers later.  On its way it comes past this *)
(* driver's own PnP dispatch where the driver is attached to the target,   *)
(* as it is to the device itself and may be to others.  The device looked  *)
(* up is one pointer for all processes, kept without a reference, while    *)
(* PCI devices come and go.                                                *)
(***************************************************************************)
EXTENDS Naturals, FiniteSets

CONSTANTS
  Callers,    \* open file handles, one synchronous call at a time on each
  Devices,    \* device objects the PCI driver may ever create
  Own,        \* the one whose file handles these are (PhyDevice)
  Addresses,  \* bus, device and function numbers
  Null        \* no device, no address, no caller

ASSUME DevicesFinite == IsFiniteSet(Devices) /\ Own \in Devices
ASSUME NullIsApart == Null \notin Devices \cup Addresses \cup Callers

VARIABLES
  bdf,        \* bdf[d]: what d answers to the property queries, Null: nothing
  life,       \* life[d]: not yet created, in the PCI driver's list, or removed
  attached,   \* the devices with this driver in their stack
  secondary,  \* SecondaryBus_PhyDevice
  at,         \* at[c]: how far the IOCTL on handle c has come
  asked,      \* asked[c]: the address of its last lookup
  room,       \* room[c]: how many devices its lookup has room for
  target,     \* target[c]: the device it accesses
  held,       \* held[c]: the device objects it holds a reference to
  irp,        \* irp[c]: its request to the bus driver
  result,     \* result[c]: the status it is about to return
  disturbed,  \* history: secondary is not what c's last lookup found
  hotplug,    \* history: a device came while a lookup ran, or one went
  crashed     \* who used memory that is not a device object

confVars == <<bdf, life, attached, secondary, at, asked, room, target, held, irp, result,
              disturbed, hotplug, crashed>>
histVars == <<disturbed, hotplug, crashed>>

Present == {d \in Devices : life[d] = "present"}

\* A device object lives while it is listed or somebody has a reference.
Exists(d) == d \in Present \/ \E c \in Callers : d \in held[c]

LookupSteps == {"sized", "examine", "release", "overrun"}
AccessSteps == {"build", "calling", "wait", "end"}
NtSuccess == {"success", "pending"}
NoIrp == [at |-> "none", status |-> "error", signalled |-> FALSE, moved |-> FALSE]

TypeOKConfig ==
  /\ bdf \in [Devices -> Addresses \cup {Null}]
  /\ life \in [Devices -> {"new", "present", "gone"}]
  /\ attached \subseteq Devices /\ secondary \in Devices \cup {Null}
  /\ at \in [Callers -> {"idle"} \cup LookupSteps \cup AccessSteps]
  /\ asked \in [Callers -> Addresses \cup {Null}]
  /\ room \in [Callers -> Nat]
  /\ target \in [Callers -> Devices \cup {Null}]
  /\ held \in [Callers -> SUBSET Devices]
  /\ irp \in [Callers -> [at : {"none", "bus", "done"}, status : {"success", "error"},
                          signalled : BOOLEAN, moved : BOOLEAN]]
  /\ result \in [Callers -> {"error"} \cup NtSuccess]
  /\ disturbed \in [Callers -> BOOLEAN] /\ hotplug \in BOOLEAN
  /\ crashed \in Callers \cup {Null}

\* IoCreateDevice has zeroed the device extension.
InitConfig ==
  /\ bdf \in [Devices -> Addresses \cup {Null}]
  /\ life \in [Devices -> {"new", "present"}] /\ life[Own] = "present"
  /\ attached = {Own}
  /\ secondary = Null
  /\ at = [c \in Callers |-> "idle"]
  /\ asked = [c \in Callers |-> Null]
  /\ room = [c \in Callers |-> 0]
  /\ target = [c \in Callers |-> Null]
  /\ held = [c \in Callers |-> {}]
  /\ irp = [c \in Callers |-> NoIrp]
  /\ result = [c \in Callers |-> "error"]
  /\ disturbed = [c \in Callers |-> TRUE]
  /\ hotplug = FALSE
  /\ crashed = Null

-----------------------------------------------------------------------------
(* IOCTL_WINPCI_GET_SBOBJ.  It completes with success whatever it finds.   *)

\* The PCI driver has no object of its name.
LookupFails(c, a) ==
  /\ at[c] = "idle"
  /\ asked' = [asked EXCEPT ![c] = a]
  /\ disturbed' = [disturbed EXCEPT ![c] = TRUE]
  /\ UNCHANGED <<bdf, life, attached, secondary, at, room, target, held, irp, result,
                 hotplug, crashed>>

\* The first IoEnumerateDeviceObjectList only counts.
StartLookup(c, a) ==
  /\ at[c] = "idle"
  /\ at' = [at EXCEPT ![c] = "sized"]
  /\ asked' = [asked EXCEPT ![c] = a]
  /\ room' = [room EXCEPT ![c] = Cardinality(Present)]
  /\ UNCHANGED <<bdf, life, attached, secondary, target, held, irp, result, histVars>>

\* The second one lists the devices with a reference to each.  When they have
\* become more than there is room for it fails, after filling in what fits or
\* nothing, and has set actualCount to their number all the same.
ListDevices(c) ==
  /\ at[c] = "sized"
  /\ \/ /\ Cardinality(Present) <= room[c]
        /\ held' = [held EXCEPT ![c] = Present]
        /\ at' = [at EXCEPT ![c] = "examine"]
     \/ /\ Cardinality(Present) > room[c]
        /\ \E D \in SUBSET Present :
              /\ Cardinality(D) <= room[c]
              /\ held' = [held EXCEPT ![c] = D]
        /\ at' = [at EXCEPT ![c] = "overrun"]
  /\ UNCHANGED <<bdf, life, attached, secondary, asked, room, target, irp, result, histVars>>

\* Fault: any device that answers will do.
AnyThatAnswers(c) == {d \in held[c] : bdf[d] # Null}

\* The listed devices at the address asked for.
Matching(c) == {d \in held[c] : bdf[d] = asked[c]}

\* The loop over the list stores the first match; a device that is gone need
\* not answer.  Without a match the pointer keeps its value.
StoreMatch(c) ==
  /\ at[c] = "examine"
  /\ \/ \E d \in Matching(c) :
          /\ secondary' = d
          /\ disturbed' = [x \in Callers |-> x # c]
     \/ /\ Matching(c) \cap Present = {}
        /\ disturbed' = [disturbed EXCEPT ![c] = TRUE]
        /\ UNCHANGED secondary
  /\ at' = [at EXCEPT ![c] = "release"]
  /\ UNCHANGED <<bdf, life, attached, asked, room, target, held, irp, result, hotplug, crashed>>

\* Fault: the device stored keeps its reference.
KeepStored(c) ==
  /\ at[c] \in {"release", "overrun"}
  /\ held' = [held EXCEPT ![c] = @ \cap {secondary}]
  /\ at' = [at EXCEPT ![c] = "idle"]
  /\ room' = [room EXCEPT ![c] = 0]
  /\ UNCHANGED <<bdf, life, attached, secondary, asked, target, irp, result, histVars>>

\* ObDereferenceObject for actualCount entries, which after the failure are
\* more than the array has.
ReleaseList(c) ==
  /\ at[c] \in {"release", "overrun"}
  /\ held' = [held EXCEPT ![c] = {}]
  /\ at' = [at EXCEPT ![c] = "idle"]
  /\ room' = [room EXCEPT ![c] = 0]
  /\ crashed' = IF at[c] = "overrun" THEN c ELSE crashed
  /\ UNCHANGED <<bdf, life, attached, secondary, asked, target, irp, result, disturbed, hotplug>>

-----------------------------------------------------------------------------
(* ReadWriteConfigSpace, called with PhyDevice or SecondaryBus_PhyDevice.  *)
(* A call that cannot map its buffer fails first and changes nothing.      *)

\* IoGetAttachedDeviceReference, the event initialised before it.
StartAccess(c, d) ==
  /\ at[c] = "idle"
  /\ at' = [at EXCEPT ![c] = "build"]
  /\ target' = [target EXCEPT ![c] = d]
  /\ IF d # Null /\ Exists(d)
       THEN held' = [held EXCEPT ![c] = {d}] /\ UNCHANGED crashed
       ELSE crashed' = c /\ UNCHANGED held
  /\ UNCHANGED <<bdf, life, attached, secondary, asked, room, irp, result, disturbed, hotplug>>

\* READ_CONFIG and WRITE_CONFIG, and those for the device looked up last.
AccessOwn(c) == StartAccess(c, Own)
AccessSecondary(c) == StartAccess(c, secondary)

\* Fault: the status block is left as it was found.
StatusUninitialized(d) == {"stack"}

\* Fault: success is preset.
StatusNotPreset(d) == {"success"}

\* The statuses with which the request may arrive at the bus driver: an error was
\* preset, but HandleReadConfig and HandleWriteConfig overwrite it with success
\* where it comes past this driver, which is detached some time after the device
\* has gone.
StatusAtBus(d) ==
  {s \in {"success"} : d \in attached}
    \cup {s \in {"error"} : d \notin attached \/ life[d] = "gone"}

\* IoBuildSynchronousFsdRequest may fail; otherwise IoCallDriver sends it.
SendRequest(c) ==
  /\ at[c] = "build"
  /\ \/ /\ at' = [at EXCEPT ![c] = "end"]
        /\ result' = [result EXCEPT ![c] = "error"]
        /\ UNCHANGED irp
     \/ /\ at' = [at EXCEPT ![c] = "calling"]
        /\ \E s \in StatusAtBus(target[c]) :
             irp' = [irp EXCEPT ![c] = [at |-> "bus", status |-> s,
                                        signalled |-> FALSE, moved |-> FALSE]]
        /\ UNCHANGED result
  /\ UNCHANGED <<bdf, life, attached, secondary, asked, room, target, held, histVars>>

\* The bus driver (external) moves the data and says so, fails, or completes
\* the request without touching its status; the event is set.
BusCompletes(c) ==
  /\ irp[c].at = "bus"
  /\ \E s \in {"success", "error", irp[c].status}, m \in BOOLEAN :
       /\ m => s = "success"
       /\ s = "success" /\ ~m => irp[c].status = "success"
       /\ irp' = [irp EXCEPT ![c] =
            [at |-> "done", status |-> s, signalled |-> TRUE, moved |-> m]]
  /\ UNCHANGED <<bdf, life, attached, secondary, at, asked, room, target, held, result, histVars>>

\* Fault: a pending request is taken for a finished one.
PendingIsDone(c) ==
  /\ at[c] = "calling"
  /\ at' = [at EXCEPT ![c] = "end"]
  /\ result' = [result EXCEPT ![c] = IF irp[c].at = "done" THEN irp[c].status ELSE "pending"]
  /\ UNCHANGED <<bdf, life, attached, secondary, asked, room, target, held, irp, histVars>>

\* Fault: the event is initialised after the request is sent.
EventInitializedLate(c) ==
  /\ at[c] = "calling"
  /\ at' = [at EXCEPT ![c] = "wait"]
  /\ irp' = [irp EXCEPT ![c].signalled = FALSE]
  /\ UNCHANGED <<bdf, life, attached, secondary, asked, room, target, held, result, histVars>>

\* IoCallDriver returns the status of a completed request, or STATUS_PENDING
\* for one that completes later or has completed meanwhile.
CallDriverReturns(c) ==
  /\ at[c] = "calling"
  /\ \/ /\ irp[c].at = "done"
        /\ at' = [at EXCEPT ![c] = "end"]
        /\ result' = [result EXCEPT ![c] = irp[c].status]
     \/ /\ at' = [at EXCEPT ![c] = "wait"]
        /\ result' = [result EXCEPT ![c] = "pending"]
  /\ UNCHANGED <<bdf, life, attached, secondary, asked, room, target, held, irp, histVars>>

\* KeWaitForSingleObject, then the status of the request.
WaitForRequest(c) ==
  /\ at[c] = "wait"
  /\ irp[c].signalled
  /\ at' = [at EXCEPT ![c] = "end"]
  /\ result' = [result EXCEPT ![c] = irp[c].status]
  /\ UNCHANGED <<bdf, life, attached, secondary, asked, room, target, held, irp, histVars>>

\* ObDereferenceObject(targetObject), and the IOCTL completes; what the bus
\* driver has not completed by now stays with it.
EndAccess(c) ==
  /\ at[c] = "end"
  /\ held' = [held EXCEPT ![c] = {}]
  /\ at' = [at EXCEPT ![c] = "idle"]
  /\ target' = [target EXCEPT ![c] = Null]
  /\ irp' = [irp EXCEPT ![c] = IF @.at = "bus" THEN @ ELSE NoIrp]
  /\ result' = [result EXCEPT ![c] = "error"]
  /\ UNCHANGED <<bdf, life, attached, secondary, asked, room, histVars>>

-----------------------------------------------------------------------------
(* PCI devices come and go (external); the device itself stays.            *)

DeviceArrives(d) ==
  /\ life[d] = "new"
  /\ life' = [life EXCEPT ![d] = "present"]
  /\ hotplug' = (hotplug \/ \E c \in Callers : at[c] = "sized")
  /\ UNCHANGED <<bdf, attached, secondary, at, asked, room, target, held, irp, result,
                 disturbed, crashed>>

DeviceGoes(d) ==
  /\ life[d] = "present" /\ d # Own
  /\ life' = [life EXCEPT ![d] = "gone"]
  /\ hotplug' = TRUE
  /\ UNCHANGED <<bdf, attached, secondary, at, asked, room, target, held, irp, result,
                 disturbed, crashed>>

\* AddDevice for another device.
DriverAttaches(d) ==
  /\ life[d] = "present"
  /\ attached' = attached \cup {d}
  /\ UNCHANGED <<bdf, life, secondary, at, asked, room, target, held, irp, result,
                 histVars>>

CallerStep(c) ==
  \/ ListDevices(c) \/ StoreMatch(c) \/ ReleaseList(c)
  \/ SendRequest(c) \/ CallDriverReturns(c) \/ WaitForRequest(c) \/ EndAccess(c)

NextConfig ==
  /\ crashed = Null
  /\ \/ \E c \in Callers : \/ \E a \in Addresses : StartLookup(c, a) \/ LookupFails(c, a)
                           \/ AccessOwn(c) \/ AccessSecondary(c)
                           \/ CallerStep(c)
                           \/ BusCompletes(c)
     \/ \E d \in Devices : DeviceArrives(d) \/ DeviceGoes(d) \/ DriverAttaches(d)

SpecConfig == InitConfig /\ [][NextConfig]_confVars

\* A thread inside a call is scheduled and the bus driver completes what it
\* was sent; nobody has to call, and no device has to come or go.
FairSpecConfig ==
  /\ SpecConfig
  /\ \A c \in Callers : /\ WF_confVars(crashed = Null /\ CallerStep(c))
                        /\ WF_confVars(crashed = Null /\ BusCompletes(c))

-----------------------------------------------------------------------------
\* The bus driver works on a request, whose buffer, event and status block are
\* the caller's, only while the caller waits and holds the device; and a call
\* that is over holds nothing, neither after a lookup nor after an access.
RequestIsCovered ==
  \A c \in Callers :
    /\ irp[c].at = "bus" => at[c] \in {"calling", "wait"} /\ target[c] \in held[c]
    /\ at[c] = "idle" => held[c] = {} /\ irp[c].at # "bus"

\* After a lookup that found its device, until another process looks up or a
\* device goes, every access reaches a device at the address asked for; and
\* lookups do no harm unless a device arrives inside one.
LookupServes ==
  /\ \A c \in Callers :
       at[c] \in AccessSteps /\ target[c] # Own /\ ~disturbed[c] => bdf[target[c]] = asked[c]
  /\ crashed # Null /\ ~hotplug => disturbed[crashed] /\ at[crashed] = "build"

\* An access that reports success has moved its data, unless this driver itself
\* is in the stack of the target and has preset the success: otherwise the status
\* is what the bus driver said of this very request.
StatusIsFromBus ==
  \A c \in Callers :
    at[c] = "end" /\ result[c] \in NtSuccess => irp[c].moved \/ target[c] \in attached

\* "Initialize the status to error in case the bus driver does not set it
\* correctly": whatever the bus driver does, success means the data moved.
SuccessMeansMoved ==
  \A c \in Callers : at[c] = "end" /\ result[c] \in NtSuccess => irp[c].moved

\* Every call returns, however requests complete, devices come and go and
\* other calls interleave, unless the system is down.
CallsComplete ==
  \A c \in Callers : at[c] # "idle" ~> at[c] = "idle" \/ crashed # Null
=============================================================================
