----------------------------- MODULE ClientLife -----------------------------
(***************************************************************************)
(* The life of client processes on one device, from the constructor of     *)
(* CNVMe over init and its commands to the destructor and the end of the   *)
(* process, with the driver's events (EventTable), the start and stop of   *)
(* the device and what the driver's lists hold for each process.           *)
(*                                                                         *)
(* The destructor releases what init got before it failed.  What a process *)
(* leaves behind that is ended or crashes stays with the driver: closing a *)
(* handle releases nothing.                                                *)
(***************************************************************************)
EXTENDS EventTable

CONSTANTS
  MaxVectors,  \* MAX_VECTOR_NUM: how many events isr_thread opens
  Faults       \* what may go wrong besides the steps of init

ASSUME MaxVectorsAssumption == MaxVectors \in Nat \ {0}
ASSUME FaultsAssumption == Faults \subseteq {"create_fails", "dma_fails", "kill"}

VARIABLES
  device,    \* how far its start is: a start that failed is not tried again
  adapter,   \* dmaAdapter is there
  client,    \* client[u]: where it stands, its loop count, eventnum, its vector
  mem,       \* mem[u]: what the driver's lists hold for the process
  left,      \* they hold memory of processes that are gone
  pending,   \* commands at the controller: the process and the queue's vector
  trouble,   \* history: what has gone wrong so far, of Troubles
  disturbed  \* history: clients that found the device not started, or have seen
             \* it stopped inside init

clientVars == <<client, mem, left, pending, trouble, disturbed>>
lifeVars == <<tableVars, device, adapter, clientVars>>

\* A CREATE_EVENT failed; a process died; one died with a command or the DPC
\* under way, or its destructor began before the DPC was through.
Troubles == {"create_failed", "died", "under_way"}

InitPlaces == {"device", "pci", "nvme", "adminq", "ctrl", "create", "sync", "open"}
EndPlaces == {"end_events", "end_pool", "end_nvme", "end_pci"}
Places == {"out", "stuck", "running", "command", "waiting"} \cup InitPlaces \cup EndPlaces
Memories == {"pci", "nvme", "pool"}

TypeOKLife ==
  /\ TypeOKTable
  /\ device \in {"new", "starting", "started", "failed", "stopped"}
  /\ adapter \in BOOLEAN
  /\ client \in [Users -> [at : Places, i : 0 .. Messages,
                           num : 0 .. Messages, vec : Vectors]]
  /\ mem \in [Users -> SUBSET Memories] /\ left \in BOOLEAN
  /\ pending \subseteq Users \X Vectors
  /\ trouble \subseteq Troubles /\ disturbed \subseteq Users

\* eventnum counts as 0 until acquireEvent sets it.
Out == [at |-> "out", i |-> 0, num |-> 0, vec |-> 0]

InitLife ==
  /\ InitTable
  /\ device = "new" /\ adapter = FALSE
  /\ client = [u \in Users |-> Out]
  /\ mem = [u \in Users |-> {}] /\ left = FALSE
  /\ pending = {} /\ trouble = {} /\ disturbed = {}

At(u, place) == crash = "no" /\ client[u].at = place
Goes(u, place) == client' = [client EXCEPT ![u].at = place]
Notes(what) == trouble' = trouble \cup what
Turn(u) == client' = [client EXCEPT ![u].i = @ + 1]
Begins(u, place) == client' = [client EXCEPT ![u].at = place, ![u].i = 0]

-----------------------------------------------------------------------------
(* CNVMe::init, step by step; a step that fails leads to the destructor.   *)

Construct(u) ==
  /\ At(u, "out")
  /\ client' = [client EXCEPT ![u] = [Out EXCEPT !.at = "device"]]
  /\ disturbed' = disturbed \ {u}
  /\ UNCHANGED <<tableVars, device, adapter, mem, left, pending, trouble>>

\* A malformed address or no device: the destructor's calls go to no device.
\* One whose start is not done is found as soon as the start has asked for its
\* address, and so is one that is stopped or whose start has failed.
InitDevice(u) ==
  /\ At(u, "device")
  /\ \/ /\ device # "new" /\ Goes(u, "pci")
        /\ disturbed' = disturbed \cup {w \in {u} : device # "started"}
     \/ Goes(u, "out") /\ UNCHANGED disturbed
  /\ UNCHANGED <<tableVars, device, adapter, mem, left, pending, trouble>>

\* The process is gone and the driver and the controller do not notice: what the
\* lists hold for it is left there.
Dies(u) ==
  /\ CloseProcess(u)
  /\ Notes({"died"} \cup {w \in {"under_way"} :
                           calls > 0 \/ client[u].at \in {"command", "waiting"}})
  /\ client' = [client EXCEPT ![u] = Out]
  /\ mem' = [mem EXCEPT ![u] = {}]
  /\ left' = (left \/ mem[u] # {})
  /\ UNCHANGED <<device, adapter, pending, disturbed>>

MapReg(u, reg, next) ==
  /\ At(u, reg)
  /\ \/ Goes(u, next) /\ mem' = [mem EXCEPT ![u] = @ \cup {reg}]
     \/ Goes(u, "end_events") /\ UNCHANGED mem
  /\ UNCHANGED <<tableVars, device, adapter, left, pending, trouble, disturbed>>

MapPciReg(u) == MapReg(u, "pci", "nvme")

\* The BAR is read through the first mapping, which a stop may have released.
MapNVMeReg(u) ==
  \/ "pci" \in mem[u] /\ MapReg(u, "nvme", "adminq")
  \/ At(u, "nvme") /\ "pci" \notin mem[u] /\ Dies(u)

\* The two rings, one after the other.  A failing allocateDMA, as it is without
\* an adapter, is ignored and the null address written to.
InitAdminQ(u) ==
  /\ At(u, "adminq")
  /\ \/ /\ adapter
        /\ IF client[u].i = 0 THEN Turn(u) ELSE Goes(u, "ctrl")
        /\ mem' = [mem EXCEPT ![u] = @ \cup {"pool"}]
        /\ UNCHANGED <<tableVars, device, adapter, left, pending, trouble, disturbed>>
     \/ /\ adapter => "dma_fails" \in Faults
        /\ Dies(u)

\* initCtrl (module ControllerInit) looks at nothing but the registers: it may
\* succeed while the device has no interrupt.  It resets the controller, which
\* forgets its commands.
InitCtrl(u) ==
  /\ At(u, "ctrl")
  /\ \/ /\ "nvme" \in mem[u]
        /\ \/ Begins(u, "create") /\ pending' = {}
           \/ Begins(u, "end_events") /\ pending' \in {{}, pending}
        /\ UNCHANGED <<tableVars, device, adapter, mem, left, trouble, disturbed>>
     \/ "nvme" \notin mem[u] /\ Dies(u)

\* Fault: i <= MessageCount.
LastCreatedLate(u) == client[u].i > granted

LastCreated(u) == client[u].i >= granted

\* acquireEvent: CREATE_EVENT's loop, then eventnum, which keeps whatever value
\* it has when the call fails or has made no event.
AcquireEvent(u) ==
  LET v == client[u].i IN
  /\ At(u, "create")
  /\ \/ ~LastCreated(u) /\ CreateEvent(v) /\ Turn(u) /\ UNCHANGED trouble
     \/ /\ ~LastCreated(u) /\ "create_fails" \in Faults
        /\ CreateEventFails(v) /\ Begins(u, "end_events")
        /\ Notes({"create_failed"})
     \/ CreateEventAstray /\ UNCHANGED <<client, trouble>>
     \/ /\ Connected /\ LastCreated(u) /\ granted > 0
        /\ client' = [client EXCEPT ![u].at = "sync", ![u].num = granted]
        /\ UNCHANGED <<tableVars, trouble>>
     \/ /\ Connected /\ granted = 0
        /\ Goes(u, "end_events")
        /\ UNCHANGED <<tableVars, trouble>>
  /\ UNCHANGED <<device, adapter, mem, left, pending, disturbed>>

\* initThread creates its two events and starts isr_thread.
InitThread(u) ==
  /\ At(u, "sync")
  /\ Begins(u, "open") \/ Goes(u, "end_events")
  /\ UNCHANGED <<tableVars, device, adapter, mem, left, pending, trouble, disturbed>>

\* Fault: <= MAX_VECTOR_NUM.
LastOpenedLate(u) == client[u].i = MaxVectors + 1

LastOpened(u) == client[u].i = MaxVectors

\* isr_thread opens the events in turn, however many the device was granted,
\* and sets ghThreadStart after the last; it returns when one is missing, and
\* init waits for ever.
OpenEvents(u) ==
  LET v == client[u].i IN
  /\ At(u, "open")
  /\ \/ ~LastOpened(u) /\ OpenEvent(u, v) /\ Turn(u)
     \/ ~LastOpened(u) /\ v \notin Existing /\ Goes(u, "stuck") /\ UNCHANGED tableVars
     \/ LastOpened(u) /\ Goes(u, "running") /\ UNCHANGED tableVars
  /\ UNCHANGED <<device, adapter, mem, left, pending, trouble, disturbed>>

InitStep(u) == \/ InitDevice(u) \/ MapPciReg(u) \/ MapNVMeReg(u)
               \/ InitAdminQ(u) \/ InitCtrl(u)
               \/ AcquireEvent(u) \/ InitThread(u) \/ OpenEvents(u)

-----------------------------------------------------------------------------
(* Commands.                                                               *)

\* A call on a queue of some vector: the controller makes none on a vector the
\* device was not granted.  The rings are mapped into the process unless a stop
\* has released them: then the call is an access violation.
Call(u) ==
  /\ At(u, "running")
  /\ \/ /\ "pool" \in mem[u]
        /\ \E v \in {v \in Vectors : v < MaxVectors /\ v < client[u].num} :
             /\ client' = [client EXCEPT ![u].at = "command", ![u].vec = v]
             /\ pending' = pending \cup {<<u, v>>}
        /\ UNCHANGED <<tableVars, device, adapter, mem, left, trouble, disturbed>>
     \/ "pool" \notin mem[u] /\ Dies(u)

\* The controller completes a command and interrupts.  Its process may be gone.
Completes(u, v) ==
  /\ <<u, v>> \in pending
  /\ pending' = pending \ {<<u, v>>}
  /\ MessageArrives(IF interrupt = "line" THEN 0 ELSE v)
  /\ IF At(u, "command") THEN Goes(u, "waiting") ELSE UNCHANGED client
  /\ UNCHANGED <<device, adapter, mem, left, trouble, disturbed>>

\* The DPC's next event call, a set where an even number is left.  A set may
\* wake the isr_thread of those who wait for that vector, which lets the call
\* return, or they miss it.
DpcPulse ==
  /\ DpcCall
  /\ \E W \in SUBSET {u \in Users : At(u, "waiting") /\ client[u].vec = messageId} :
       /\ W # {} => calls % 2 = 0 /\ crash' = "no"
       /\ client' = [u \in Users |->
                       IF u \in W THEN [client[u] EXCEPT !.at = "running", !.vec = 0]
                       ELSE client[u]]
  /\ UNCHANGED <<device, adapter, mem, left, pending, trouble, disturbed>>

-----------------------------------------------------------------------------
(* ~CNVMe and the end of the process.                                      *)

\* The last call has returned at the first set of its event, and nothing waits
\* for the rest of the DPC.
Destruct(u) ==
  /\ At(u, "running")
  /\ Goes(u, "end_events")
  /\ Notes({w \in {"under_way"} : calls > 0})
  /\ UNCHANGED <<tableVars, device, adapter, mem, left, pending, disturbed>>

\* releaseEvent: eventnum may be anything when acquireEvent has not set it.
ReleaseEvent(u) ==
  /\ At(u, "end_events")
  /\ \/ DeleteEvents
     \/ client[u].num = 0 /\ UNCHANGED tableVars
  /\ Goes(u, "end_pool")
  /\ UNCHANGED <<device, adapter, mem, left, pending, trouble, disturbed>>

Release(u, what, place, next) ==
  /\ At(u, place)
  /\ Goes(u, next)
  /\ mem' = [mem EXCEPT ![u] = @ \ {what}]
  /\ UNCHANGED <<tableVars, device, adapter, left, pending, trouble, disturbed>>

\* Fault: the BAR is left mapped.
FreePoolOnly(u) == Release(u, "pool", "end_pool", "end_pci")

FreePool(u) == Release(u, "pool", "end_pool", "end_nvme")
UnmapNVMeReg(u) == Release(u, "nvme", "end_nvme", "end_pci")

\* The last unmapping, and the process ends.
UnmapPciReg(u) ==
  /\ At(u, "end_pci")
  /\ CloseProcess(u)
  /\ client' = [client EXCEPT ![u] = Out]
  /\ mem' = [mem EXCEPT ![u] = @ \ {"pci"}]
  /\ UNCHANGED <<device, adapter, left, pending, trouble, disturbed>>

EndStep(u) == ReleaseEvent(u) \/ FreePool(u) \/ UnmapNVMeReg(u) \/ UnmapPciReg(u)

Kill(u) == "kill" \in Faults /\ client[u].at # "out" /\ Dies(u)

-----------------------------------------------------------------------------
(* PnP.                                                                    *)

\* HandleStartDevice up to the device's address, which GET_BDF reports from then
\* on.  A start that fails before that changes nothing.
BeginStart ==
  /\ crash = "no" /\ device \in {"new", "stopped"}
  /\ device' = "starting"
  /\ UNCHANGED <<tableVars, adapter, clientVars>>

\* IoGetDmaAdapter, which may have nothing to give.
GetAdapter ==
  /\ crash = "no" /\ device = "starting" /\ ~adapter
  /\ \/ adapter' = TRUE /\ UNCHANGED device
     \/ device' = "failed" /\ UNCHANGED adapter
  /\ UNCHANGED <<tableVars, clientVars>>

\* Fault: the status of IoConnectInterruptEx is not looked at.
ConnectFailureIgnored ==
  /\ crash = "no" /\ device = "starting" /\ adapter
  /\ device' = "started"
  /\ UNCHANGED <<tableVars, adapter, clientVars>>

\* IoConnectInterruptEx fails and with it the start, which keeps the adapter.
ConnectFails ==
  /\ crash = "no" /\ device = "starting" /\ adapter
  /\ device' = "failed"
  /\ UNCHANGED <<tableVars, adapter, clientVars>>

\* IoConnectInterruptEx succeeds and with it the start.
StartDevice ==
  /\ device = "starting" /\ adapter
  /\ ConnectInterrupt
  /\ device' = "started"
  /\ UNCHANGED <<adapter, clientVars>>

\* HandleStopDevice: releaseResource also empties the memory lists and puts the
\* adapter back.
StopDevice ==
  /\ device = "started"
  /\ ReleaseInterruptAndEvents
  /\ device' = "stopped" /\ adapter' = FALSE
  /\ mem' = [u \in Users |-> {}] /\ left' = FALSE
  /\ disturbed' = disturbed \cup
                    {u \in Users : client[u].at \in InitPlaces \ {"device"}}
  /\ UNCHANGED <<client, pending, trouble>>

PnpStep == BeginStart \/ GetAdapter \/ ConnectFails \/ StartDevice \/ StopDevice

NextLife ==
  \/ \E u \in Users : \/ Construct(u) \/ InitStep(u)
                      \/ Call(u) \/ (\E v \in Vectors : Completes(u, v))
                      \/ Destruct(u) \/ EndStep(u) \/ Kill(u)
  \/ DpcPulse
  \/ PnpStep

\* A thread inside init or the destructor is scheduled.
SpecLife ==
  /\ InitLife /\ [][NextLife]_lifeVars
  /\ \A u \in Users : WF_lifeVars(InitStep(u) \/ EndStep(u))

-----------------------------------------------------------------------------
\* While a client works, the driver pulses the very events its isr_thread
\* waits for, after any number of earlier clients, failed inits, stops and
\* ended processes, and whatever the device was granted from start to start.
ChannelIsDrivers ==
  \A u \in Users : client[u].at \in {"running", "command", "waiting"} =>
    \A v \in Vectors : v < MaxVectors /\ v < client[u].num => pEvent[v] = "live"

\* The DPC follows a pointer to an event that is gone only where a process died
\* while a command of it or the DPC was under way, or went into its destructor
\* before the DPC of its last command was through.
DpcFindsEvent == crash = "dpc" => "under_way" \in trouble

\* CREATE_EVENT follows an InterruptObject that is not there only for a client
\* that found the device not started or has seen it stopped inside init: a
\* device that reports itself started has an interrupt and keeps it.
CreateFindsInterrupt ==
  crash = "create" => \E u \in Users : client[u].at = "create" /\ u \in disturbed

\* When every process has ended by its destructor, however far its init came
\* and whatever state the device was in, no event and no memory of theirs is
\* left.
NothingLeft ==
  /\ trouble \cap {"create_failed", "died"} = {}
  /\ \A u \in Users : client[u].at = "out"
  => Existing = {} /\ ~left /\ \A u \in Users : mem[u] = {}

\* An event's handle is overwritten, and so never closed, only after a process
\* has died or a CREATE_EVENT has failed.
LostOnlyAfterTrouble == lost # {} => trouble \cap {"died", "create_failed"} # {}

\* init returns: isr_thread finds its events and reports that it has started,
\* unless the device was granted fewer messages than it opens events, a stop
\* closes them first, or the machine goes down.
InitReturns == \A u \in Users :
  client[u].at = "device"
    ~> \/ client[u].at \notin InitPlaces \cup {"stuck"}
       \/ client[u].at = "stuck" /\ (client[u].num < MaxVectors \/ u \in disturbed)
       \/ crash # "no"
=============================================================================
