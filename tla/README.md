# Verification of WinPCIeUserSpaceDriver

WinPCIeUserSpaceDriver is a Windows kernel driver (`winpci.cpp`) that gives a
user program access to a PCIe device, and a user-space NVMe client on top of it
(`ctrl.cpp`, `ctrl.h`, `test.cpp`). This directory holds TLA+ models of both,
TLC configurations that check them, and TLAPS proofs. `src/driver/` is a copy of
the driver's files at the root of the repository; the models name the root copy.

## The system

| Part | State it keeps | Operations | What is hard about it |
|---|---|---|---|
| Interrupt path (`MSI_ISR`, `DPC`) | `MessageId`, the one DPC object of the device, `pEvent[]` | store the message and request the DPC; set the event, stall, clear it, stall, set it, clear it | one cell and one DPC for all vectors, several processors, a pulse lasts only a moment |
| Command path (`CNVMe` calls, `isr_thread`) | rings, heads, tails, phases, `ghSyncCommand` | fill an entry, ring, wait; consume completions, signal | a call hangs when its pulse is missed; a signal too many frees memory under the controller |
| Memory IOCTLs | `controlCount`, two lists, `dmaAdapter` | map, unmap, allocate, unallocate; `releaseResource` on stop | unlocked walks, a counter read twice, stops under open handles |
| Device numbers | `gbDeviceNumber`, object and link names | AddDevice, RemoveDevice; `initDevice` on the client's side | failures half-way, the table's end, numbers used again |
| Event table | `eventHandle[]`, `pEvent[]` | CREATE_EVENT, DELETE_EVENT | pointers outlive handles, clean-up of a partial failure |
| PnP start and stop | `InterruptObject`, `bInterruptEnable`, `dmaAdapter` | StartDevice, StopDevice, RemoveDevice | IOCTLs between a stop and a start |
| Client life (`init`, destructor) | handle, mappings, pool, thread, two named events | constructor, `init`, destructor | a failing step, a detached thread, events shared with other clients |
| Controller handshake (`initCtrl`) | CC, CSTS registers | disable, set up, enable | polling with a limit |
| Configuration access, secondary bus | `SecondaryBus_PhyDevice`, one request per call | GET_SBOBJ, READ/WRITE_CONFIG, READ/WRITE_CONFIG_SB | one pointer for all processes, without a reference; a request that outlives its stack; hotplug |
| Power, cleanup, create, close; logger; delay | none | complete the request | what they leave undone |

How they meet: the client's calls write to rings in DMA memory got from the
memory IOCTLs; the controller answers with a completion entry and a message; the
message runs `MSI_ISR` and the DPC, whose pulse of a named event wakes
`isr_thread`; `isr_thread` consumes the entry and signals `ghSyncCommand`, which
lets the call return. PnP requests come at any time from another thread.

`PROJECT.json` lists every part under "components" and, line by line, what can go
wrong in it under "hazards".

## Modules

| Module | What it models |
|---|---|
| `Interrupts` | `MSI_ISR`, `IoRequestDpc`, `DPC`, the events, and `isr_thread` in and out of its wait |
| `PulseHistory` | `Interrupts` with a history variable: which vectors still have a pulse to come |
| `PulseHistoryProofs` | proofs about it |
| `SyncCommand` | the abstract specification of one client call |
| `CommandPath`, `CommandPathProofs` | the whole way of a command: client, controller, driver (by `EXTENDS Interrupts`), `isr_thread`; proofs |
| `MemoryLists`, `MemoryListsProofs` | the four memory IOCTLs and the release by PnP; proofs |
| `DeviceNumbers`, `DeviceNumbersProofs` | AddDevice, RemoveDevice and the numbers; proofs |
| `EventTable` | CREATE_EVENT, DELETE_EVENT, the lives of the event objects, the DPC's pointers to them |
| `ClientLife` | processes from the constructor of `CNVMe` to their end, on one device (by `EXTENDS EventTable`) |
| `ClientLifeProofs` | proofs about both |
| `SharedEvents`, `SharedEventsProofs` | the two named events by which `isr_thread` wakes its client, shared by clients; proofs |
| `ControllerInit`, `ControllerInitProofs` | `initCtrl` and a controller that answers in its own time; proofs |
| `ConfigAccess`, `ConfigAccessProofs` | the configuration space and secondary bus IOCTLs, the requests to the bus driver, PCI devices that come and go; proofs |
| `MC...` | instances for TLC: symmetry sets |

### Interrupts

`messageId` is `DEVICE_EXTENSION.MessageId`; `dpcQueued` says the device's one
DPC object is in a queue; `dpc[c]` is the DPC as processor `c` runs it, with the
vector it has read for the call it is about to make; `event[v]` is `pEvent[v]`;
`isr[v]` is how far the service routine of message `v` has come; `waiter` is
`isr_thread`. A message is `RaiseMsi`, then `IsrStore` (line 125) and
`IsrRequestDpc` (line 126), which does nothing when the DPC is queued already.
`DpcStart` takes it from the queue; each of its four event calls reads
`MessageId` anew (`DpcLatch`) before `DpcSet` or `DpcClear` acts, so the vectors
of a set and of the clear after it may differ. Another processor may start the
DPC again while the first runs. The stalls of line 171 and after are steps
of their own.

`WaitForEvents` is `WaitForMultipleObjects`: it takes the lowest signalled
vector or blocks. A set of an event wakes a blocked thread at once; a thread that
is not in its wait sees only what is still signalled when it gets there. That is
all a pulse is.

### CommandPath and SyncCommand

One client thread calls `identify_ctrl` and `SetFeaturesFID7` at any time,
`initIoQ` once (`create_cq`, `create_sq`), `read` any number of times and then
`deleteIOSQ` and `deleteIOCQ`, in the order of `test.cpp`. A call is `Prepare` (allocate
the buffers, fill the entry, advance the tail), `RingDoorbell`, `Wake` (the wait
on `ghSyncCommand`) and `Finish` (release the buffers, return). The controller
(`Fetch`, `Execute`) is external: it takes entries up to the doorbell, completes them with
success or an error, writes a phase tag and raises the queue's message. A queue
exists on the controller only after a successful create command; `initIoQ` does
not look at the status and goes on. `isr_thread` is `WaitForEvents`, `Consume`,
`SignalCommand` and `LeaveLoop`.

`setup` is chosen once from the constant `Setups`: the operations the client may call and the
processors that run DPCs. `late` is a history: a stall of the DPC ended before `isr_thread`
was back in its wait, while only the admin queue was in use. `Kernel` is a step of
`Interrupts` that notes this.

A completion entry is its phase tag; a submission entry is the operation and the
DMA buffers it names. Addresses, command identifiers, data and namespaces are
left out: no property tells them apart.

`SyncCommand` is what a call promises: its buffers are held from its issue to
its return, lent to the controller from issue to completion, and the return comes after the
completion. `CommandPath` implements it under the mapping `call <- Call`,
`held <- app.bufs`, `lent <- Lent`.

### MemoryLists

A map or allocate is `RequestMemory` (for a buffer, the test of `dmaAdapter`), `ObtainMemory`
(allocation through the adapter, MDL and mapping, with what a failing step undoes), `CountMemory` (the
increment), `RecordIndex` (the entry's read of `controlCount`), `InsertEntry` and `Reply` (the second
read); an unmap is `BeginWalk`, `FindEntry` (index and address are compared), `ReleaseMemory` and
`UnlinkEntry`. The walk takes no mutex: when an entry of its list is freed between its start and its end it
is `torn`, may miss what is there, and may crash. `ReleaseDevice`, `DrainList` and
`PutAdapter` are `releaseResource`, for a stop or a removal; `StartDevice` gets an adapter unless
there is one, and may fail before, with, or after it. `device` is what PnP has last done.
`InsertEntry`, `UnlinkEntry` and the loop of `DrainList` exclude one another, as the
mutex of the list makes them. `live` and the `id` of a memory are histories. `crashed`
is the bug check that releasing something twice, a buffer without its
adapter, or reading a freed entry would be.

Calls and releases overlap freely. `overlapped` is a history that notes when they first do: one
process that makes one call at a time, on a device stopped between its calls, is what the code
assumes and does not enforce, and three of the properties speak only of the time until then.

### DeviceNumbers

Each device goes through `PickNumber`, `CreateDevice`, `AttachDevice`,
`CreateLink`, then `DeleteLink`, `DeleteDevice`, `FreeNumber`, and different
devices interleave. A failure of AddDevice leaves exactly what the code leaves: a number
taken for ever, a device object that stays. `exhausted` records that a scan found no free
number and went on with 0.

### EventTable and ClientLife

`eventHandle`, `pEvent`, `interrupt` (`InterruptObject`) and `messageId` are fields
of the device extension; `lost` holds the handles that were overwritten while open, `opened`
those of the processes. An event exists while somebody has a handle to it. The pointer
in `pEvent` keeps nothing alive, so closing the last handle turns it from "live" to
"freed". One turn of CREATE_EVENT's loop is `CreateEvent` or, with the exact clean-up of the
code, `CreateEventFails`; without an object behind `InterruptObject` it is `CreateEventAstray`.
`granted` is the `MessageCount` it reads there: some number up to the table's size, and any
number when the kernel has connected the line instead of messages, since the object is then no message
table. `calls` counts the event calls the DPC still has to make, those of a second run queued meanwhile
included; each follows `pEvent[messageId]`. Whether an event is signalled is left to `Interrupts`.

`ClientLife` puts these handlers in the order of the client: `Construct`, the
steps of `init` in the order of `ctrl.cpp:46`, each with its failure, `Call`, `Destruct` and the
steps of the destructor. A step of `init` that fails leads to the destructor, which releases
what there is; `eventnum` counts as 0 until CREATE_EVENT has answered, and then
`releaseEvent` may do either thing. Unmapping registers that were never mapped finds no
entry in the driver's list and changes nothing. `initCtrl` looks at the registers only, so it succeeds
on a device without an interrupt too, and it resets the
controller, which forgets commands. `OpenEvents` opens `MaxVectors` events, however many the device was granted.
`Dies` is a process that ends without its
destructor, killed or by an access violation; the driver notices nothing, keeps what it has mapped (`left`), and
the controller completes its command all the same (`Completes`). `pending` holds the commands at the controller, of live
processes and dead ones.

`device` is how far its start has come: `BeginStart` (the address, by which clients find the device from
then on), `GetAdapter`, and `StartDevice` (the interrupt) or `ConnectFails`. A start that fails leaves what it has
got; what PnP does with such a device is in `MemoryLists` and `DeviceNumbers`. `StopDevice`
takes interrupt, handles, adapter and mappings away under the clients.

`trouble` is a history of what no client can prevent; the properties say which trouble
excuses what. "under_way" stands for two of them: a process died with a command or the DPC under
way, or went into its destructor before the DPC was through, whose second pulse (line 173) then
follows an event that ended with the process. `disturbed` holds the clients that found their device not
started, or have seen it stopped inside `init`.

Some steps are coarser than the code: a DPC's read of `pEvent` and the call with it are one step (the calls
are four, anything may happen between two of them, and `DpcInv` of the proofs has a working client hold the event from the
first to the last, so that the instant of the read makes no difference); a second run of the DPC, which another processor may
start at once, follows the first; the debug output of `HandleStartDevice`, which reads the line's object as a
message table, is left out.

### SharedEvents

The events "thread start" and "sync command" have the same names for every client, whatever
its device is. `signal[e]` holds who has set event `e`, or `Creation` for the initial state CreateEvent
gives it; the event is signalled unless the set is empty, and it goes with its last handle.
`CreateStart`, `ResetStart`, `CreateSync`, `ResetSync`, `StartThread` and `WaitStart` are `initThread`
line by line; `Command`, `BeginWait` and `WaitSync` stand for the seven calls that ring a doorbell
and wait; `ThreadStarts` and `ThreadSignals` are the two places where `isr_thread` sets an event.
`Ends` is the destructor and the end of the process, at any point. Between a command and its signal
lies all of `CommandPath`; here it takes one step and never fails. `met`, `robbed` and `stale` are histories.

### ConfigAccess

One call at a time on each handle. A lookup is `StartLookup` (the first enumeration, which counts),
`ListDevices` (the second, with references), `StoreMatch` and `ReleaseList`; it ends with success
even when it found nothing or `LookupFails`. An access is `StartAccess` (a reference to the target), for the
device itself (`AccessOwn`) or for the one looked up last (`AccessSecondary`), then
`SendRequest`, `CallDriverReturns`, `WaitForRequest` if the bus driver has it pending, `EndAccess`. `StatusAtBus`
gives the statuses the request may arrive with: the preset error, or success where it passed `HandleReadConfig` or
`HandleWriteConfig` of this driver on its way. That is the case for the device itself and for every other device this
driver has been attached to (`attached`, `DriverAttaches`), up to some time after such a device has gone. The
bus driver (`BusCompletes`) and hotplug
(`DeviceArrives`, `DeviceGoes`) are external: it moves data and says so, fails, or leaves the status alone,
before or after `IoCallDriver` returns. A device object exists while it is listed or referenced; using one that
does not, or dereferencing past the list, sets `crashed`. `disturbed` and `hotplug` are histories.

### ControllerInit

`env` is chosen once: "orderly" means that CSTS.RDY follows CC.EN within CAP.TO
half-seconds and that no client is ended inside `initCtrl`; "any" promises
nothing. `Poll` is a turn of one of the two loops with `LimitReached` as the code writes it
(`cnt++ > cap.to`). Each client has its own queue memory (`mine`); `regs` is what
AQA, ASQ and ACQ hold, `starting` and `inUse` what the controller took from them. What a controller
does whose CC.EN changes before CSTS.RDY has followed is left open: the start under way may be
dropped or carried through.

## Runs

| Run | Instance | What it shows |
|---|---|---|
| `pulse` | 2 vectors, 2 processors, fairness | whenever the kernel is idle, the last vector to interrupt has been pulsed since and its event is clear; an interrupt is pulsed in the end unless the other vector's message overwrites `MessageId` |
| `io_path` | rings of 2 entries, 2 buffers, the life of an I/O queue | types, DMA safety, phases over wraps, order of `initIoQ`, refinement |
| `command_returns` | creation of the queues and reads on 1 processor, `identify_ctrl` on 2, `SetFeaturesFID7`; fairness | a call that does not return has missed its pulse or reads on a queue the controller lacks; until the I/O queues are in use every call returns as long as no stall has ended before `isr_thread` was back |
| `memory` | 2 handles, 2 addresses, 3 mappings, walks, starts, stops, removal, overlapping or not | memory that exists is accounted for; until calls overlap, replies name their own memory, nothing is released twice or without its adapter |
| `memory_race` | as above | **violated**: a reply whose index is another's (`winpci.cpp:1044`) |
| `device_numbers` | 3 devices, 3 numbers, failures that leak them | links lead to their devices, free numbers have no names |
| `device_search` | 3 devices, 3 numbers, 2 tried | **violated**: a device `initDevice` never tries (`ctrl.cpp:79`) |
| `handshake` | 4 memories, CAP.TO 4, both environments | a controller that answers in time is taken over with the client's own queues and never disturbed on its way; `initCtrl` ends in any case and never gives up early |
| `client_alone` | 1 process at a time, up to 2 messages granted, 2 events opened, every failure, kills, starts that fail, stops at any point | the driver pulses the events the client waits for; orderly clients leave nothing; each missing or dangling pointer and each lost handle has its cause; no event a process has open is freed under the driver; `init` returns unless there are too few messages |
| `shared_events` | 3 clients, 1 command under way each; fairness | no wait takes a signal older than its client; a sleep without end has a thief |
| `config_access` | 2 handles, 1 device besides the own one, 2 addresses, hotplug; fairness | requests are covered by a waiting caller, lookups serve until disturbed, success past other drivers' stacks is real, every call returns |
| `config_status` | as above | **violated**: an access to the device itself reports success without data (`winpci.cpp:776`) |

Bounds. Vectors: the code treats vectors alike but for the order in which
`WaitForMultipleObjects` looks at them; two are enough for one to overwrite
or hide the other. Two processors are enough for the DPC to run beside itself and beside a
service routine. Rings of two, of the admin and of the I/O queue, wrap several times in a run,
so both phases and the change between them occur at every position; the proofs are for any depth. A client call is synchronous, so one command is outstanding at a time and
more buffers than a read takes add nothing. `MaxCount` bounds how many mappings
are ever made: three let two of them race and a third reuse an address; the proofs do without.
Two messages and two
events let a device be granted too few, enough, and none behind a line; the clean-up of a failing CREATE_EVENT
(`j < i - 1`) forgets a handle there, and with three messages closes one besides. That case, more
vectors, and what several processes do to each other's events are in the proofs, for any number. Three clients of the shared events let one take a
signal that two others wait for, and one command each is enough, since a client woken too early
sends its next one only after the first has signalled. One device besides the own one can be
found, missed, removed and arrive inside a lookup; it and the own one may answer the same
address, different ones or none. A client of `initCtrl` needs memory that neither the
registers, a start under way nor the controller names, so four memories never run out, and CAP.TO
of 4 lets the controller answer before, at and after the limit.
Three numbers for three devices reach the end of the table, since an AddDevice that fails keeps its number, and a device that failed is added again; numbers are reused as well.
Deadlock checking is off only where the system may rest: when every call has returned
(or hangs, which the liveness properties speak about), when no device interrupts any more, and
after a crash in the memory, client and configuration runs. In `shared_events` it stays on.

Fairness. In `shared_events` the waits return when their event is set and `isr_thread` runs; nobody
has to send a command or to end. In `config_access` a thread inside a call is scheduled and the bus driver
completes what it was sent; no device has to come or go. In `client_alone` a thread inside `init` or the destructor is scheduled; nobody has to
start a client or to make a call. In `handshake` the client polls on, and only an orderly
controller must answer. `KernelStep`s are fair: interrupts and DPCs are run by the
hardware and the kernel. `isr_thread` and a client thread inside a call are runnable
threads and are scheduled. The controller executes what it is given. Raising
a message without a command, and making another call, are never required. All of it is weak
fairness: no step competes for ever with others. Liveness is checked without
symmetry where a processor's identity appears in the fairness condition.

## What the checks say about the code

* One `MessageId` and one DPC do serve the last interrupt: when the kernel comes
  to rest, the vector that interrupted last has been pulsed. They do not serve the
  others; a vector whose message came first may get no pulse.
* A call hangs in exactly two ways: `isr_thread` missed the pulse
  (it was busy with another vector, or not back in its wait, or a lower event is
  stuck signalled because its clear went to another vector), or the read goes to a
  queue the controller never created. As long as `isr_thread` is always back in its wait before a
  stall of the DPC ends, every admin call returns: the second pulse is what makes
  the driver work. (With one pulse the property fails.)
* Whatever the pulses do, no call returns early: buffers are not freed under the
  controller.
* A second client overwrites the handles of the first, but the events themselves are shared by name,
  so neither loses its own while it has them open. Handles the driver loses are never closed.
* The DPC follows a pointer to an event that is gone in one case: a process died with a
  command or the DPC's second pulse under way, nobody else has its events open, and the driver's handles go
  with a stop or a later client.
* CREATE_EVENT uses an interrupt object that is not there when a client comes while the start is still under way or
  after it has failed in `IoConnectInterruptEx`, since the device can be found and its registers work, and when a
  stop falls into `init`. On a device that is and stays started it has its object, which need not be a
  message table.
* A device granted fewer messages than the nine events `isr_thread` opens leaves `init` waiting for ever
  (`ctrl.cpp:648`). Nothing else does, but a stop inside `init`.
* `initCtrl` clears CC.EN without looking at CSTS.RDY. After clients that finish their `initCtrl` on
  a controller within CAP.TO that is always a settled controller; after a timeout or a kill it need not be.
* Two clients of one session wake each other: a call may return before its command, and a
  client may sleep for ever because another's wait or `initThread` took its signal. The resets of `initThread` do their
  part: nobody is woken by the initial state of an event or by a client that was gone before.
* GET_SBOBJ reports success when it finds nothing, and its pointer is one for all processes and unreferenced:
  a secondary access without a successful lookup of one's own, or after a removal, goes to another device or to none. A device
  that arrives between its two enumerations makes it dereference past the list.
* The driver's own dispatch turns a status that nobody set into success (finding 3), for the device itself and for a
  secondary device this driver is attached to as well. Only where the target's stack is without this driver is success the
  bus driver's.
* Memory mapped through a handle that is still open after the removal stays listed and is released by
  nothing but an unmap. A start that fails to connect its interrupt keeps the adapter for the next one.
* `controlCount` read twice breaks unmap when two maps overlap (finding 1).
* Only the first 26 of 100 devices are found by `initDevice` (finding 2).

## Proofs

Proved for every value of the constants, from the named assumptions of the
modules only (`DevicesFinite`, `NullIsApart`, `OutstandingAssumption`, ...).

* `PulseHistoryProofs`: types; `LastInterruptInv`, the strengthening of
  `LastInterruptServed`: while `messageId` is owed a pulse or its event is
  signalled, the DPC is queued, about to be requested, or runs at a stage from which it still
  reads `MessageId` and acts on it. It is needed because "the kernel is idle"
  says nothing about how it came to be idle.
* `MemoryListsProofs`: types, every index within `controlCount`;
  `LiveIsAccountedFor` however calls overlap, with `UnlinkedIsGone` (what an unmap
  unlinks it has released) as its strengthening; and `NeverCrashes`, `TokenNamesItsMemory` and
  `BuffersHaveAdapter`, which speak of the time until calls overlap, from
  `SerialInv`. That invariant says what the running handler holds at each
  stage, that an entry's index is its number and numbers do not repeat, and that the DMA
  list is empty while there is no adapter.
* `DeviceNumbersProofs`: types; `LinkLeadsToDevice` for any number of devices,
  from the ownership of device objects: the object's name excludes a second device, not the
  number; `FreeNumberIsUnused` until the numbers run out, from the fact that
  a device under way holds its number alone.

* `CommandPathProofs`, for rings of any depth, any buffers, processors and programs. `PathInv` has four parts:
  types; `OneCommand`, which says that the command of the call under way is at exactly one place (the submission
  ring, the controller, the completion ring, the hands of `isr_thread`, or `ghSyncCommand`) and at none before
  and after the call; `RingTagged`, which gives the tag of every slot of a completion ring and the phase; and `IoVectorSilent`, which keeps
  kernel and `isr_thread` off the I/O vector until `initIoQ` is done. `NoDmaIntoFreedBuffer` and
  the step-by-step refinement of `SyncCommand` follow from the second part: no pulse, late or surplus, moves the
  token. They are not inductive alone, since whether a signal is one too many shows only in what was
  queued before it. `PhaseTellsPosted` follows from the third part, `IoQueueReady` from the fourth. The path is also shown to
  implement `Interrupts`: what kernel and `isr_thread` do in it is what that module allows.
* `ControllerInitProofs`: types; `TimeoutIsJustified` from `CountIsTime`, which says that a loop has not
  counted more polls than half-seconds have passed; `ReadyMeansOurs` and `TouchedWhenSettled`
  from `Settled`, which describes controller and client at each stage of an orderly
  `initCtrl`. It is needed because a client relies on the state in which all clients before it
  left the controller.
* `ClientLifeProofs`: `HeldIsNotFreed` for any callers of the event IOCTLs, from `FreedIsGone` (a pointer
  that leads nowhere belongs to an event nobody has a handle to). Then, since every step of
  `ClientLife` is one of the table's or none (`LifeIsTable`), that it implements `EventTable`; its types;
  `ChannelIsDrivers` and `DpcFindsEvent` for any number of
  processes while no CREATE_EVENT has failed; and `CreateFindsInterrupt`. Their invariant
  `LifeInv` adds what `isr_thread` has open at each stage, what the device has at each stage of its start, and that a
  client which is not disturbed is on a device that is started (`HandlesAreGranted`, `DeviceInv`). `EndInv` adds that every handle in the table is one that some client's destructor
  will close: when all have ended, however many ran side by side, what is left are overwritten handles (`OnlyLostIsLeft`).
* The same module, for clients that come one after the other (`[]OneAtATime`, which every behaviour of a
  single process satisfies): `LostOnlyAfterTrouble`, `NothingLeft`, and `ChannelIsDrivers` and `DpcFindsEvent` even after
  failures, because such a client has created all of its events anew (`CreatedIsNotNull`). The hypothesis is the code's own assumption and
  is needed. Of two clients side by side the second CREATE_EVENT overwrites a handle with no trouble before it, and
  the DELETE_EVENT of one closes the events that the other's `isr_thread` has yet to open.
* `ConfigAccessProofs`: types; `RequestIsCovered` and `StatusIsFromBus` from what a call holds and has got
  at each of its stages; `LookupServes` from `LookupInv`: until a device comes inside a lookup or goes, a lookup has room for all
  and the device stored is present; and a process that is not disturbed has its own behind the pointer.
* `SharedEventsProofs`: types; `NoStaleWake` from `SharedInv`: clients that are there at once have met, and
  from a client's reset of an event on, the event stores only signals of clients it has met. It is needed because the
  creation of an event and its reset are two steps, with other clients between them.

Every invariant, action property and refinement that a passing run checks is stated by a theorem.

### What is proved about liveness

Liveness itself stays with TLC: `ENABLED` and fairness are out of the prover's reach. Its safety half is proved: in the
states in which a system could stop, what ought to have happened has happened. "Could stop" is written
with the guards of the obliged steps spelled out. What these theorems leave to
TLC is that nothing goes on for ever without getting there.

| Checked by TLC | Proved, for every value of the constants |
|---|---|
| `InterruptPulsed` | `LastInterruptInvariant`: a pulse that is owed has a DPC run to come |
| `HangsOnlyByMissedPulse` | `WaitsAreExplained`: when nobody has a step to make for a waiting call, its completion was overlooked or its queue does not exist |
| `CallsReturn` | `PunctualThreadSeesAdmin`, `PunctualCallsDoNotHang`: with a punctual `isr_thread` there is always a step, from `PulseComing` (an entry not yet seen has a pulse to come that cannot be missed) |
| `PunctualIsTakenOver`, `InitCtrlEnds` | `HandshakeIsNeverWedged`; `InitCtrlGoesForward`: every turn leads to a later stage or counts one of CAP.TO + 1 polls |
| `InitReturns` | `LoneClientsAreNotStuck`: `isr_thread` finds its events, for clients one after the other, unless fewer messages were granted than it opens events or the device was not started throughout; with `CreateFindsItsInterrupt` and `LoneClientsDpcFindsEvent` for the crashes |
| `SleepsOnlyIfRobbed` | `OnlyTheRobbedSleep`, from `SignalOwed` (who has waited since its command is owed a signal, has one stored, or was robbed) |
| `CallsComplete` | `WaitsAreAnswered`: the request of a thread in its infinite wait is at the bus driver |

Without its condition `PunctualCallsDoNotHang` is false: TLC finds calls at rest. No module
uses RECURSIVE operators and nothing here needs induction over data.

## Plan

1. `CommandPath` with a second `initIoQ` on the same object, and `isr_thread` past the destructor.
2. `DeviceResources`: start, stop and remove step by step with the interrupt, adapter and lists in one
   module; the loops that close event handles, turn by turn.
3. An abstract channel that both `SharedEvents` and `CommandPath` implement.
4. The theorems of `PulseHistory` carried over to `CommandPath`, by adding its history there.

## Not modelled

Power, cleanup, create and close dispatch (they complete the request), the logger and
the delay (output and sleep), `acpi.h` and `winpci.inf` (layouts and installation).
Memory exhaustion in the kernel pool, address spaces and the contents of DMA memory and configuration
space are below the level of these models.
