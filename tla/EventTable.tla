----------------------------- MODULE EventTable -----------------------------
(***************************************************************************)
(* The named events of one device: the driver's table of handles and       *)
(* pointers, and the handles user processes have open.                     *)
(*                                                                         *)
(* IoCreateNotificationEvent creates the event of a name or opens it, and  *)
(* returns a handle and a pointer.  The pointer counts for nothing: the    *)
(* event is freed when its last handle, of the driver or of a process, is  *)
(* closed.  DELETE_EVENT and releaseResource close the handles and leave   *)
(* pEvent as it is, and the DPC follows pEvent without a test.             *)
(*                                                                         *)
(* Here the IOCTLs come from anybody in any order; ClientLife puts them in *)
(* the order of the client program.                                        *)
(***************************************************************************)
EXTENDS Naturals

CONSTANTS
  Messages,   \* the most events CREATE_EVENT makes: MessageCount at its largest
  Users       \* processes that may open the events

ASSUME MessagesAssumption == Messages \in 1 .. 16   \* MAX_EVENT_SZ

Vectors == 0 .. Messages - 1
Calls == 4   \* KeSetEvent, KeClearEvent, and again

VARIABLES
  eventHandle,  \* the v for which eventHandle[v] is not null
  lost,         \* the v whose handle was overwritten while it was open
  opened,       \* opened[u]: the events process u has open
  pEvent,       \* pEvent[v]: "null", or leads to a "live" or a "freed" event
  interrupt,    \* InterruptObject: not yet set, the table of "messages", the
                \* interrupt object of a "line", or "freed"
  granted,      \* MessageCount as CREATE_EVENT reads it behind InterruptObject,
                \* 0 while nothing is there
  messageId,    \* DEVICE_EXTENSION.MessageId
  calls,        \* event calls the DPC still has to make, of this run and the queued
  crash         \* the bug check that has happened: in the DPC, in CREATE_EVENT

tableVars == <<eventHandle, lost, opened, pEvent, interrupt, granted,
               messageId, calls, crash>>

TypeOKTable ==
  /\ eventHandle \subseteq Vectors /\ lost \subseteq Vectors
  /\ opened \in [Users -> SUBSET Vectors]
  /\ pEvent \in [Vectors -> {"null", "live", "freed"}]
  /\ interrupt \in {"none", "messages", "line", "freed"}
  /\ granted \in 0 .. Messages
  /\ messageId \in Vectors
  /\ calls \in 0 .. 2 * Calls - 1
  /\ crash \in {"no", "dpc", "create"}

InitTable ==
  /\ eventHandle = {} /\ lost = {}
  /\ opened = [u \in Users |-> {}]
  /\ pEvent = [v \in Vectors |-> "null"]
  /\ interrupt = "none" /\ granted = 0
  /\ messageId = 0 /\ calls = 0
  /\ crash = "no"

\* The events that exist: somebody has a handle.
Existing == eventHandle \cup lost \cup UNION {opened[u] : u \in Users}

Connected == interrupt \in {"messages", "line"}

\* Closing handles frees the events that are left without one.
FreeUnheld ==
  pEvent' = [v \in Vectors |-> IF pEvent[v] = "live" /\ v \notin Existing'
                                 THEN "freed" ELSE pEvent[v]]

-----------------------------------------------------------------------------
(* The driver's handlers.                                                  *)

\* Fault: an event that was created before is not looked up again.
CreateEventOnce(v) ==
  /\ crash = "no" /\ Connected
  /\ eventHandle' = eventHandle \cup {v}
  /\ lost' = lost \cup (eventHandle \cap {v})
  /\ pEvent' = [pEvent EXCEPT ![v] = IF @ = "null" THEN "live" ELSE @]
  /\ UNCHANGED <<opened, interrupt, granted, messageId, calls, crash>>

\* One turn of the loop of IOCTL_WINPCI_CREATE_EVENT.  A handle in the table is
\* overwritten and stays open.
CreateEvent(v) ==
  /\ crash = "no" /\ Connected
  /\ eventHandle' = eventHandle \cup {v}
  /\ lost' = lost \cup (eventHandle \cap {v})
  /\ pEvent' = [pEvent EXCEPT ![v] = "live"]
  /\ UNCHANGED <<opened, interrupt, granted, messageId, calls, crash>>

\* The turn that fails: pEvent[v] is null, the handles before v - 1 are closed,
\* the one of v - 1 and the pointers are left.
CreateEventFails(v) ==
  LET closed == {w \in Vectors : w + 1 < v} IN
  /\ crash = "no" /\ Connected
  /\ eventHandle' = eventHandle \ closed
  /\ UNCHANGED <<lost, opened, interrupt, granted, messageId, calls, crash>>
  /\ pEvent' = [w \in Vectors |->
                  IF w = v THEN "null"
                  ELSE IF pEvent[w] = "live" /\ w \notin Existing' THEN "freed"
                  ELSE pEvent[w]]

\* p->MessageCount where InterruptObject is null or leads nowhere any more.
CreateEventAstray ==
  /\ crash = "no" /\ ~Connected
  /\ crash' = "create"
  /\ UNCHANGED <<eventHandle, lost, opened, pEvent, interrupt, granted, messageId,
                 calls>>

\* Fault: the loop ends one short.
DeleteEventsOneShort ==
  /\ crash = "no"
  /\ eventHandle' = eventHandle \cap {Messages - 1}
  /\ UNCHANGED <<lost, opened, interrupt, granted, messageId, calls, crash>>
  /\ FreeUnheld

\* IOCTL_WINPCI_DELETE_EVENT.
DeleteEvents ==
  /\ crash = "no"
  /\ eventHandle' = {}
  /\ UNCHANGED <<lost, opened, interrupt, granted, messageId, calls, crash>>
  /\ FreeUnheld

\* HandleStartDevice connects the interrupt.  Without message interrupts the
\* kernel falls back on the line: InterruptObject is then a KINTERRUPT, and
\* what stands in the place of MessageCount may be any number.
ConnectInterrupt ==
  /\ crash = "no" /\ ~Connected
  /\ \/ interrupt' = "messages" /\ granted' \in 1 .. Messages
     \/ interrupt' = "line" /\ granted' \in 0 .. Messages
  /\ UNCHANGED <<eventHandle, lost, opened, pEvent, messageId, calls, crash>>

\* releaseResource disconnects the interrupt, whose object goes, and closes the
\* handles.  A DPC that is queued still runs.
ReleaseInterruptAndEvents ==
  /\ crash = "no" /\ Connected
  /\ interrupt' = "freed" /\ granted' = 0
  /\ eventHandle' = {}
  /\ UNCHANGED <<lost, opened, messageId, calls, crash>>
  /\ FreeUnheld

\* MSI_ISR, or FdoInterruptCallback for the line: the number is stored and a
\* run of the DPC queued, unless one is queued already.
MessageArrives(v) ==
  /\ crash = "no"
  /\ \/ interrupt = "messages" /\ v < granted
     \/ interrupt = "line" /\ v = 0
  /\ messageId' = v
  /\ calls' = IF calls < Calls THEN calls + Calls ELSE calls
  /\ UNCHANGED <<eventHandle, lost, opened, pEvent, interrupt, granted, crash>>

\* One of the DPC's event calls.
DpcCall ==
  /\ crash = "no" /\ calls > 0
  /\ IF pEvent[messageId] = "live"
       THEN calls' = calls - 1 /\ UNCHANGED crash
       ELSE crash' = "dpc" /\ UNCHANGED calls
  /\ UNCHANGED <<eventHandle, lost, opened, pEvent, interrupt, granted, messageId>>

-----------------------------------------------------------------------------
(* User processes.                                                         *)

\* Fault: the handle is closed again at once.
OpenAndCloseEvent(u, v) ==
  /\ crash = "no" /\ v \in Existing
  /\ UNCHANGED tableVars

\* OpenEvent finds an event by its name if it exists.
OpenEvent(u, v) ==
  /\ crash = "no" /\ v \in Existing
  /\ opened' = [opened EXCEPT ![u] = @ \cup {v}]
  /\ UNCHANGED <<eventHandle, lost, pEvent, interrupt, granted, messageId, calls,
                 crash>>

\* The handles of a process are closed when it ends.
CloseProcess(u) ==
  /\ crash = "no"
  /\ opened' = [opened EXCEPT ![u] = {}]
  /\ UNCHANGED <<eventHandle, lost, interrupt, granted, messageId, calls, crash>>
  /\ FreeUnheld

NextTable ==
  \/ \E v \in Vectors : CreateEvent(v) \/ CreateEventFails(v) \/ MessageArrives(v)
  \/ CreateEventAstray \/ DeleteEvents
  \/ ConnectInterrupt \/ ReleaseInterruptAndEvents
  \/ DpcCall
  \/ \E u \in Users : CloseProcess(u) \/ \E v \in Vectors : OpenEvent(u, v)

SpecTable == InitTable /\ [][NextTable]_tableVars

-----------------------------------------------------------------------------
\* The pointer of an event a process has open is never left from an event of
\* the same name that is gone: CREATE_EVENT opens what exists.
HeldIsNotFreed ==
  \A u \in Users : \A v \in opened[u] : pEvent[v] # "freed"
=============================================================================
