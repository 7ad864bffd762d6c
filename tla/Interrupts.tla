----------------------------- MODULE Interrupts -----------------------------
(***************************************************************************)
(* The interrupt half of the winpci kernel driver: how a message-signalled *)
(* interrupt of the device becomes a pulse of a notification event that a  *)
(* user thread may or may not be waiting for.                              *)
(*                                                                         *)
(* The device extension holds ONE MessageId and the device object has ONE  *)
(* DPC, shared by every vector.  MSI_ISR stores the message number and     *)
(* requests the DPC; the DPC reads MessageId afresh for each of its four   *)
(* event calls, so an interrupt that arrives meanwhile redirects the rest  *)
(* of them.  IoConnectInterruptEx is given no spin lock, so the ISRs of    *)
(* different messages, and the DPC, interleave freely.                     *)
(***************************************************************************)
EXTENDS Naturals

CONSTANTS
  Vectors,      \* the message numbers the device uses: a set of naturals
  Cpus          \* the processors a DPC may run on

ASSUME VectorsAssumption == Vectors \subseteq Nat /\ 0 \in Vectors

VARIABLES
  msi,         \* vectors whose message is raised and not yet being serviced
  isr,         \* isr[v]: where the service routine of vector v stands
  messageId,   \* DEVICE_EXTENSION.MessageId
  dpcQueued,   \* the device's one DPC object is in a DPC queue
  dpc,         \* dpc[c]: the run of the DPC routine on processor c
  event,       \* event[v]: pEvent[v] is signalled
  waiter       \* the user thread in WaitForMultipleObjects

kernelVars == <<messageId, dpcQueued, dpc, event>>
intVars == <<msi, isr, messageId, dpcQueued, dpc, event, waiter>>

\* The four event calls of the DPC and the stall between its two pulses.
Sets == {"set1", "set2"}
Clears == {"clear1", "clear2"}
Stages == Sets \cup Clears \cup {"idle", "stall"}

\* Fault: one pulse instead of two.
AfterOnePulse == [s \in Stages |-> CASE s = "idle" -> "set1"
                                     [] s = "set1" -> "clear1"
                                     [] OTHER      -> "idle"]

After == [s \in Stages |-> CASE s = "idle"   -> "set1"
                             [] s = "set1"   -> "clear1"
                             [] s = "clear1" -> "stall"
                             [] s = "stall"  -> "set2"
                             [] s = "set2"   -> "clear2"
                             [] s = "clear2" -> "idle"]

\* A run of the DPC at a stage whose event it has not looked up yet.
At(stage) == [at |-> stage, latched |-> FALSE, msg |-> 0]

TypeOKInterrupts ==
  /\ msi \subseteq Vectors
  /\ isr \in [Vectors -> {"idle", "stored"}]
  /\ messageId \in Vectors
  /\ dpcQueued \in BOOLEAN
  /\ dpc \in [Cpus -> [at : Stages, latched : BOOLEAN, msg : Vectors]]
  /\ event \in [Vectors -> BOOLEAN]
  /\ waiter \in [at : {"call", "blocked", "handle"}, vec : Vectors]

\* IoCreateDevice zeroes the device extension, CREATE_EVENT has created the
\* events and cleared them, and the waiter is about to wait.
InitInterrupts ==
  /\ msi = {}
  /\ isr = [v \in Vectors |-> "idle"]
  /\ messageId = 0
  /\ dpcQueued = FALSE
  /\ dpc = [c \in Cpus |-> At("idle")]
  /\ event = [v \in Vectors |-> FALSE]
  /\ waiter = [at |-> "call", vec |-> 0]

-----------------------------------------------------------------------------
(* The interrupt service routine.  A message that is raised again before   *)
(* its routine starts is not seen twice.                                   *)

\* Fault: events numbered from one.
IsrStoreOffByOne(v) ==
  /\ v \in msi
  /\ isr[v] = "idle"
  /\ msi' = msi \ {v}
  /\ isr' = [isr EXCEPT ![v] = "stored"]
  /\ messageId' = v + 1
  /\ UNCHANGED <<dpcQueued, dpc, event, waiter>>

\* p->MessageId = MessageId.  The line-based FdoInterruptCallback is this
\* action with v = 0.
IsrStore(v) ==
  /\ v \in msi
  /\ isr[v] = "idle"
  /\ msi' = msi \ {v}
  /\ isr' = [isr EXCEPT ![v] = "stored"]
  /\ messageId' = v
  /\ UNCHANGED <<dpcQueued, dpc, event, waiter>>

\* Fault: no request while the DPC routine is still running.
IsrSkipsRunningDpc(v) ==
  /\ isr[v] = "stored"
  /\ isr' = [isr EXCEPT ![v] = "idle"]
  /\ dpcQueued' = (dpcQueued \/ \A c \in Cpus : dpc[c].at = "idle")
  /\ UNCHANGED <<msi, messageId, dpc, event, waiter>>

\* IoRequestDpc: a DPC object that is already queued is not queued twice.
IsrRequestDpc(v) ==
  /\ isr[v] = "stored"
  /\ isr' = [isr EXCEPT ![v] = "idle"]
  /\ dpcQueued' = TRUE
  /\ UNCHANGED <<msi, messageId, dpc, event, waiter>>

-----------------------------------------------------------------------------
(* The DPC routine.  The object leaves the queue before the routine runs,  *)
(* so an ISR may queue it again and another processor may run it as well.  *)

DpcStart(c) ==
  /\ dpcQueued
  /\ dpc[c].at = "idle"
  /\ dpcQueued' = FALSE
  /\ dpc' = [dpc EXCEPT ![c] = At(After["idle"])]
  /\ UNCHANGED <<msi, isr, messageId, event, waiter>>

\* Evaluates p->pEvent[p->MessageId], the argument of the next event call.
DpcLatch(c) ==
  /\ dpc[c].at \in Sets \cup Clears
  /\ ~dpc[c].latched
  /\ dpc' = [dpc EXCEPT ![c].latched = TRUE, ![c].msg = messageId]
  /\ UNCHANGED <<msi, isr, messageId, dpcQueued, event, waiter>>

\* KeSetEvent on a notification event: it satisfies a wait in progress and
\* stays signalled.
DpcSet(c) ==
  LET v == dpc[c].msg IN
  /\ dpc[c].at \in Sets
  /\ dpc[c].latched
  /\ event' = [event EXCEPT ![v] = TRUE]
  /\ waiter' = IF waiter.at = "blocked" THEN [at |-> "handle", vec |-> v] ELSE waiter
  /\ dpc' = [dpc EXCEPT ![c] = At(After[dpc[c].at])]
  /\ UNCHANGED <<msi, isr, messageId, dpcQueued>>

\* KeClearEvent.
DpcClear(c) ==
  /\ dpc[c].at \in Clears
  /\ dpc[c].latched
  /\ event' = [event EXCEPT ![dpc[c].msg] = FALSE]
  /\ dpc' = [dpc EXCEPT ![c] = At(After[dpc[c].at])]
  /\ UNCHANGED <<msi, isr, messageId, dpcQueued, waiter>>

\* KeStallExecutionProcessor(50).
DpcStallEnds(c) ==
  /\ dpc[c].at = "stall"
  /\ dpc' = [dpc EXCEPT ![c] = At(After["stall"])]
  /\ UNCHANGED <<msi, isr, messageId, dpcQueued, event, waiter>>

-----------------------------------------------------------------------------
(* The user thread's WaitForMultipleObjects over all events: it returns    *)
(* the lowest signalled index and leaves notification events signalled, or *)
(* it blocks.                                                              *)

WaitForEvents ==
  /\ waiter.at = "call"
  /\ \/ \E v \in Vectors :
          /\ event[v]
          /\ \A w \in Vectors : event[w] => v <= w
          /\ waiter' = [at |-> "handle", vec |-> v]
     \/ /\ \A v \in Vectors : ~event[v]
        /\ waiter' = [waiter EXCEPT !.at = "blocked"]
  /\ UNCHANGED <<msi, isr, messageId, dpcQueued, dpc, event>>

DpcStep(c) == DpcStart(c) \/ DpcLatch(c) \/ DpcSet(c) \/ DpcClear(c) \/ DpcStallEnds(c)

\* What the kernel does when its DPC may run on the processors cpus.
KernelStep(cpus) ==
  \/ \E v \in Vectors : IsrStore(v) \/ IsrRequestDpc(v)
  \/ \E c \in cpus : DpcStep(c)

-----------------------------------------------------------------------------
(* On its own the module is driven by a device that interrupts at will and *)
(* a waiter that comes back to its wait after handling any vector.         *)

RaiseMsi(v) ==
  /\ msi' = msi \cup {v}
  /\ UNCHANGED <<isr, messageId, dpcQueued, dpc, event, waiter>>

HandlerReturns ==
  /\ waiter.at = "handle"
  /\ waiter' = [at |-> "call", vec |-> 0]
  /\ UNCHANGED <<msi, isr, messageId, dpcQueued, dpc, event>>

NextInterrupts ==
  \/ KernelStep(Cpus)
  \/ WaitForEvents
  \/ HandlerReturns
  \/ \E v \in Vectors : RaiseMsi(v)

SpecInterrupts == InitInterrupts /\ [][NextInterrupts]_intVars

-----------------------------------------------------------------------------
\* No interrupt work is left in the kernel.
Quiet ==
  /\ \A v \in Vectors : isr[v] = "idle"
  /\ ~dpcQueued
  /\ \A c \in Cpus : dpc[c].at = "idle"
=============================================================================
