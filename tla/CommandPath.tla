---------------------------- MODULE CommandPath ----------------------------
(***************************************************************************)
(* One NVMe command at a time, from the call in the client to its return:  *)
(* the client thread writes a submission queue entry and rings the         *)
(* doorbell, the controller fetches and executes it, posts a completion    *)
(* entry with the queue's phase tag and raises the queue's message, the    *)
(* kernel driver (module Interrupts) pulses the vector's event, and the    *)
(* client's isr_thread consumes the entry and signals ghSyncCommand, which *)
(* lets the call return.                                                   *)
(*                                                                         *)
(* The module starts after CNVMe::init: the controller is enabled, the     *)
(* events exist and isr_thread is about to wait.  From one thread the      *)
(* client calls initIoQ once, then read any number of times, then deletes  *)
(* the two queues, as test.cpp does, and identify_ctrl at any point.       *)
(***************************************************************************)
EXTENDS Interrupts, FiniteSets

CONSTANTS
  Buffers,      \* DMA buffers the kernel may hand out
  AdminDepth,   \* admin_sq_size = admin_cq_size
  IoDepth,      \* io_sq_size = io_cq_size
  IoVector,     \* the vector given to initIoQ
  Setups        \* which operations the client calls, on which processors
                \* the driver's DPC runs

AllOps == {"identify", "set_features", "create_cq", "create_sq",
           "delete_sq", "delete_cq", "read"}

ASSUME DepthAssumption ==
  AdminDepth \in Nat /\ AdminDepth >= 2 /\ IoDepth \in Nat /\ IoDepth >= 2
ASSUME VectorAssumption == IoVector \in Nat \ {0} /\ Vectors = {0, IoVector}
ASSUME SetupsAssumption ==
  Setups \subseteq [ops : SUBSET AllOps, cpus : (SUBSET Cpus) \ {{}}]

VARIABLES
  app,         \* the client thread: its place, operation and DMA buffers
  ioq,         \* the I/O queue pair; "live" once initIoQ has set io_cq_entry
  sq, sqTail, sqDoorbell,      \* submission rings: memory, tail, register
  sqHead, busy,                \* controller: next entry, commands it executes
  ctrlQ,                       \* controller: the I/O queues it has
  cq, cqTail, cqTag,           \* completion rings: tags in memory, its end
  cqHead, cqPhase, cqDoorbell, \* isr_thread: head, phase and the register
  signalling,  \* isr_thread has consumed an entry and not called SetEvent
  sync,        \* ghSyncCommand, an auto-reset event
  late,        \* history: before there were I/O queues a DPC came to its second
               \* pulse while isr_thread was not back in its wait
  setup        \* the machine and the client program, which do not change

ringVars == <<sq, sqTail, sqDoorbell, sqHead, busy, ctrlQ,
              cq, cqTail, cqTag, cqHead, cqPhase, cqDoorbell>>
pathVars == <<app, ioq, ringVars, signalling, sync>>
vars == <<intVars, pathVars, late, setup>>

Queues == {"admin", "io"}
Depth(q) == IF q = "admin" THEN AdminDepth ELSE IoDepth
Slots(q) == 0 .. Depth(q) - 1

\* Fault: the tail runs past the end of the ring.
Next1NoWrap(q, i) == i + 1
Next1(q, i) == IF i + 1 = Depth(q) THEN 0 ELSE i + 1
VectorOf(q) == IF q = "admin" THEN 0 ELSE IoVector
QueueOf(op) == IF op = "read" THEN "io" ELSE "admin"

\* vector2cqid; both members are set once initIoQ has begun.
QueueOfVector(v) == IF v = 0 THEN "admin" ELSE "io"

Command == [op : AllOps \cup {"zeroed"}, bufs : SUBSET Buffers]
Zeroed == [op |-> "zeroed", bufs |-> {}]

\* The buffers an operation may come back with from allocateDMA: identify
\* gives up without its buffer, read ignores that either of two is missing.
Grants(op) == CASE op = "identify" -> {{b} : b \in Buffers}
                [] op = "read"     -> {B \in SUBSET Buffers : Cardinality(B) <= 2}
                [] OTHER           -> {{}}

\* The entries between head and tail of a submission ring.
Window(q) == {i \in Slots(q) : IF sqHead[q] <= sqTail[q]
                                 THEN sqHead[q] <= i /\ i < sqTail[q]
                                 ELSE sqHead[q] <= i \/ i < sqTail[q]}

TypeOK ==
  /\ TypeOKInterrupts
  /\ app \in [at : {"idle", "ring", "wait", "finish"},
              op : AllOps \cup {"zeroed"}, bufs : SUBSET Buffers]
  /\ ioq \in {"none", "cq", "live", "sq_deleted", "cq_deleted"}
  /\ \A q \in Queues :
       /\ sq[q] \in [Slots(q) -> Command]
       /\ sqTail[q] \in Slots(q) /\ sqDoorbell[q] \in Slots(q) /\ sqHead[q] \in Slots(q)
       /\ busy[q] \subseteq Command
       /\ cq[q] \in [Slots(q) -> {0, 1}]
       /\ cqTail[q] \in Slots(q) /\ cqHead[q] \in Slots(q) /\ cqDoorbell[q] \in Slots(q)
       /\ cqTag[q] \in {0, 1} /\ cqPhase[q] \in {0, 1}
  /\ ctrlQ \subseteq {"cq", "sq"}
  /\ signalling \in BOOLEAN /\ sync \in BOOLEAN /\ late \in BOOLEAN
  /\ setup \in Setups

\* Fault: ghSyncCommand is created signalled and never reset.
InitThreadNoReset == signalling = FALSE /\ sync = TRUE

\* initThread creates ghSyncCommand signalled, resets it and starts isr_thread.
InitThread == signalling = FALSE /\ sync = FALSE

\* initAdminQ has zeroed the admin rings.
Init ==
  /\ InitInterrupts
  /\ app = [at |-> "idle", op |-> "zeroed", bufs |-> {}]
  /\ ioq = "none"
  /\ sq = [q \in Queues |-> [i \in Slots(q) |-> Zeroed]]
  /\ cq = [q \in Queues |-> [i \in Slots(q) |-> 0]]
  /\ sqTail = [q \in Queues |-> 0]
  /\ sqDoorbell = [q \in Queues |-> 0]
  /\ sqHead = [q \in Queues |-> 0]
  /\ cqTail = [q \in Queues |-> 0]
  /\ cqHead = [q \in Queues |-> 0]
  /\ cqDoorbell = [q \in Queues |-> 0]
  /\ cqTag = [q \in Queues |-> 1]
  /\ cqPhase = [q \in Queues |-> 1]
  /\ busy = [q \in Queues |-> {}]
  /\ ctrlQ = {}
  /\ InitThread
  /\ late = FALSE
  /\ setup \in Setups

-----------------------------------------------------------------------------
(* The client thread.                                                      *)

\* initIoQ is createIOCQ then createIOSQ, with nothing in between; it sets the
\* ring pointers last, and read follows them.
Callable(op) == CASE op = "create_cq" -> ioq = "none"
                  [] op = "create_sq" -> ioq = "cq"
                  [] op = "read"      -> ioq = "live"
                  [] op = "delete_sq" -> ioq = "live"
                  [] op = "delete_cq" -> ioq = "sq_deleted"
                  [] OTHER            -> ioq # "cq"

\* Allocates the buffers, fills the entry at the tail and advances the tail.
Prepare(op, B) ==
  LET q == QueueOf(op) IN
  /\ app.at = "idle"
  /\ Callable(op)
  /\ B \in Grants(op)
  /\ app' = [at |-> "ring", op |-> op, bufs |-> B]
  /\ sq' = [sq EXCEPT ![q][sqTail[q]] = [op |-> op, bufs |-> B]]
  /\ sqTail' = [sqTail EXCEPT ![q] = Next1(q, @)]
  /\ UNCHANGED <<intVars, ioq, sqDoorbell, sqHead, busy, ctrlQ, cq, cqTail,
                 cqTag, cqHead, cqPhase, cqDoorbell, signalling, sync>>

\* Fault: the doorbell gets the tail from before this entry.
RingsOldTail ==
  /\ app.at = "ring"
  /\ app' = [app EXCEPT !.at = "wait"]
  /\ UNCHANGED <<intVars, ioq, ringVars, signalling, sync>>

\* The write to the doorbell; a controller without the queue ignores it.
RingDoorbell ==
  LET q == QueueOf(app.op) IN
  /\ app.at = "ring"
  /\ app' = [app EXCEPT !.at = "wait"]
  /\ sqDoorbell' = IF q = "io" /\ "sq" \notin ctrlQ THEN sqDoorbell
                   ELSE [sqDoorbell EXCEPT ![q] = sqTail[q]]
  /\ UNCHANGED <<intVars, ioq, sq, sqTail, sqHead, busy, ctrlQ, cq, cqTail,
                 cqTag, cqHead, cqPhase, cqDoorbell, signalling, sync>>

\* Fault: the wait gives up after a while.
WakeOnTimeout ==
  /\ app.at = "wait"
  /\ sync' = FALSE
  /\ app' = [app EXCEPT !.at = "finish"]
  /\ UNCHANGED <<intVars, ioq, ringVars, signalling>>

\* WaitForSingleObject(ghSyncCommand, INFINITE) returns and resets the event.
Wake ==
  /\ app.at = "wait"
  /\ sync
  /\ sync' = FALSE
  /\ app' = [app EXCEPT !.at = "finish"]
  /\ UNCHANGED <<intVars, ioq, ringVars, signalling>>

\* Releases the call's buffers and returns; the status of the completion is
\* not looked at, so initIoQ goes on and read reports success either way.
Finish ==
  /\ app.at = "finish"
  /\ app' = [at |-> "idle", op |-> "zeroed", bufs |-> {}]
  /\ ioq' = CASE app.op = "create_cq" -> "cq"
              [] app.op = "create_sq" -> "live"
              [] app.op = "delete_sq" -> "sq_deleted"
              [] app.op = "delete_cq" -> "cq_deleted"
              [] OTHER                -> ioq
  /\ UNCHANGED <<intVars, ringVars, signalling, sync>>

-----------------------------------------------------------------------------
(* The controller (external).  It starts a new queue at index 0 with tag 1 *)
(* and doorbell 0, which is what the variables hold before the only        *)
(* creation.                                                               *)

\* Neither side reads a fetched entry again, so the model forgets it.
Fetch(q) ==
  /\ q = "io" => "sq" \in ctrlQ
  /\ sqHead[q] # sqDoorbell[q]
  /\ busy' = [busy EXCEPT ![q] = @ \cup {sq[q][sqHead[q]]}]
  /\ sq' = [sq EXCEPT ![q][sqHead[q]] = Zeroed]
  /\ sqHead' = [sqHead EXCEPT ![q] = Next1(q, @)]
  /\ UNCHANGED <<intVars, app, ioq, sqTail, sqDoorbell, ctrlQ, cq, cqTail,
                 cqTag, cqHead, cqPhase, cqDoorbell, signalling, sync>>

\* What a successful queue command does, and when it may succeed.
QueuesAfter(op) == CASE op = "create_cq" -> {ctrlQ \cup {"cq"}}
                     [] op = "create_sq" /\ "cq" \in ctrlQ -> {ctrlQ \cup {"sq"}}
                     [] op = "delete_sq" -> {ctrlQ \ {"sq"}}
                     [] op = "delete_cq" /\ "sq" \notin ctrlQ -> {ctrlQ \ {"cq"}}
                     [] OTHER -> {}

\* Finishes a command, with success or an error status, and posts its entry.
Execute(q, c) ==
  /\ c \in busy[q]
  /\ Next1(q, cqTail[q]) # cqDoorbell[q]
  /\ ctrlQ' \in QueuesAfter(c.op) \cup {ctrlQ}
  /\ busy' = [busy EXCEPT ![q] = @ \ {c}]
  /\ cq' = [cq EXCEPT ![q][cqTail[q]] = cqTag[q]]
  /\ cqTail' = [cqTail EXCEPT ![q] = Next1(q, @)]
  /\ cqTag' = [cqTag EXCEPT ![q] = IF Next1(q, cqTail[q]) = 0 THEN 1 - @ ELSE @]
  /\ msi' = msi \cup {VectorOf(q)}
  /\ UNCHANGED <<isr, waiter, kernelVars, app, ioq, sq, sqTail, sqDoorbell,
                 sqHead, cqHead, cqPhase, cqDoorbell, signalling, sync>>

-----------------------------------------------------------------------------
(* isr_thread, between its waits.                                          *)

\* The entry at the head carries the current phase.
Posted(q) == cq[q][cqHead[q]] = cqPhase[q]

\* Fault: the phase stays 1 after the ring wraps.
PhaseNeverFlips(head, phase) == phase
PhaseAfter(head, phase) == IF head = 0 THEN 1 - phase ELSE phase

\* Advances the head, flips the phase at the wrap and writes the doorbell.
Consume ==
  LET q == QueueOfVector(waiter.vec)
      h == Next1(q, cqHead[q])
  IN
  /\ waiter.at = "handle"
  /\ ~signalling
  /\ Posted(q)
  /\ cqHead' = [cqHead EXCEPT ![q] = h]
  /\ cqPhase' = [cqPhase EXCEPT ![q] = PhaseAfter(h, @)]
  /\ cqDoorbell' = [cqDoorbell EXCEPT ![q] = h]
  /\ signalling' = TRUE
  /\ UNCHANGED <<intVars, app, ioq, sq, sqTail, sqDoorbell, sqHead, busy, ctrlQ,
                 cq, cqTail, cqTag, sync>>

\* SetEvent(ghSyncCommand), then back to the loop's test.
SignalCommand ==
  /\ signalling
  /\ signalling' = FALSE
  /\ sync' = TRUE
  /\ UNCHANGED <<intVars, app, ioq, ringVars>>

\* No entry left: the loop ends and the thread goes back to its wait.
LeaveLoop ==
  /\ ~signalling
  /\ ~Posted(QueueOfVector(waiter.vec))
  /\ HandlerReturns
  /\ UNCHANGED pathVars

IsrThread == Consume \/ SignalCommand \/ LeaveLoop
             \/ (WaitForEvents /\ UNCHANGED pathVars)
Client == RingDoorbell \/ Wake \/ Finish
Controller == \E q \in Queues : Fetch(q) \/ \E c \in busy[q] : Execute(q, c)
Kernel(step) ==
  /\ step
  /\ late' = \/ late
             \/ /\ ioq \in {"none", "cq"} /\ waiter.at # "blocked"
                /\ \E c \in Cpus : dpc[c].at = "stall" /\ dpc'[c].at # "stall"
  /\ UNCHANGED <<pathVars, setup>>

Next ==
  \/ /\ \/ \E op \in setup.ops, B \in SUBSET Buffers : Prepare(op, B)
        \/ Client
        \/ Controller
        \/ IsrThread
     /\ UNCHANGED <<late, setup>>
  \/ Kernel(KernelStep(setup.cpus))

Spec == Init /\ [][Next]_vars

\* A call once made, the controller, isr_thread and the kernel keep running;
\* nothing obliges the client to call again.
Fairness ==
  /\ WF_vars(Client /\ UNCHANGED <<late, setup>>)
  /\ WF_vars(Controller /\ UNCHANGED <<late, setup>>)
  /\ WF_vars(IsrThread /\ UNCHANGED <<late, setup>>)
  /\ \A v \in Vectors : WF_vars(Kernel(IsrStore(v))) /\ WF_vars(Kernel(IsrRequestDpc(v)))
  /\ \A c \in Cpus : WF_vars(c \in setup.cpus /\ Kernel(DpcStep(c)))

FairSpec == Spec /\ Fairness

-----------------------------------------------------------------------------
(* Properties.                                                             *)

\* A command occupies its ring or the controller.
Outstanding(q) == sqHead[q] # sqTail[q] \/ busy[q] # {}

\* The buffers named by entries the controller has or may still fetch.
LentBy(q) == {sq[q][i].bufs : i \in Window(q)} \cup {c.bufs : c \in busy[q]}
Lent == UNION (LentBy("admin") \cup LentBy("io"))

\* The controller never has a command whose DMA buffers the client has
\* already given back to the kernel.
NoDmaIntoFreedBuffer == Lent \subseteq app.bufs

\* The phase test of isr_thread sees an entry exactly when the controller has
\* posted one that was not consumed, over every wrap of the ring.
PhaseTellsPosted == \A q \in Queues : Posted(q) <=> cqHead[q] # cqTail[q]

\* isr_thread never follows io_cq_entry before initIoQ has set it.
IoQueueReady == waiter.at = "handle" /\ waiter.vec = IoVector => ioq \notin {"none", "cq"}

\* The synchronous call this path implements.
Call == IF app.at = "idle" THEN "none"
        ELSE IF Outstanding(QueueOf(app.op)) THEN "issued" ELSE "completed"

Sync == INSTANCE SyncCommand WITH call <- Call, held <- app.bufs, lent <- Lent

\* Each operation returns only after its own command has completed, whatever
\* the interrupts, late pulses and stale signals of earlier ones did.
ImplementsSyncCommand == Sync!SpecSync

\* An entry is posted, the kernel has done all it will do, and isr_thread is
\* not going to look: the event of the queue's vector is not signalled, or a
\* lower vector's event is stuck signalled and hides it.
Overlooked(q) ==
  /\ Posted(q)
  /\ Quiet /\ msi = {}
  /\ waiter.at = "handle" => waiter.vec # VectorOf(q)
  /\ event[VectorOf(q)] => \E v \in Vectors : v < VectorOf(q) /\ event[v]

\* read on a submission queue the controller refused to create or deleted.
Unserved == app.op = "read" /\ "sq" \notin ctrlQ

\* A call hangs for no other reason than a pulse isr_thread missed or a
\* submission queue that does not exist.
HangsOnlyByMissedPulse ==
  app.at = "wait" ~> \/ app.at # "wait"
                     \/ Unserved
                     \/ \E q \in Queues : Overlooked(q)

\* As long as isr_thread is always back in its wait before the DPC's second
\* pulse, every call returns until the I/O queues are in use.
CallsReturn == app.at = "wait" ~> app.at # "wait" \/ late \/ ioq \notin {"none", "cq"}
=============================================================================
