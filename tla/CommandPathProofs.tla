------------------------- MODULE CommandPathProofs -------------------------
(***************************************************************************)
(* Proofs about CommandPath, for any set of buffers, any depth of the two  *)
(* rings, any number of processors and any set of programs.                *)
(*                                                                         *)
(* The argument is that a synchronous call is one token.  From the moment  *)
(* the entry is written to the moment the wait returns, the command is at  *)
(* exactly one place: in the submission ring, with the controller, as an   *)
(* entry of the completion ring, in the hands of isr_thread, or as the     *)
(* signalled event ghSyncCommand; before and after, it is at none.  What   *)
(* the interrupts do moves no token, so no late pulse can complete a call. *)
(***************************************************************************)
EXTENDS CommandPath, TLAPS

-----------------------------------------------------------------------------
(* The inductive invariant.                                                *)

\* Each per-queue variable is a function on the two queues.
Shape ==
  /\ sq = [q \in Queues |-> sq[q]]
  /\ sqTail = [q \in Queues |-> sqTail[q]]
  /\ sqDoorbell = [q \in Queues |-> sqDoorbell[q]]
  /\ sqHead = [q \in Queues |-> sqHead[q]]
  /\ busy = [q \in Queues |-> busy[q]]
  /\ cq = [q \in Queues |-> cq[q]]
  /\ cqTail = [q \in Queues |-> cqTail[q]]
  /\ cqTag = [q \in Queues |-> cqTag[q]]
  /\ cqHead = [q \in Queues |-> cqHead[q]]
  /\ cqPhase = [q \in Queues |-> cqPhase[q]]
  /\ cqDoorbell = [q \in Queues |-> cqDoorbell[q]]

Typed == TypeOK /\ Shape

\* The places a command can be at while the client thread stands at a place.
Places == {"nowhere", "queued", "executing", "posted", "consumed", "signalled"}
PlacesAt(at) == CASE at = "ring" -> {"queued"}
                  [] at = "wait" -> Places \ {"nowhere"}
                  [] OTHER       -> {"nowhere"}

\* The entry the call under way has written.
Sent == [op |-> app.op, bufs |-> app.bufs]

\* Queue q when the call's command is at place p, which may be no place of q.
QueueAt(q, p) ==
  /\ sqTail[q] = IF p = "queued" THEN Next1(q, sqHead[q]) ELSE sqHead[q]
  /\ p = "queued" => sq[q][sqHead[q]] = Sent
  /\ sqDoorbell[q] # sqHead[q] => p = "queued" /\ app.at = "wait" /\ sqDoorbell[q] = sqTail[q]
  /\ busy[q] = IF p = "executing" THEN {Sent} ELSE {}
  /\ cqTail[q] = IF p = "posted" THEN Next1(q, cqHead[q]) ELSE cqHead[q]

\* The command of the call under way is at place p and nowhere else.
CommandAt(p) ==
  /\ \A q \in Queues : QueueAt(q, IF q = QueueOf(app.op) THEN p ELSE "nowhere")
  /\ signalling <=> p = "consumed"
  /\ sync <=> p = "signalled"

OneCommand ==
  /\ \E p \in PlacesAt(app.at) : CommandAt(p)
  /\ app.at = "idle" => app.bufs = {}
  /\ app.at # "idle" => Callable(app.op)

\* The memory of a completion ring: this round's tag below the tail, the last
\* round's from the tail on; the phase follows the tag at the wrap.
RingTagged(q) ==
  /\ \A i \in Slots(q) : cq[q][i] = IF i < cqTail[q] THEN cqTag[q] ELSE 1 - cqTag[q]
  /\ cqPhase[q] = IF cqHead[q] # cqTail[q] /\ cqTail[q] = 0
                    THEN 1 - cqTag[q] ELSE cqTag[q]
  /\ cqDoorbell[q] = cqHead[q]

\* Until initIoQ has set io_cq_entry nothing in the kernel or in isr_thread
\* names the vector of the I/O queue.
IoVectorSilent ==
  ioq \in {"none", "cq"} =>
    /\ IoVector \notin msi /\ isr[IoVector] = "idle"
    /\ messageId = 0
    /\ \A c \in Cpus : dpc[c].msg = 0
    /\ ~event[IoVector]
    /\ waiter.vec = 0

PathInv ==
  /\ Typed
  /\ OneCommand
  /\ \A q \in Queues : RingTagged(q)
  /\ IoVectorSilent

-----------------------------------------------------------------------------
(* Lemmas about the rings.                                                 *)

\* The slot after a slot is another slot of the ring.
LEMMA Next1Type ==
  ASSUME NEW q \in Queues, NEW i \in Slots(q)
  PROVE  /\ Next1(q, i) \in Slots(q)
         /\ Next1(q, i) # i
<1>1. Depth(q) \in Nat /\ Depth(q) >= 2
  BY DepthAssumption DEF Depth
<1> QED
  BY <1>1 DEF Slots, Next1

\* The window is empty when head and tail meet, and holds the entry at the
\* head alone when the tail is one slot ahead.
LEMMA WindowOfOne ==
  ASSUME NEW q \in Queues, sqHead[q] \in Slots(q), sqTail[q] \in Slots(q)
  PROVE  /\ sqTail[q] = sqHead[q] => Window(q) = {}
         /\ sqTail[q] = Next1(q, sqHead[q]) => Window(q) = {sqHead[q]}
<1>1. Depth(q) \in Nat /\ Depth(q) >= 2
  BY DepthAssumption DEF Depth
<1>2. ASSUME sqTail[q] = sqHead[q] PROVE Window(q) = {}
  BY <1>1, <1>2 DEF Slots, Window
<1>3. ASSUME sqTail[q] = Next1(q, sqHead[q]) PROVE Window(q) = {sqHead[q]}
  <2>1. CASE sqHead[q] + 1 = Depth(q)
    BY <1>1, <1>3, <2>1 DEF Slots, Window, Next1
  <2>2. CASE sqHead[q] + 1 # Depth(q)
    BY <1>1, <1>3, <2>2 DEF Slots, Window, Next1
  <2> QED
    BY <2>1, <2>2
<1> QED
  BY <1>2, <1>3

\* The order of the DPC's event calls stays among its stages.
LEMMA AfterType == After \in [Stages -> Stages]
  BY DEF After, Stages, Sets, Clears

\* A run that has not looked its event up is a well-formed record.
LEMMA AtType ==
  \A s \in Stages : At(s) \in [at : Stages, latched : BOOLEAN, msg : Vectors]
  BY VectorsAssumption DEF At

\* The kernel keeps the types of the interrupt variables.
LEMMA KernelType ==
  ASSUME NEW cpus \in SUBSET Cpus, TypeOKInterrupts, KernelStep(cpus)
  PROVE  TypeOKInterrupts'
<1> USE VectorsAssumption, AfterType DEF TypeOKInterrupts
<1>1. ASSUME NEW v \in Vectors, IsrStore(v) PROVE TypeOKInterrupts'
  BY <1>1 DEF IsrStore
<1>2. ASSUME NEW v \in Vectors, IsrRequestDpc(v) PROVE TypeOKInterrupts'
  BY <1>2 DEF IsrRequestDpc
<1>3. ASSUME NEW c \in Cpus, DpcStart(c) \/ DpcStallEnds(c) PROVE TypeOKInterrupts'
  <2>1. dpc' = [dpc EXCEPT ![c] = At(After["idle"])]
        \/ dpc' = [dpc EXCEPT ![c] = At(After["stall"])]
    BY <1>3 DEF DpcStart, DpcStallEnds
  <2>2. After["idle"] \in Stages /\ After["stall"] \in Stages
    BY DEF Stages
  <2> QED
    BY <1>3, <2>1, <2>2, AtType DEF DpcStart, DpcStallEnds
<1>4. ASSUME NEW c \in Cpus, DpcLatch(c) PROVE TypeOKInterrupts'
  BY <1>4 DEF DpcLatch
<1>5. ASSUME NEW c \in Cpus, DpcClear(c) PROVE TypeOKInterrupts'
  BY <1>5 DEF DpcClear, At, Stages, Clears
<1>6. ASSUME NEW c \in Cpus, DpcSet(c) PROVE TypeOKInterrupts'
  BY <1>6 DEF DpcSet, At, Stages, Sets
<1> QED
  BY <1>1, <1>2, <1>3, <1>4, <1>5, <1>6 DEF KernelStep, DpcStep

\* The two queues have the two vectors.
LEMMA VectorType ==
  /\ \A q \in Queues : VectorOf(q) \in Vectors
  /\ \A v \in Vectors : QueueOfVector(v) \in Queues
  /\ IoVector # 0
  BY VectorAssumption DEF VectorOf, QueueOfVector, Queues

-----------------------------------------------------------------------------
(* What the actions do to the queues, as functions of the queue.           *)

LEMMA PrepareEffect ==
  ASSUME Shape, NEW op, NEW B, Prepare(op, B)
  PROVE  LET q == QueueOf(op) IN
         /\ sq' = [r \in Queues |->
                     IF r = q THEN [sq[q] EXCEPT ![sqTail[q]] = [op |-> op, bufs |-> B]]
                              ELSE sq[r]]
         /\ sqTail' = [r \in Queues |-> IF r = q THEN Next1(q, sqTail[q]) ELSE sqTail[r]]
  BY DEF Shape, Prepare, QueueOf, Queues

LEMMA RingDoorbellEffect ==
  ASSUME Shape, RingDoorbell
  PROVE  sqDoorbell' = [r \in Queues |->
                          IF r = QueueOf(app.op) /\ (r = "io" => "sq" \in ctrlQ)
                            THEN sqTail[r] ELSE sqDoorbell[r]]
  BY DEF Shape, RingDoorbell, QueueOf, Queues

LEMMA FetchEffect ==
  ASSUME Shape, NEW q \in Queues, Fetch(q)
  PROVE  /\ busy' = [r \in Queues |->
                       IF r = q THEN busy[q] \cup {sq[q][sqHead[q]]} ELSE busy[r]]
         /\ sq' = [r \in Queues |->
                     IF r = q THEN [sq[q] EXCEPT ![sqHead[q]] = Zeroed] ELSE sq[r]]
         /\ sqHead' = [r \in Queues |-> IF r = q THEN Next1(q, sqHead[q]) ELSE sqHead[r]]
  BY DEF Shape, Fetch

LEMMA ExecuteEffect ==
  ASSUME Shape, NEW q \in Queues, NEW c, Execute(q, c)
  PROVE  /\ busy' = [r \in Queues |-> IF r = q THEN busy[q] \ {c} ELSE busy[r]]
         /\ cq' = [r \in Queues |->
                     IF r = q THEN [cq[q] EXCEPT ![cqTail[q]] = cqTag[q]] ELSE cq[r]]
         /\ cqTail' = [r \in Queues |-> IF r = q THEN Next1(q, cqTail[q]) ELSE cqTail[r]]
         /\ cqTag' = [r \in Queues |->
                        IF r = q /\ Next1(q, cqTail[q]) = 0 THEN 1 - cqTag[r] ELSE cqTag[r]]
  BY DEF Shape, Execute

LEMMA ConsumeEffect ==
  ASSUME Shape, Consume, waiter.vec \in Vectors
  PROVE  LET q == QueueOfVector(waiter.vec)
             h == Next1(q, cqHead[q])
         IN
         /\ q \in Queues
         /\ cqHead' = [r \in Queues |-> IF r = q THEN h ELSE cqHead[r]]
         /\ cqPhase' = [r \in Queues |->
                          IF r = q THEN PhaseAfter(h, cqPhase[q]) ELSE cqPhase[r]]
         /\ cqDoorbell' = [r \in Queues |-> IF r = q THEN h ELSE cqDoorbell[r]]
  BY VectorType DEF Shape, Consume

-----------------------------------------------------------------------------
(* Types.                                                                  *)

\* The part of TypeOK that is about one queue.
RingTyped(q) ==
  /\ sq[q] \in [Slots(q) -> Command]
  /\ sqTail[q] \in Slots(q) /\ sqDoorbell[q] \in Slots(q) /\ sqHead[q] \in Slots(q)
  /\ busy[q] \subseteq Command
  /\ cq[q] \in [Slots(q) -> {0, 1}]
  /\ cqTail[q] \in Slots(q) /\ cqHead[q] \in Slots(q) /\ cqDoorbell[q] \in Slots(q)
  /\ cqTag[q] \in {0, 1} /\ cqPhase[q] \in {0, 1}

\* The part of TypeOK that is about neither a queue nor the kernel.
ClientTyped ==
  /\ app \in [at : {"idle", "ring", "wait", "finish"},
              op : AllOps \cup {"zeroed"}, bufs : SUBSET Buffers]
  /\ ioq \in {"none", "cq", "live", "sq_deleted", "cq_deleted"}
  /\ ctrlQ \subseteq {"cq", "sq"}
  /\ signalling \in BOOLEAN /\ sync \in BOOLEAN /\ late \in BOOLEAN
  /\ setup \in Setups

LEMMA TypedParts ==
  Typed <=> TypeOKInterrupts /\ ClientTyped /\ Shape /\ \A q \in Queues : RingTyped(q)
  BY DEF Typed, TypeOK, ClientTyped, RingTyped

LEMMA TypedPartsNext ==
  (TypeOKInterrupts /\ ClientTyped /\ Shape)' /\ (\A q \in Queues : RingTyped(q)') => Typed'
  BY DEF Typed, TypeOK, ClientTyped, RingTyped

\* A step that leaves the rings alone keeps their types.
LEMMA RingsKept ==
  ASSUME UNCHANGED ringVars
  PROVE  /\ Shape => Shape'
         /\ \A q \in Queues : RingTyped(q) => RingTyped(q)'
         /\ ctrlQ' = ctrlQ
<1>1. (Shape => Shape') /\ ctrlQ' = ctrlQ
  BY DEF ringVars, Shape
<1>2. ASSUME NEW q \in Queues, RingTyped(q) PROVE RingTyped(q)'
  BY <1>2 DEF ringVars, RingTyped
<1> QED
  BY <1>1, <1>2

LEMMA InitTyped == Init => Typed
<1> SUFFICES ASSUME Init PROVE Typed
  OBVIOUS
<1>1. TypeOKInterrupts
  <2>1. dpc \in [Cpus -> [at : Stages, latched : BOOLEAN, msg : Vectors]]
    BY AtType DEF Init, InitInterrupts, Stages
  <2> QED
    BY <2>1, VectorsAssumption DEF Init, InitInterrupts, TypeOKInterrupts
<1>2. ClientTyped
  BY DEF Init, InitThread, ClientTyped
<1>3. Shape
  BY DEF Init, Shape
<1>4. ASSUME NEW q \in Queues PROVE RingTyped(q)
  <2>1. Depth(q) \in Nat /\ 0 \in Slots(q)
    BY DepthAssumption DEF Depth, Slots
  <2>2. Zeroed \in Command
    BY DEF Zeroed, Command
  <2> QED
    BY <2>1, <2>2 DEF Init, RingTyped
<1> QED
  BY <1>1, <1>2, <1>3, <1>4, TypedParts

LEMMA PrepareTyped ==
  ASSUME Typed, NEW op \in AllOps, NEW B \in SUBSET Buffers, Prepare(op, B),
         UNCHANGED <<late, setup>>
  PROVE  Typed'
<1> USE TypedParts, TypedPartsNext
<1>1. TypeOKInterrupts'
  BY DEF Prepare, intVars, TypeOKInterrupts
<1>2. ClientTyped'
  BY DEF Prepare, ClientTyped
<1>3. Shape'
  BY PrepareEffect DEF Prepare, Shape
<1>4. ASSUME NEW q \in Queues PROVE RingTyped(q)'
  <2>1. Next1(q, sqTail[q]) \in Slots(q)
    BY Next1Type DEF RingTyped
  <2>2. [op |-> op, bufs |-> B] \in Command
    BY DEF Command
  <2>3. QueueOf(op) \in Queues
    BY DEF QueueOf, Queues
  <2>4. sq'[q] \in [Slots(q) -> Command] /\ sqTail'[q] \in Slots(q)
    BY <2>1, <2>2, <2>3, PrepareEffect DEF RingTyped
  <2> QED
    BY <2>4 DEF Prepare, RingTyped
<1> QED
  BY <1>1, <1>2, <1>3, <1>4

LEMMA ClientStepTyped ==
  ASSUME Typed, Client, UNCHANGED <<late, setup>>
  PROVE  Typed'
<1> USE TypedParts, TypedPartsNext
<1>1. TypeOKInterrupts'
  BY DEF Client, RingDoorbell, Wake, Finish, intVars, TypeOKInterrupts
<1>2. ClientTyped'
  <2>1. CASE RingDoorbell \/ Wake
    BY <2>1 DEF RingDoorbell, Wake, ClientTyped, ringVars
  <2>2. CASE Finish
    BY <2>2 DEF Finish, ClientTyped, ringVars
  <2> QED
    BY <2>1, <2>2 DEF Client
<1>3. Shape' /\ \A q \in Queues : RingTyped(q)'
  <2>1. CASE RingDoorbell
    <3>1. Shape'
      BY <2>1, RingDoorbellEffect DEF RingDoorbell, Shape
    <3>2. \A q \in Queues : RingTyped(q)'
      BY <2>1, RingDoorbellEffect DEF RingDoorbell, RingTyped
    <3> QED
      BY <3>1, <3>2
  <2>2. CASE Wake \/ Finish
    BY <2>2, RingsKept DEF Wake, Finish
  <2> QED
    BY <2>1, <2>2 DEF Client
<1> QED
  BY <1>1, <1>2, <1>3

LEMMA FetchTyped ==
  ASSUME Typed, NEW q \in Queues, Fetch(q), UNCHANGED <<late, setup>>
  PROVE  Typed'
<1> USE TypedParts, TypedPartsNext
<1>1. TypeOKInterrupts' /\ ClientTyped'
  BY DEF Fetch, intVars, TypeOKInterrupts, ClientTyped
<1>2. Shape'
  BY FetchEffect DEF Fetch, Shape
<1>3. ASSUME NEW r \in Queues PROVE RingTyped(r)'
  <2>1. Next1(r, sqHead[r]) \in Slots(r)
    BY Next1Type DEF RingTyped
  <2>2. Zeroed \in Command
    BY DEF Zeroed, Command
  <2>3. /\ sq'[r] \in [Slots(r) -> Command] /\ sqHead'[r] \in Slots(r)
        /\ busy'[r] \subseteq Command
    BY <2>1, <2>2, FetchEffect DEF RingTyped
  <2> QED
    BY <2>3 DEF Fetch, RingTyped
<1> QED
  BY <1>1, <1>2, <1>3

LEMMA ExecuteTyped ==
  ASSUME Typed, NEW q \in Queues, NEW c \in busy[q], Execute(q, c),
         UNCHANGED <<late, setup>>
  PROVE  Typed'
<1> USE TypedParts, TypedPartsNext
<1>1. TypeOKInterrupts'
  BY VectorType DEF Execute, kernelVars, TypeOKInterrupts
<1>2. ClientTyped'
  <2>1. ctrlQ' \subseteq {"cq", "sq"}
    BY DEF Execute, QueuesAfter, ClientTyped
  <2> QED
    BY <2>1 DEF Execute, ClientTyped
<1>3. Shape'
  BY ExecuteEffect DEF Execute, Shape
<1>4. ASSUME NEW r \in Queues PROVE RingTyped(r)'
  <2>1. Next1(r, cqTail[r]) \in Slots(r)
    BY Next1Type DEF RingTyped
  <2>2. 1 - cqTag[r] \in {0, 1}
    BY DEF RingTyped
  <2>3. /\ cq'[r] \in [Slots(r) -> {0, 1}] /\ cqTail'[r] \in Slots(r)
        /\ cqTag'[r] \in {0, 1} /\ busy'[r] \subseteq Command
    BY <2>1, <2>2, ExecuteEffect DEF RingTyped
  <2> QED
    BY <2>3 DEF Execute, RingTyped
<1> QED
  BY <1>1, <1>2, <1>3, <1>4

LEMMA IsrThreadTyped ==
  ASSUME Typed, IsrThread, UNCHANGED <<late, setup>>
  PROVE  Typed'
<1> USE TypedParts, TypedPartsNext
<1>1. CASE Consume
  <2>1. TypeOKInterrupts' /\ ClientTyped'
    BY <1>1 DEF Consume, intVars, TypeOKInterrupts, ClientTyped
  <2>2. waiter.vec \in Vectors
    BY DEF TypeOKInterrupts
  <2>3. Shape'
    BY <1>1, <2>2, ConsumeEffect DEF Consume, Shape
  <2>4. ASSUME NEW r \in Queues PROVE RingTyped(r)'
    <3>1. Next1(r, cqHead[r]) \in Slots(r)
      BY Next1Type DEF RingTyped
    <3>2. \A h : PhaseAfter(h, cqPhase[r]) \in {0, 1}
      BY DEF RingTyped, PhaseAfter
    <3>3. /\ cqHead'[r] \in Slots(r) /\ cqPhase'[r] \in {0, 1}
          /\ cqDoorbell'[r] \in Slots(r)
      BY <1>1, <2>2, <3>1, <3>2, ConsumeEffect DEF RingTyped
    <3> QED
      BY <1>1, <3>3 DEF Consume, RingTyped
  <2> QED
    BY <2>1, <2>3, <2>4
<1>2. CASE SignalCommand
  <2>1. TypeOKInterrupts' /\ ClientTyped'
    BY <1>2, RingsKept DEF SignalCommand, intVars, TypeOKInterrupts, ClientTyped
  <2>2. UNCHANGED ringVars
    BY <1>2 DEF SignalCommand
  <2>3. Shape' /\ \A q \in Queues : RingTyped(q)'
    BY <2>2, RingsKept
  <2> QED
    BY <2>1, <2>3
<1>3. CASE LeaveLoop \/ (WaitForEvents /\ UNCHANGED pathVars)
  <2>1. TypeOKInterrupts'
    BY <1>3, VectorsAssumption
    DEF LeaveLoop, HandlerReturns, WaitForEvents, TypeOKInterrupts
  <2>2. UNCHANGED <<pathVars, late, setup>>
    BY <1>3 DEF LeaveLoop
  <2>3. ClientTyped' /\ UNCHANGED ringVars
    BY <2>2, RingsKept DEF pathVars, ClientTyped
  <2>4. Shape' /\ \A q \in Queues : RingTyped(q)'
    BY <2>3, RingsKept
  <2> QED
    BY <2>1, <2>3, <2>4
<1> QED
  BY <1>1, <1>2, <1>3 DEF IsrThread

LEMMA KernelTyped ==
  ASSUME Typed, Kernel(KernelStep(setup.cpus))
  PROVE  Typed'
<1> USE TypedParts, TypedPartsNext
<1>1. setup.cpus \in SUBSET Cpus
  BY SetupsAssumption DEF ClientTyped
<1>2. TypeOKInterrupts'
  BY <1>1, KernelType DEF Kernel
<1>3. late' \in BOOLEAN /\ UNCHANGED <<pathVars, setup>>
  BY DEF Kernel, ClientTyped
<1>4. ClientTyped' /\ UNCHANGED ringVars
  BY <1>3, RingsKept DEF pathVars, ClientTyped
<1>5. Shape' /\ \A q \in Queues : RingTyped(q)'
  BY <1>4, RingsKept
<1> QED
  BY <1>2, <1>4, <1>5

\* Every variable of the command path keeps its type: no step of the client,
\* the controller, isr_thread or the kernel runs an index out of its ring or
\* mixes up what the driver and the client exchange.
LEMMA TypedInvariant == Spec => []Typed
<1>1. Typed /\ [Next]_vars => Typed'
  <2> SUFFICES ASSUME Typed, [Next]_vars PROVE Typed'
    OBVIOUS
  <2>1. CASE UNCHANGED vars
    <3>1. (TypeOKInterrupts /\ ClientTyped)' /\ UNCHANGED ringVars
      BY <2>1, TypedParts, RingsKept
      DEF vars, intVars, pathVars, TypeOKInterrupts, ClientTyped
    <3>2. Shape' /\ \A q \in Queues : RingTyped(q)'
      BY <3>1, TypedParts, RingsKept
    <3> QED
      BY <3>1, <3>2, TypedPartsNext
  <2>2. CASE Next
    <3>1. ASSUME NEW op \in setup.ops, NEW B \in SUBSET Buffers, Prepare(op, B),
                 UNCHANGED <<late, setup>>
          PROVE  Typed'
      <4>1. op \in AllOps
        BY TypedParts, SetupsAssumption DEF ClientTyped
      <4> QED
        BY <3>1, <4>1, PrepareTyped
    <3>2. ASSUME Controller, UNCHANGED <<late, setup>> PROVE Typed'
      BY <3>2, FetchTyped, ExecuteTyped DEF Controller
    <3> QED
      BY <2>2, <3>1, <3>2, ClientStepTyped, IsrThreadTyped, KernelTyped DEF Next
  <2> QED
    BY <2>1, <2>2
<1> QED
  BY <1>1, InitTyped, PTL DEF Spec

THEOREM PathTypeCorrect == Spec => []TypeOK
<1>1. Typed => TypeOK
  BY DEF Typed
<1> QED
  BY <1>1, TypedInvariant, PTL

-----------------------------------------------------------------------------
(* One command at a time.                                                  *)

\* What the token's place says of one queue.
LEMMA OneCommandSays ==
  ASSUME OneCommand, NEW q \in Queues
  PROVE  /\ cqTail[q] = cqHead[q] \/ cqTail[q] = Next1(q, cqHead[q])
         /\ busy[q] # {} => cqTail[q] = cqHead[q]
  BY DEF OneCommand, CommandAt, QueueAt

\* The phase test of isr_thread, in terms of the ring's two ends.
LEMMA PhaseTest ==
  ASSUME Typed, OneCommand, NEW q \in Queues, RingTagged(q)
  PROVE  Posted(q) <=> cqHead[q] # cqTail[q]
<1>1. RingTyped(q) /\ cqHead[q] \in Slots(q) /\ cqTag[q] \in {0, 1}
  BY TypedParts DEF RingTyped
<1>2. Depth(q) \in Nat /\ Depth(q) >= 2
  BY DepthAssumption DEF Depth
<1>3. CASE cqHead[q] = cqTail[q]
  BY <1>1, <1>3 DEF RingTagged, Posted, Slots
<1>4. CASE cqHead[q] # cqTail[q]
  <2>1. cqTail[q] = Next1(q, cqHead[q])
    BY <1>4, OneCommandSays
  <2>2. CASE cqTail[q] = 0
    BY <1>1, <1>4, <2>2 DEF RingTagged, Posted, Slots
  <2>3. CASE cqTail[q] # 0
    <3>1. cqHead[q] < cqTail[q]
      BY <1>1, <1>2, <2>1, <2>3 DEF Next1, Slots
    <3> QED
      BY <1>1, <1>4, <2>3, <3>1 DEF RingTagged, Posted
  <2> QED
    BY <2>2, <2>3
<1> QED
  BY <1>3, <1>4

\* Neither the kernel nor a wait of isr_thread moves the command.
LEMMA CommandKept ==
  ASSUME OneCommand, UNCHANGED pathVars
  PROVE  OneCommand'
<1>1. UNCHANGED <<app, ioq, signalling, sync, sq, sqTail, sqDoorbell, sqHead, busy, cqTail, cqHead>>
  BY DEF pathVars, ringVars
<1>2. PICK p \in PlacesAt(app.at) : CommandAt(p)
  BY DEF OneCommand
<1>3. CommandAt(p)'
  BY <1>1, <1>2 DEF CommandAt, QueueAt, Sent
<1> QED
  BY <1>1, <1>2, <1>3 DEF OneCommand, Callable

LEMMA PrepareOne ==
  ASSUME Typed, OneCommand, NEW op \in AllOps, NEW B \in SUBSET Buffers, Prepare(op, B)
  PROVE  OneCommand'
<1>1. CommandAt("nowhere") /\ app.at = "idle"
  BY DEF OneCommand, PlacesAt, Prepare
<1>2. app' = [at |-> "ring", op |-> op, bufs |-> B] /\ Callable(op) /\ UNCHANGED ioq
  BY DEF Prepare
<1>3. "queued" \in PlacesAt(app'.at) /\ Callable(app.op)'
  BY <1>2 DEF PlacesAt, Callable
<1>4. ASSUME NEW r \in Queues
      PROVE  QueueAt(r, IF r = QueueOf(app.op) THEN "queued" ELSE "nowhere")'
  <2>1. QueueAt(r, "nowhere")
    BY <1>1 DEF CommandAt
  <2>2. RingTyped(r)
    BY TypedParts
  <2>3. UNCHANGED <<sqHead, sqDoorbell, busy, cqTail, cqHead>>
    BY DEF Prepare
  <2>4. CASE r = QueueOf(op)
    <3>1. sqTail'[r] = Next1(r, sqTail[r]) /\ sq'[r][sqTail[r]] = [op |-> op, bufs |-> B]
      BY <2>2, <2>4, TypedParts, PrepareEffect DEF RingTyped
    <3> QED
      BY <1>2, <2>1, <2>3, <2>4, <3>1 DEF QueueAt, Sent
  <2>5. CASE r # QueueOf(op)
    <3>1. sqTail'[r] = sqTail[r]
      BY <2>5, TypedParts, PrepareEffect
    <3> QED
      BY <1>2, <2>1, <2>3, <2>5, <3>1 DEF QueueAt
  <2> QED
    BY <2>4, <2>5
<1>5. CommandAt("queued")'
  BY <1>1, <1>4 DEF CommandAt, Prepare
<1> QED
  BY <1>2, <1>3, <1>5 DEF OneCommand

LEMMA RingDoorbellOne ==
  ASSUME Typed, OneCommand, RingDoorbell
  PROVE  OneCommand'
<1>1. CommandAt("queued") /\ app.at = "ring" /\ Callable(app.op)
  BY DEF OneCommand, PlacesAt, RingDoorbell
<1>2. app' = [app EXCEPT !.at = "wait"] /\ UNCHANGED ioq
  BY DEF RingDoorbell
<1>3. app'.at = "wait" /\ app'.op = app.op /\ app'.bufs = app.bufs
  BY <1>2, TypedParts DEF ClientTyped
<1>4. "queued" \in PlacesAt(app'.at) /\ Callable(app.op)'
  BY <1>1, <1>2, <1>3 DEF PlacesAt, Places, Callable
<1>5. ASSUME NEW r \in Queues
      PROVE  QueueAt(r, IF r = QueueOf(app.op) THEN "queued" ELSE "nowhere")'
  <2>1. QueueAt(r, IF r = QueueOf(app.op) THEN "queued" ELSE "nowhere")
    BY <1>1 DEF CommandAt
  <2>2. UNCHANGED <<sq, sqTail, sqHead, busy, cqTail, cqHead>>
    BY DEF RingDoorbell
  <2>3. \/ sqDoorbell'[r] = sqDoorbell[r]
        \/ sqDoorbell'[r] = sqTail[r] /\ r = QueueOf(app.op)
    BY TypedParts, RingDoorbellEffect
  <2>4. sqDoorbell[r] = sqHead[r]
    BY <1>1, <2>1 DEF QueueAt
  <2> QED
    BY <1>3, <2>1, <2>2, <2>3, <2>4 DEF QueueAt, Sent
<1>6. CommandAt("queued")'
  BY <1>1, <1>5 DEF CommandAt, RingDoorbell
<1> QED
  BY <1>3, <1>4, <1>6 DEF OneCommand

LEMMA WakeOne ==
  ASSUME Typed, OneCommand, Wake
  PROVE  OneCommand'
<1>1. CommandAt("signalled") /\ app.at = "wait" /\ Callable(app.op)
  BY DEF OneCommand, PlacesAt, CommandAt, Wake
<1>2. app' = [app EXCEPT !.at = "finish"] /\ ~sync' /\ UNCHANGED <<ioq, signalling>>
  BY DEF Wake
<1>3. app'.at = "finish" /\ app'.op = app.op /\ app'.bufs = app.bufs
  BY <1>2, TypedParts DEF ClientTyped
<1>4. UNCHANGED <<sq, sqTail, sqDoorbell, sqHead, busy, cqTail, cqHead>>
  BY DEF Wake, ringVars
<1>5. ASSUME NEW r \in Queues PROVE QueueAt(r, "nowhere")'
  <2>1. QueueAt(r, "signalled") \/ QueueAt(r, "nowhere")
    BY <1>1 DEF CommandAt
  <2> QED
    BY <1>4, <2>1 DEF QueueAt
<1>6. CommandAt("nowhere")'
  BY <1>1, <1>2, <1>5 DEF CommandAt
<1> QED
  BY <1>1, <1>2, <1>3, <1>6 DEF OneCommand, PlacesAt, Callable

LEMMA FinishOne ==
  ASSUME Typed, OneCommand, Finish
  PROVE  OneCommand'
<1>1. CommandAt("nowhere")
  BY DEF OneCommand, PlacesAt, Finish
<1>2. app' = [at |-> "idle", op |-> "zeroed", bufs |-> {}]
  BY DEF Finish
<1>3. UNCHANGED <<signalling, sync, sq, sqTail, sqDoorbell, sqHead, busy, cqTail, cqHead>>
  BY DEF Finish, ringVars
<1>4. ASSUME NEW r \in Queues PROVE QueueAt(r, "nowhere")'
  <2>1. QueueAt(r, "nowhere")
    BY <1>1 DEF CommandAt
  <2> QED
    BY <1>3, <2>1 DEF QueueAt
<1>5. CommandAt("nowhere")'
  BY <1>1, <1>3, <1>4 DEF CommandAt
<1> QED
  BY <1>2, <1>5 DEF OneCommand, PlacesAt

\* The controller takes the entry at the head only if the doorbell is past it.
LEMMA FetchOne ==
  ASSUME Typed, OneCommand, NEW q \in Queues, Fetch(q)
  PROVE  OneCommand'
<1>1. PICK p \in PlacesAt(app.at) : CommandAt(p)
  BY DEF OneCommand
<1>2. p = "queued" /\ q = QueueOf(app.op) /\ app.at = "wait" /\ sqDoorbell[q] = sqTail[q]
  BY <1>1 DEF CommandAt, QueueAt, Fetch
<1>3. UNCHANGED <<app, ioq, signalling, sync, sqTail, sqDoorbell, cqTail, cqHead>>
  BY DEF Fetch
<1>4. ASSUME NEW r \in Queues
      PROVE  QueueAt(r, IF r = QueueOf(app.op) THEN "executing" ELSE "nowhere")'
  <2>1. QueueAt(r, IF r = QueueOf(app.op) THEN "queued" ELSE "nowhere")
    BY <1>1, <1>2 DEF CommandAt
  <2>2. CASE r = q
    <3>1. sqHead'[r] = Next1(r, sqHead[r]) /\ busy'[r] = busy[r] \cup {sq[r][sqHead[r]]}
      BY <2>2, TypedParts, FetchEffect
    <3>2. busy[r] = {} /\ sq[r][sqHead[r]] = Sent /\ sqTail[r] = Next1(r, sqHead[r])
      BY <1>2, <2>1, <2>2 DEF QueueAt
    <3>3. sqHead'[r] = sqTail'[r] /\ sqDoorbell'[r] = sqTail'[r] /\ busy'[r] = {Sent}
      BY <1>2, <1>3, <2>2, <3>1, <3>2
    <3> QED
      BY <1>2, <1>3, <2>1, <2>2, <3>3 DEF QueueAt, Sent
  <2>3. CASE r # q
    <3>1. sqHead'[r] = sqHead[r] /\ busy'[r] = busy[r]
      BY <2>3, TypedParts, FetchEffect
    <3> QED
      BY <1>2, <1>3, <2>1, <2>3, <3>1 DEF QueueAt
  <2> QED
    BY <2>2, <2>3
<1>5. CommandAt("executing")'
  BY <1>1, <1>2, <1>3, <1>4 DEF CommandAt
<1> QED
  BY <1>2, <1>3, <1>5 DEF OneCommand, PlacesAt, Places, Callable

\* The controller can execute only the command of the call under way.
LEMMA ExecuteOne ==
  ASSUME Typed, OneCommand, NEW q \in Queues, NEW c \in busy[q], Execute(q, c)
  PROVE  OneCommand'
<1>1. PICK p \in PlacesAt(app.at) : CommandAt(p)
  BY DEF OneCommand
<1>2. p = "executing" /\ q = QueueOf(app.op) /\ c = Sent
  BY <1>1 DEF CommandAt, QueueAt
<1>3. app.at = "wait"
  BY <1>1, <1>2, TypedParts DEF PlacesAt, ClientTyped
<1>4. UNCHANGED <<app, ioq, signalling, sync, sq, sqTail, sqDoorbell, sqHead, cqHead>>
  BY DEF Execute
<1>5. ASSUME NEW r \in Queues
      PROVE  QueueAt(r, IF r = QueueOf(app.op) THEN "posted" ELSE "nowhere")'
  <2>1. QueueAt(r, IF r = QueueOf(app.op) THEN "executing" ELSE "nowhere")
    BY <1>1, <1>2 DEF CommandAt
  <2>2. CASE r = q
    <3>1. cqTail'[r] = Next1(r, cqTail[r]) /\ busy'[r] = busy[r] \ {c}
      BY <2>2, TypedParts, ExecuteEffect
    <3>2. busy[r] = {c} /\ cqTail[r] = cqHead[r]
      BY <1>2, <2>1, <2>2 DEF QueueAt
    <3>3. cqTail'[r] = Next1(r, cqHead'[r]) /\ busy'[r] = {}
      BY <1>4, <3>1, <3>2
    <3> QED
      BY <1>2, <1>4, <2>1, <2>2, <3>3 DEF QueueAt
  <2>3. CASE r # q
    <3>1. cqTail'[r] = cqTail[r] /\ busy'[r] = busy[r]
      BY <2>3, TypedParts, ExecuteEffect
    <3> QED
      BY <1>2, <1>4, <2>1, <2>3, <3>1 DEF QueueAt
  <2> QED
    BY <2>2, <2>3
<1>6. CommandAt("posted")'
  BY <1>1, <1>2, <1>4, <1>5 DEF CommandAt
<1> QED
  BY <1>3, <1>4, <1>6 DEF OneCommand, PlacesAt, Places, Callable

\* isr_thread consumes an entry only if the controller has posted the call's.
LEMMA ConsumeOne ==
  ASSUME Typed, OneCommand, \A q \in Queues : RingTagged(q), Consume
  PROVE  OneCommand'
<1> DEFINE q == QueueOfVector(waiter.vec)
<1>1. waiter.vec \in Vectors /\ q \in Queues
  BY TypedParts, VectorType DEF TypeOKInterrupts
<1>2. PICK p \in PlacesAt(app.at) : CommandAt(p)
  BY DEF OneCommand
<1>3. cqHead[q] # cqTail[q]
  BY <1>1, PhaseTest DEF Consume
<1>4. p = "posted" /\ q = QueueOf(app.op)
  BY <1>1, <1>2, <1>3 DEF CommandAt, QueueAt
<1>5. app.at = "wait"
  BY <1>2, <1>4, TypedParts DEF PlacesAt, ClientTyped
<1>6. /\ UNCHANGED <<app, ioq, sync, sq, sqTail, sqDoorbell, sqHead, busy, cqTail>>
      /\ signalling'
  BY DEF Consume
<1>7. \A r \in Queues : cqHead'[r] = IF r = q THEN Next1(q, cqHead[q]) ELSE cqHead[r]
  BY <1>1, TypedParts, ConsumeEffect
<1>8. ASSUME NEW r \in Queues
      PROVE  QueueAt(r, IF r = QueueOf(app.op) THEN "consumed" ELSE "nowhere")'
  <2>1. QueueAt(r, IF r = QueueOf(app.op) THEN "posted" ELSE "nowhere")
    BY <1>2, <1>4 DEF CommandAt
  <2>2. cqHead'[r] = cqTail'[r]
    BY <1>4, <1>6, <1>7, <2>1 DEF QueueAt
  <2> QED
    BY <1>4, <1>6, <2>1, <2>2 DEF QueueAt
<1>9. CommandAt("consumed")'
  BY <1>2, <1>4, <1>6, <1>8 DEF CommandAt
<1> QED
  BY <1>5, <1>6, <1>9 DEF OneCommand, PlacesAt, Places, Callable

LEMMA SignalCommandOne ==
  ASSUME Typed, OneCommand, SignalCommand
  PROVE  OneCommand'
<1>1. PICK p \in PlacesAt(app.at) : CommandAt(p)
  BY DEF OneCommand
<1>2. p = "consumed"
  BY <1>1 DEF CommandAt, SignalCommand
<1>3. app.at = "wait"
  BY <1>1, <1>2, TypedParts DEF PlacesAt, ClientTyped
<1>4. /\ UNCHANGED <<app, ioq, sq, sqTail, sqDoorbell, sqHead, busy, cqTail, cqHead>>
      /\ ~signalling' /\ sync'
  BY DEF SignalCommand, ringVars
<1>5. ASSUME NEW r \in Queues
      PROVE  QueueAt(r, IF r = QueueOf(app.op) THEN "signalled" ELSE "nowhere")'
  <2>1. QueueAt(r, IF r = QueueOf(app.op) THEN "consumed" ELSE "nowhere")
    BY <1>1, <1>2 DEF CommandAt
  <2> QED
    BY <1>4, <2>1 DEF QueueAt
<1>6. CommandAt("signalled")'
  BY <1>4, <1>5 DEF CommandAt
<1> QED
  BY <1>3, <1>4, <1>6 DEF OneCommand, PlacesAt, Places, Callable

-----------------------------------------------------------------------------
(* Tags and phase.                                                         *)

\* Posting an entry writes this round's tag one slot further, and turns the
\* round when the tail wraps.
LEMMA ExecuteTagged ==
  ASSUME Typed, OneCommand, NEW q \in Queues, NEW c \in busy[q], Execute(q, c),
         NEW r \in Queues, RingTagged(r)
  PROVE  RingTagged(r)'
<1>1. UNCHANGED <<cqHead, cqPhase, cqDoorbell>>
  BY DEF Execute
<1>2. CASE r # q
  <2>1. cq'[r] = cq[r] /\ cqTail'[r] = cqTail[r] /\ cqTag'[r] = cqTag[r]
    BY <1>2, TypedParts, ExecuteEffect
  <2> QED
    BY <1>1, <2>1 DEF RingTagged
<1>3. CASE r = q
  <2> DEFINE t == cqTail[r]
             n == Next1(r, t)
  <2>1. /\ cq'[r] = [cq[r] EXCEPT ![t] = cqTag[r]]
        /\ cqTail'[r] = n
        /\ cqTag'[r] = IF n = 0 THEN 1 - cqTag[r] ELSE cqTag[r]
    BY <1>3, TypedParts, ExecuteEffect
  <2>2. /\ cq[r] \in [Slots(r) -> {0, 1}] /\ t \in Slots(r)
        /\ cqTag[r] \in {0, 1} /\ cqHead[r] \in Slots(r)
    BY TypedParts DEF RingTyped
  <2>3. Depth(r) \in Nat /\ Depth(r) >= 2
    BY DepthAssumption DEF Depth
  <2>4. cqHead[r] = t
    BY <1>3, OneCommandSays
  <2>5. n # t /\ (n = 0 => \A i \in Slots(r) : i <= t) /\ (n # 0 => n = t + 1)
    BY <2>2, <2>3, Next1Type DEF Slots, Next1
  <2>6. \A i \in Slots(r) : cq'[r][i] = IF i <= t THEN cqTag[r] ELSE 1 - cqTag[r]
    BY <2>1, <2>2, <2>3 DEF RingTagged, Slots
  <2>7. ASSUME NEW i \in Slots(r)
        PROVE  cq'[r][i] = IF i < cqTail'[r] THEN cqTag'[r] ELSE 1 - cqTag'[r]
    BY <2>1, <2>2, <2>3, <2>5, <2>6, <2>7 DEF Slots
  <2>8. cqPhase[r] = cqTag[r]
    BY <2>4 DEF RingTagged
  <2>9. cqPhase'[r] = IF cqHead'[r] # cqTail'[r] /\ cqTail'[r] = 0
                        THEN 1 - cqTag'[r] ELSE cqTag'[r]
    BY <1>1, <2>1, <2>2, <2>4, <2>5, <2>8
  <2> QED
    BY <1>1, <2>7, <2>9 DEF RingTagged
<1> QED
  BY <1>2, <1>3

\* Consuming it brings head and phase up to the tail and its tag.
LEMMA ConsumeTagged ==
  ASSUME Typed, OneCommand, Consume, \A q \in Queues : RingTagged(q), NEW r \in Queues
  PROVE  RingTagged(r)'
<1> DEFINE q == QueueOfVector(waiter.vec)
           h == Next1(q, cqHead[q])
<1>1. waiter.vec \in Vectors /\ q \in Queues
  BY TypedParts, VectorType DEF TypeOKInterrupts
<1>2. UNCHANGED <<cq, cqTail, cqTag>>
  BY DEF Consume
<1>3. CASE r # q
  <2>1. UNCHANGED <<cqHead[r], cqPhase[r], cqDoorbell[r]>>
    BY <1>1, <1>3, TypedParts, ConsumeEffect
  <2> QED
    BY <1>2, <2>1 DEF RingTagged
<1>4. CASE r = q
  <2>1. cqHead'[r] = h /\ cqDoorbell'[r] = h /\ cqPhase'[r] = PhaseAfter(h, cqPhase[r])
    BY <1>1, <1>4, TypedParts, ConsumeEffect
  <2>2. cqHead[r] # cqTail[r]
    BY <1>4, PhaseTest DEF Consume
  <2>3. cqTail[r] = h
    BY <1>4, <2>2, OneCommandSays
  <2>4. cqTag[r] \in {0, 1}
    BY TypedParts DEF RingTyped
  <2>5. cqPhase'[r] = cqTag[r]
    BY <2>1, <2>2, <2>3, <2>4 DEF RingTagged, PhaseAfter
  <2> QED
    BY <1>2, <2>1, <2>3, <2>5 DEF RingTagged
<1> QED
  BY <1>3, <1>4

\* No other step touches a completion ring.
LEMMA TaggedKept ==
  ASSUME UNCHANGED <<cq, cqTail, cqTag, cqHead, cqPhase, cqDoorbell>>,
         \A q \in Queues : RingTagged(q)
  PROVE  \A q \in Queues : RingTagged(q)'
  BY DEF RingTagged

-----------------------------------------------------------------------------
(* The I/O queue's vector before there is an I/O queue.                    *)

\* Only a read is a command of the I/O queue, and a read waits for initIoQ.
LEMMA IoBusyLive ==
  ASSUME Typed, OneCommand, busy["io"] # {}
  PROVE  ioq = "live"
<1>1. PICK p \in PlacesAt(app.at) : CommandAt(p)
  BY DEF OneCommand
<1>2. p = "executing" /\ QueueOf(app.op) = "io"
  BY <1>1 DEF CommandAt, QueueAt, Queues
<1>3. app.at # "idle" /\ app.op = "read"
  BY <1>1, <1>2 DEF PlacesAt, QueueOf
<1> QED
  BY <1>3 DEF OneCommand, Callable

\* No step of the kernel brings the vector in: it passes on what it was given.
LEMMA KernelSilent ==
  ASSUME Typed, IoVectorSilent, NEW cpus \in SUBSET Cpus, KernelStep(cpus), UNCHANGED ioq
  PROVE  IoVectorSilent'
<1> SUFFICES ASSUME ioq \in {"none", "cq"}
             PROVE  IoVectorSilent'
  BY DEF IoVectorSilent
<1> USE VectorAssumption
<1>1. TypeOKInterrupts
  BY TypedParts
<1>2. /\ IoVector \notin msi /\ isr[IoVector] = "idle"
      /\ messageId = 0
      /\ \A c \in Cpus : dpc[c].msg = 0
      /\ ~event[IoVector]
      /\ waiter.vec = 0
  BY DEF IoVectorSilent
<1>3. ASSUME NEW v \in Vectors, IsrStore(v) \/ IsrRequestDpc(v) PROVE IoVectorSilent'
  <2>1. v = 0
    BY <1>2, <1>3 DEF IsrStore, IsrRequestDpc
  <2> QED
    BY <1>1, <1>2, <1>3, <2>1
    DEF IsrStore, IsrRequestDpc, IoVectorSilent, TypeOKInterrupts
<1>4. ASSUME NEW c \in Cpus, DpcStep(c) PROVE IoVectorSilent'
  <2>1. UNCHANGED <<msi, isr, messageId>>
    BY <1>4 DEF DpcStep, DpcStart, DpcLatch, DpcSet, DpcClear, DpcStallEnds
  <2>2. \A d \in Cpus : dpc'[d].msg = 0
    BY <1>1, <1>2, <1>4
    DEF DpcStep, DpcStart, DpcLatch, DpcSet, DpcClear, DpcStallEnds, At, TypeOKInterrupts
  <2>3. ~event'[IoVector]
    BY <1>1, <1>2, <1>4
    DEF DpcStep, DpcStart, DpcLatch, DpcSet, DpcClear, DpcStallEnds, TypeOKInterrupts
  <2>4. waiter'.vec = 0
    BY <1>1, <1>2, <1>4
    DEF DpcStep, DpcStart, DpcLatch, DpcSet, DpcClear, DpcStallEnds
  <2> QED
    BY <1>2, <2>1, <2>2, <2>3, <2>4 DEF IoVectorSilent
<1> QED
  BY <1>3, <1>4 DEF KernelStep

LEMMA SilentKept ==
  ASSUME IoVectorSilent, UNCHANGED intVars, ioq' \in {"none", "cq"} => ioq \in {"none", "cq"}
  PROVE  IoVectorSilent'
  BY DEF IoVectorSilent, intVars

LEMMA ClientSilent ==
  ASSUME Typed, OneCommand, IoVectorSilent,
         Client \/ \E op \in AllOps, B \in SUBSET Buffers : Prepare(op, B)
  PROVE  IoVectorSilent'
<1>1. UNCHANGED intVars
  BY DEF Client, RingDoorbell, Wake, Finish, Prepare
<1>2. ioq' \in {"none", "cq"} => ioq \in {"none", "cq"}
  <2>1. CASE Finish
    <3>1. app.at = "finish" /\ Callable(app.op)
      BY <2>1 DEF Finish, OneCommand
    <3>2. app.op = "create_cq" => ioq = "none"
      BY <3>1 DEF Callable
    <3> QED
      BY <2>1, <3>2 DEF Finish
  <2>2. CASE ~Finish
    BY <2>2 DEF Client, RingDoorbell, Wake, Prepare
  <2> QED
    BY <2>1, <2>2
<1> QED
  BY <1>1, <1>2, SilentKept

LEMMA ExecuteSilent ==
  ASSUME Typed, OneCommand, IoVectorSilent, NEW q \in Queues, NEW c \in busy[q], Execute(q, c)
  PROVE  IoVectorSilent'
<1>1. CASE q = "io"
  BY <1>1, IoBusyLive DEF Execute, IoVectorSilent
<1>2. CASE q # "io"
  <2>1. msi' = msi \cup {0} /\ UNCHANGED <<isr, waiter, kernelVars, ioq>>
    BY <1>2 DEF Execute, VectorOf, Queues
  <2> QED
    BY <2>1, VectorType DEF IoVectorSilent, kernelVars
<1> QED
  BY <1>1, <1>2

LEMMA IsrThreadSilent ==
  ASSUME Typed, IoVectorSilent, IsrThread
  PROVE  IoVectorSilent'
<1>1. CASE Consume \/ SignalCommand
  BY <1>1, SilentKept DEF Consume, SignalCommand
<1>2. CASE LeaveLoop
  BY <1>2 DEF LeaveLoop, HandlerReturns, pathVars, IoVectorSilent
<1>3. CASE WaitForEvents /\ UNCHANGED pathVars
  <2>1. UNCHANGED <<msi, isr, messageId, dpc, event, ioq>>
    BY <1>3 DEF WaitForEvents, pathVars
  <2>2. ioq \in {"none", "cq"} => waiter'.vec = 0
    <3> SUFFICES ASSUME ioq \in {"none", "cq"} PROVE waiter'.vec = 0
      OBVIOUS
    <3>1. waiter.vec = 0 /\ ~event[IoVector]
      BY DEF IoVectorSilent
    <3>2. waiter \in [at : {"call", "blocked", "handle"}, vec : Vectors]
      BY TypedParts DEF TypeOKInterrupts
    <3> QED
      BY <1>3, <3>1, <3>2, VectorAssumption DEF WaitForEvents
  <2> QED
    BY <2>1, <2>2 DEF IoVectorSilent
<1> QED
  BY <1>1, <1>2, <1>3 DEF IsrThread

-----------------------------------------------------------------------------
(* The invariant.                                                          *)

LEMMA InitPathInv == Init => PathInv
<1> SUFFICES ASSUME Init PROVE PathInv
  OBVIOUS
<1>1. CommandAt("nowhere")
  BY DEF Init, InitThread, CommandAt, QueueAt
<1>2. app = [at |-> "idle", op |-> "zeroed", bufs |-> {}]
  BY DEF Init
<1>3. OneCommand
  BY <1>1, <1>2 DEF OneCommand, PlacesAt
<1>4. ASSUME NEW q \in Queues PROVE RingTagged(q)
  <2>1. Depth(q) \in Nat
    BY DepthAssumption DEF Depth
  <2> QED
    BY <2>1 DEF Init, RingTagged, Slots
<1>5. IoVectorSilent
  BY VectorAssumption DEF Init, InitInterrupts, At, IoVectorSilent
<1> QED
  BY <1>3, <1>4, <1>5, InitTyped DEF PathInv

\* Each step of the four parties preserves the three parts of the invariant.
LEMMA StepPathInv == Typed /\ PathInv /\ Typed' /\ [Next]_vars => PathInv'
<1> SUFFICES ASSUME PathInv, Typed', [Next]_vars
             PROVE  (OneCommand /\ IoVectorSilent)' /\ \A q \in Queues : RingTagged(q)'
  BY DEF PathInv
<1> USE DEF PathInv
<1>1. CASE UNCHANGED vars
  <2>1. UNCHANGED <<intVars, pathVars, ioq>>
    BY <1>1 DEF vars, pathVars
  <2>2. UNCHANGED <<cq, cqTail, cqTag, cqHead, cqPhase, cqDoorbell>>
    BY <2>1 DEF pathVars, ringVars
  <2> QED
    BY <2>1, <2>2, CommandKept, SilentKept, TaggedKept
<1>2. ASSUME NEW op \in setup.ops, NEW B \in SUBSET Buffers, Prepare(op, B)
      PROVE  (OneCommand /\ IoVectorSilent)' /\ \A q \in Queues : RingTagged(q)'
  <2>1. op \in AllOps
    BY TypedParts, SetupsAssumption DEF ClientTyped
  <2>2. UNCHANGED <<cq, cqTail, cqTag, cqHead, cqPhase, cqDoorbell>>
    BY <1>2 DEF Prepare
  <2> QED
    BY <1>2, <2>1, <2>2, PrepareOne, ClientSilent, TaggedKept
<1>3. ASSUME Client
      PROVE  (OneCommand /\ IoVectorSilent)' /\ \A q \in Queues : RingTagged(q)'
  <2>1. UNCHANGED <<cq, cqTail, cqTag, cqHead, cqPhase, cqDoorbell>>
    BY <1>3 DEF Client, RingDoorbell, Wake, Finish, ringVars
  <2>2. OneCommand'
    BY <1>3, RingDoorbellOne, WakeOne, FinishOne DEF Client
  <2> QED
    BY <1>3, <2>1, <2>2, ClientSilent, TaggedKept
<1>4. ASSUME NEW q \in Queues, Fetch(q)
      PROVE  (OneCommand /\ IoVectorSilent)' /\ \A r \in Queues : RingTagged(r)'
  <2>1. UNCHANGED <<cq, cqTail, cqTag, cqHead, cqPhase, cqDoorbell, intVars, ioq>>
    BY <1>4 DEF Fetch
  <2> QED
    BY <1>4, <2>1, FetchOne, SilentKept, TaggedKept
<1>5. ASSUME NEW q \in Queues, NEW c \in busy[q], Execute(q, c)
      PROVE  (OneCommand /\ IoVectorSilent)' /\ \A r \in Queues : RingTagged(r)'
  BY <1>5, ExecuteOne, ExecuteSilent, ExecuteTagged
<1>6. ASSUME IsrThread
      PROVE  (OneCommand /\ IoVectorSilent)' /\ \A q \in Queues : RingTagged(q)'
  <2>1. CASE Consume
    BY <1>6, <2>1, ConsumeOne, ConsumeTagged, IsrThreadSilent
  <2>2. CASE SignalCommand
    <3>1. UNCHANGED <<cq, cqTail, cqTag, cqHead, cqPhase, cqDoorbell>>
      BY <2>2 DEF SignalCommand, ringVars
    <3> QED
      BY <1>6, <2>2, <3>1, SignalCommandOne, IsrThreadSilent, TaggedKept
  <2>3. CASE UNCHANGED pathVars
    <3>1. UNCHANGED <<cq, cqTail, cqTag, cqHead, cqPhase, cqDoorbell>>
      BY <2>3 DEF pathVars, ringVars
    <3> QED
      BY <1>6, <2>3, <3>1, CommandKept, IsrThreadSilent, TaggedKept
  <2> QED
    BY <1>6, <2>1, <2>2, <2>3 DEF IsrThread, LeaveLoop
<1>7. ASSUME Kernel(KernelStep(setup.cpus))
      PROVE  (OneCommand /\ IoVectorSilent)' /\ \A q \in Queues : RingTagged(q)'
  <2>1. KernelStep(setup.cpus) /\ UNCHANGED <<pathVars, ioq>>
    BY <1>7 DEF Kernel, pathVars
  <2>2. setup.cpus \in SUBSET Cpus
    BY TypedParts, SetupsAssumption DEF ClientTyped
  <2>3. UNCHANGED <<cq, cqTail, cqTag, cqHead, cqPhase, cqDoorbell>>
    BY <2>1 DEF pathVars, ringVars
  <2> QED
    BY <2>1, <2>2, <2>3, CommandKept, KernelSilent, TaggedKept
<1> QED
  BY <1>1, <1>2, <1>3, <1>4, <1>5, <1>6, <1>7 DEF Next, Controller

LEMMA PathInvariant == Spec => []PathInv
  BY InitPathInv, StepPathInv, TypedInvariant, PTL DEF Spec

\* isr_thread follows io_cq_entry only after initIoQ has set it: no interrupt,
\* pulse or wait names the I/O vector before.
THEOREM IoQueueIsReady == Spec => []IoQueueReady
<1>1. PathInv => IoQueueReady
  BY VectorAssumption DEF PathInv, IoVectorSilent, IoQueueReady
<1> QED
  BY <1>1, PathInvariant, PTL

\* isr_thread's phase test sees an entry exactly when there is one it has not
\* consumed, for rings of any depth and any number of wraps.
THEOREM PhaseTestIsExact == Spec => []PhaseTellsPosted
<1>1. PathInv => PhaseTellsPosted
  BY PhaseTest DEF PathInv, PhaseTellsPosted
<1> QED
  BY <1>1, PathInvariant, PTL

-----------------------------------------------------------------------------
(* The refinement of SyncCommand.                                          *)

\* Where the command is decides what the abstract call sees of it.
LEMMA Mapping ==
  ASSUME Typed, NEW p \in PlacesAt(app.at), CommandAt(p)
  PROVE  /\ Outstanding(QueueOf(app.op)) <=> p \in {"queued", "executing"}
         /\ Lent = IF p \in {"queued", "executing"} THEN app.bufs ELSE {}
<1> DEFINE own == QueueOf(app.op)
           there(q) == IF q = own THEN p ELSE "nowhere"
<1>1. own \in Queues
  BY DEF QueueOf, Queues
<1>2. \A q \in Queues : QueueAt(q, there(q))
  BY DEF CommandAt
<1>3. \A q \in Queues : Next1(q, sqHead[q]) # sqHead[q]
  BY TypedParts, Next1Type DEF RingTyped
<1>4. Outstanding(own) <=> p \in {"queued", "executing"}
  BY <1>1, <1>2, <1>3 DEF Outstanding, QueueAt
<1>5. ASSUME NEW q \in Queues
      PROVE  LentBy(q) = IF there(q) \in {"queued", "executing"} THEN {app.bufs} ELSE {}
  <2>1. /\ sqTail[q] = sqHead[q] => Window(q) = {}
        /\ sqTail[q] = Next1(q, sqHead[q]) => Window(q) = {sqHead[q]}
    BY TypedParts, WindowOfOne DEF RingTyped
  <2>2. QueueAt(q, there(q))
    BY <1>2
  <2>3. CASE there(q) = "queued"
    <3>1. Window(q) = {sqHead[q]} /\ sq[q][sqHead[q]].bufs = app.bufs /\ busy[q] = {}
      BY <2>1, <2>2, <2>3 DEF QueueAt, Sent
    <3> QED
      BY <2>3, <3>1 DEF LentBy
  <2>4. CASE there(q) = "executing"
    <3>1. Window(q) = {} /\ busy[q] = {Sent} /\ Sent.bufs = app.bufs
      BY <2>1, <2>2, <2>4 DEF QueueAt, Sent
    <3> QED
      BY <2>4, <3>1 DEF LentBy
  <2>5. CASE there(q) \notin {"queued", "executing"}
    <3>1. Window(q) = {} /\ busy[q] = {}
      BY <2>1, <2>2, <2>5 DEF QueueAt
    <3> QED
      BY <2>5, <3>1 DEF LentBy
  <2> QED
    BY <2>3, <2>4, <2>5
<1>6. LentBy("admin") \cup LentBy("io")
        = IF p \in {"queued", "executing"} THEN {app.bufs} ELSE {}
  BY <1>1, <1>5 DEF Queues
<1>7. UNION {app.bufs} = app.bufs /\ UNION {} = {}
  OBVIOUS
<1> QED
  BY <1>4, <1>6, <1>7 DEF Lent

\* What the place of the client thread, the abstract call and the lent buffers
\* say of each other.
CallTells ==
  /\ Lent = IF Call = "issued" THEN app.bufs ELSE {}
  /\ app.at = "idle" => Call = "none" /\ app.bufs = {}
  /\ app.at = "ring" => Call = "issued"
  /\ app.at = "finish" => Call = "completed"
  /\ app.at \in {"idle", "ring", "wait", "finish"}

LEMMA CallTellsHolds == PathInv => CallTells
<1> SUFFICES ASSUME PathInv PROVE CallTells
  OBVIOUS
<1>1. PICK p \in PlacesAt(app.at) : CommandAt(p)
  BY DEF PathInv, OneCommand
<1>2. /\ Outstanding(QueueOf(app.op)) <=> p \in {"queued", "executing"}
      /\ Lent = IF p \in {"queued", "executing"} THEN app.bufs ELSE {}
  BY <1>1, Mapping DEF PathInv
<1>3. app.at \in {"idle", "ring", "wait", "finish"}
  BY TypedParts DEF PathInv, ClientTyped
<1>4. /\ app.at \in {"idle", "finish"} => p = "nowhere"
      /\ app.at = "ring" => p = "queued"
      /\ app.at = "idle" => app.bufs = {}
  BY <1>1 DEF PlacesAt, PathInv, OneCommand
<1> QED
  BY <1>2, <1>3, <1>4 DEF CallTells, Call

LEMMA CallTellsInvariant == Spec => []CallTells
  BY PathInvariant, CallTellsHolds, PTL

\* The controller never holds a buffer the call has given back: while a command
\* can still be fetched or executed, its call has not returned.
THEOREM DmaOnlyIntoHeldBuffers == Spec => []NoDmaIntoFreedBuffer
<1>1. CallTells => NoDmaIntoFreedBuffer
  BY DEF CallTells, NoDmaIntoFreedBuffer
<1> QED
  BY <1>1, CallTellsInvariant, PTL

\* A step that moves neither the client thread nor the submission side is one
\* the abstract call does not see.
LEMMA SyncStutters ==
  ASSUME CallTells, CallTells', UNCHANGED <<app, sqHead, sqTail, busy>>
  PROVE  UNCHANGED Sync!syncVars
<1>1. Call' = Call
  BY DEF Call, Outstanding
<1>2. Lent' = Lent
  BY <1>1 DEF CallTells
<1> QED
  BY <1>1, <1>2 DEF Sync!syncVars

LEMMA PrepareIssues ==
  ASSUME Typed', CallTells, CallTells',
         NEW op \in AllOps, NEW B \in SUBSET Buffers, Prepare(op, B)
  PROVE  Sync!Issue
<1>1. Call = "none" /\ app.at = "idle"
  BY DEF Prepare, CallTells
<1>2. app' = [at |-> "ring", op |-> op, bufs |-> B]
  BY DEF Prepare
<1>3. Call' = "issued" /\ Lent' = app'.bufs
  BY <1>2 DEF CallTells
<1> QED
  BY <1>1, <1>2, <1>3 DEF Sync!Issue

LEMMA ClientMaps ==
  ASSUME Typed, CallTells, CallTells', Client
  PROVE  Sync!Return \/ UNCHANGED Sync!syncVars
<1>1. CASE RingDoorbell \/ Wake
  <2>1. /\ app'.at \in {"wait", "finish"} /\ app.at # "idle"
        /\ app'.op = app.op /\ app'.bufs = app.bufs
    BY <1>1, TypedParts DEF RingDoorbell, Wake, ClientTyped
  <2>2. UNCHANGED <<sqHead, sqTail, busy>>
    BY <1>1 DEF RingDoorbell, Wake, ringVars
  <2>3. Call' = Call
    BY <2>1, <2>2 DEF Call, Outstanding
  <2>4. Lent' = Lent
    BY <2>1, <2>3 DEF CallTells
  <2> QED
    BY <2>1, <2>3, <2>4 DEF Sync!syncVars
<1>2. CASE Finish
  <2>1. Call = "completed" /\ Lent = {}
    BY <1>2 DEF Finish, CallTells
  <2>2. app'.at = "idle" /\ app'.bufs = {}
    BY <1>2 DEF Finish
  <2>3. Call' = "none" /\ Lent' = {}
    BY <2>2 DEF CallTells
  <2> QED
    BY <2>1, <2>2, <2>3 DEF Sync!Return
<1> QED
  BY <1>1, <1>2 DEF Client

LEMMA FetchMaps ==
  ASSUME PathInv, CallTells, CallTells', NEW q \in Queues, Fetch(q)
  PROVE  UNCHANGED Sync!syncVars
<1>1. PICK p \in PlacesAt(app.at) : CommandAt(p)
  BY DEF PathInv, OneCommand
<1>2. p = "queued" /\ q = QueueOf(app.op) /\ app.at # "idle"
  BY <1>1 DEF CommandAt, QueueAt, PlacesAt, Fetch
<1>3. Call = "issued"
  BY <1>1, <1>2, Mapping DEF Call, PathInv
<1>4. UNCHANGED app
  BY DEF Fetch
<1>5. busy'[q] # {}
  BY TypedParts, FetchEffect DEF PathInv
<1>6. Call' = "issued"
  BY <1>2, <1>4, <1>5 DEF Call, Outstanding
<1>7. Lent' = Lent
  BY <1>3, <1>4, <1>6 DEF CallTells
<1> QED
  BY <1>3, <1>4, <1>6, <1>7 DEF Sync!syncVars

LEMMA ExecuteCompletes ==
  ASSUME PathInv, CallTells, CallTells', NEW q \in Queues, NEW c \in busy[q], Execute(q, c)
  PROVE  Sync!Complete
<1>1. PICK p \in PlacesAt(app.at) : CommandAt(p)
  BY DEF PathInv, OneCommand
<1>2. p = "executing" /\ q = QueueOf(app.op) /\ app.at # "idle"
  BY <1>1 DEF CommandAt, QueueAt, PlacesAt
<1>3. busy[q] = {c} /\ sqHead[q] = sqTail[q]
  BY <1>1, <1>2 DEF CommandAt, QueueAt
<1>4. Call = "issued"
  BY <1>1, <1>2, Mapping DEF Call, PathInv
<1>5. UNCHANGED <<app, sqHead, sqTail>>
  BY DEF Execute
<1>6. busy'[q] = {}
  BY <1>3, TypedParts, ExecuteEffect DEF PathInv
<1>7. Call' = "completed"
  BY <1>2, <1>3, <1>5, <1>6 DEF Call, Outstanding
<1>8. Lent' = {}
  BY <1>7 DEF CallTells
<1> QED
  BY <1>4, <1>5, <1>7, <1>8 DEF Sync!Complete

LEMMA StepMaps ==
  PathInv /\ CallTells /\ Typed' /\ CallTells' /\ [Next]_vars
    => [Sync!NextSync]_(Sync!syncVars)
<1> SUFFICES ASSUME PathInv, CallTells, Typed', CallTells', [Next]_vars
             PROVE  Sync!NextSync \/ UNCHANGED Sync!syncVars
  OBVIOUS
<1>1. Typed
  BY DEF PathInv
<1>2. CASE UNCHANGED vars \/ Kernel(KernelStep(setup.cpus))
  <2>1. UNCHANGED pathVars
    BY <1>2 DEF vars, Kernel
  <2>2. UNCHANGED <<app, sqHead, sqTail, busy>>
    BY <2>1 DEF pathVars, ringVars
  <2> QED
    BY <2>2, SyncStutters
<1>3. ASSUME NEW op \in setup.ops, NEW B \in SUBSET Buffers, Prepare(op, B)
      PROVE  Sync!Issue
  <2>1. op \in AllOps
    BY <1>1, TypedParts, SetupsAssumption DEF ClientTyped
  <2> QED
    BY <1>3, <2>1, PrepareIssues
<1>4. CASE Client
  BY <1>1, <1>4, ClientMaps DEF Sync!NextSync
<1>5. CASE Controller
  BY <1>5, FetchMaps, ExecuteCompletes DEF Controller, Sync!NextSync
<1>6. CASE IsrThread
  <2>1. UNCHANGED <<app, sqHead, sqTail, busy>>
    BY <1>6 DEF IsrThread, Consume, SignalCommand, LeaveLoop, pathVars, ringVars
  <2> QED
    BY <2>1, SyncStutters
<1> QED
  BY <1>2, <1>3, <1>4, <1>5, <1>6 DEF Next, Sync!NextSync

\* Each operation of CNVMe is a synchronous call: it returns, and gives its
\* buffers back, only after the controller has finished its own command.
THEOREM CallsAreSynchronous == Spec => ImplementsSyncCommand
<1>1. Init => Sync!InitSync
  <2> SUFFICES ASSUME Init PROVE Sync!InitSync
    OBVIOUS
  <2>1. CallTells /\ app.at = "idle"
    BY InitPathInv, CallTellsHolds DEF Init
  <2> QED
    BY <2>1 DEF CallTells, Sync!InitSync
<1> QED
  BY <1>1, StepMaps, PathInvariant, CallTellsInvariant, TypedInvariant, PTL
  DEF Spec, ImplementsSyncCommand, Sync!SpecSync

-----------------------------------------------------------------------------
(* The interrupts of the command path.                                     *)

\* The controller that executes commands is one of the devices, and isr_thread
\* one of the waiters, that Interrupts allows: seen from the kernel, the command
\* path does nothing that Interrupts does not do.
THEOREM PathDrivesInterrupts == Spec => SpecInterrupts
<1>1. Typed /\ [Next]_vars => [NextInterrupts]_intVars
  <2> SUFFICES ASSUME Typed, [Next]_vars
               PROVE  NextInterrupts \/ UNCHANGED intVars
    OBVIOUS
  <2>1. CASE UNCHANGED vars
    BY <2>1 DEF vars
  <2>2. ASSUME NEW op, NEW B, Prepare(op, B) PROVE UNCHANGED intVars
    BY <2>2 DEF Prepare
  <2>3. CASE Client
    BY <2>3 DEF Client, RingDoorbell, Wake, Finish
  <2>4. ASSUME NEW q \in Queues, Fetch(q) PROVE UNCHANGED intVars
    BY <2>4 DEF Fetch
  <2>5. ASSUME NEW q \in Queues, NEW c \in busy[q], Execute(q, c) PROVE NextInterrupts
    <3>1. RaiseMsi(VectorOf(q))
      BY <2>5 DEF Execute, RaiseMsi, kernelVars
    <3> QED
      BY <3>1, VectorType DEF NextInterrupts
  <2>6. CASE IsrThread
    BY <2>6 DEF IsrThread, Consume, SignalCommand, LeaveLoop, NextInterrupts
  <2>7. CASE Kernel(KernelStep(setup.cpus))
    <3>1. KernelStep(setup.cpus) /\ setup.cpus \subseteq Cpus
      BY <2>7, TypedParts, SetupsAssumption DEF Kernel, ClientTyped
    <3> QED
      BY <3>1 DEF KernelStep, NextInterrupts
  <2> QED
    BY <2>1, <2>2, <2>3, <2>4, <2>5, <2>6, <2>7 DEF Next, Controller
<1>2. Init => InitInterrupts
  BY DEF Init
<1> QED
  BY <1>1, <1>2, TypedInvariant, PTL DEF Spec, SpecInterrupts

-----------------------------------------------------------------------------
(* Why a call waits.  ENABLED is out of the prover's reach, so the guards  *)
(* of the steps that fairness obliges are written out.                     *)

\* Somebody still has a step to make for the call: ghSyncCommand is set, or the
\* controller, isr_thread or the kernel can move.
ControllerCanMove ==
  \E q \in Queues : \/ sqHead[q] # sqDoorbell[q] /\ (q = "io" => "sq" \in ctrlQ)
                    \/ busy[q] # {} /\ Next1(q, cqTail[q]) # cqDoorbell[q]
IsrThreadCanMove == waiter.at # "blocked" \/ signalling
KernelCanMove ==
  \/ \E v \in Vectors : isr[v] = "stored" \/ (v \in msi /\ isr[v] = "idle")
  \/ \E c \in setup.cpus : dpc[c].at # "idle" \/ dpcQueued
CanMove == sync \/ ControllerCanMove \/ IsrThreadCanMove \/ KernelCanMove

\* The doorbell of the call under way has been rung, unless nobody hears it.
RungUnlessUnserved ==
  app.at = "wait" => Unserved \/ \A q \in Queues : sqDoorbell[q] = sqTail[q]

\* A thread that is blocked has found no event set, and the next set wakes it.
BlockedFindsNone == waiter.at = "blocked" => \A v \in Vectors : ~event[v]

\* The DPC runs on the processors of the machine.
DpcOnMachine == \A c \in Cpus : c \notin setup.cpus => dpc[c].at = "idle"

\* Until the I/O queues are in use and no pulse was late, an entry of the admin
\* ring that isr_thread has not seen has a pulse to come that it cannot miss.
PulseComing ==
  ~late /\ ioq \in {"none", "cq"} /\ cqHead["admin"] # cqTail["admin"] =>
    \/ waiter.at = "handle"
    \/ 0 \in msi \/ isr[0] = "stored" \/ dpcQueued
    \/ \E c \in Cpus : dpc[c].at \in {"set1", "clear1", "stall"}
    \/ waiter.at = "blocked" /\ \E c \in Cpus : dpc[c].at = "set2"

WaitInv == RungUnlessUnserved /\ BlockedFindsNone /\ DpcOnMachine /\ PulseComing

\* The queue of a command is the I/O queue for read alone.
LEMMA OwnQueue ==
  QueueOf(app.op) \in Queues /\ (QueueOf(app.op) = "io" <=> app.op = "read")
  BY DEF QueueOf, Queues

LEMMA RungKept ==
  ASSUME PathInv, RungUnlessUnserved, [Next]_vars
  PROVE  RungUnlessUnserved'
<1>1. CASE UNCHANGED <<app, sqDoorbell, sqTail, ctrlQ>>
  BY <1>1 DEF RungUnlessUnserved, Unserved
<1>2. ASSUME NEW op, NEW B, Prepare(op, B) PROVE RungUnlessUnserved'
  BY <1>2 DEF Prepare, RungUnlessUnserved
<1>3. CASE RingDoorbell
  <2>1. CommandAt("queued") /\ UNCHANGED <<sqTail, ctrlQ>> /\ app'.op = app.op
    BY <1>3, TypedParts DEF PathInv, OneCommand, PlacesAt, RingDoorbell, ClientTyped
  <2>2. ASSUME ~Unserved, NEW q \in Queues PROVE sqDoorbell'[q] = sqTail[q]
    <3>1. CASE q = QueueOf(app.op)
      <4>1. q = "io" => "sq" \in ctrlQ
        BY <2>2, <3>1, OwnQueue DEF Unserved
      <4> QED
        BY <1>3, <3>1, <4>1, TypedParts, RingDoorbellEffect DEF PathInv
    <3>2. CASE q # QueueOf(app.op)
      <4>1. sqDoorbell[q] = sqTail[q]
        BY <2>1, <3>2 DEF CommandAt, QueueAt
      <4> QED
        BY <1>3, <3>2, <4>1, TypedParts, RingDoorbellEffect DEF PathInv
    <3> QED
      BY <3>1, <3>2
  <2> QED
    BY <2>1, <2>2 DEF RungUnlessUnserved, Unserved
<1>4. CASE Wake \/ Finish
  BY <1>4, TypedParts DEF Wake, Finish, PathInv, ClientTyped, RungUnlessUnserved
<1>5. ASSUME NEW q \in Queues, NEW c \in busy[q], Execute(q, c) PROVE RungUnlessUnserved'
  <2>1. UNCHANGED <<app, sqDoorbell, sqTail>>
    BY <1>5 DEF Execute
  <2>2. c.op = app.op
    BY DEF PathInv, OneCommand, CommandAt, QueueAt, Sent
  <2>3. Unserved => Unserved'
    BY <1>5, <2>1, <2>2 DEF Unserved, Execute, QueuesAfter
  <2> QED
    BY <2>1, <2>3 DEF RungUnlessUnserved
<1>6. CASE IsrThread \/ Kernel(KernelStep(setup.cpus)) \/ UNCHANGED vars
  BY <1>1, <1>6 DEF IsrThread, Consume, SignalCommand, LeaveLoop, Kernel, vars, pathVars, ringVars
<1>7. ASSUME NEW q \in Queues, Fetch(q) PROVE RungUnlessUnserved'
  BY <1>1, <1>7 DEF Fetch
<1> QED
  BY <1>2, <1>3, <1>4, <1>5, <1>6, <1>7 DEF Next, Client, Controller

\* Every step of the path but those of the kernel and isr_thread leaves the
\* events, the DPC and the waiter alone.
LEMMA OthersLeaveKernel ==
  ASSUME Client \/ Controller \/ (\E op \in AllOps, B \in SUBSET Buffers : Prepare(op, B))
         \/ Consume \/ SignalCommand
  PROVE  /\ UNCHANGED <<isr, messageId, dpcQueued, dpc, event, waiter>>
         /\ msi \subseteq msi'
  BY DEF Client, RingDoorbell, Wake, Finish, Controller, Fetch, Execute, Prepare,
         Consume, SignalCommand, intVars, kernelVars

\* A step of Next, sorted by what it does to the interrupts.
LEMMA NextParts ==
  ASSUME Typed, Next
  PROVE  \/ /\ UNCHANGED <<late, setup>>
            /\ \/ Client \/ Controller \/ IsrThread
               \/ \E op \in AllOps, B \in SUBSET Buffers : Prepare(op, B)
         \/ /\ Kernel(KernelStep(setup.cpus))
            /\ UNCHANGED <<pathVars, setup>>
            /\ setup.cpus \in SUBSET Cpus
<1>1. setup.ops \subseteq AllOps /\ setup.cpus \in SUBSET Cpus
  BY TypedParts, SetupsAssumption DEF ClientTyped
<1> QED
  BY <1>1 DEF Next, Kernel

LEMMA BlockedKept ==
  ASSUME Typed, BlockedFindsNone, DpcOnMachine, [Next]_vars
  PROVE  (BlockedFindsNone /\ DpcOnMachine)'
<1> USE DEF BlockedFindsNone, DpcOnMachine
<1>1. CASE UNCHANGED vars
  BY <1>1 DEF vars, intVars
<1>2. CASE /\ UNCHANGED <<dpc, event, waiter, setup>>
  BY <1>2
<1>3. CASE /\ UNCHANGED setup
           /\ LeaveLoop \/ (WaitForEvents /\ UNCHANGED pathVars)
  BY <1>3, TypedParts DEF LeaveLoop, HandlerReturns, WaitForEvents, TypeOKInterrupts
<1>4. CASE /\ Kernel(KernelStep(setup.cpus)) /\ UNCHANGED setup
           /\ setup.cpus \in SUBSET Cpus
  <2>1. ASSUME NEW v \in Vectors, IsrStore(v) \/ IsrRequestDpc(v)
        PROVE  (BlockedFindsNone /\ DpcOnMachine)'
    BY <1>4, <2>1 DEF IsrStore, IsrRequestDpc
  <2>2. ASSUME NEW c \in setup.cpus, DpcStep(c) PROVE (BlockedFindsNone /\ DpcOnMachine)'
    <3>1. c \in Cpus /\ dpc \in [Cpus -> [at : Stages, latched : BOOLEAN, msg : Vectors]]
      BY <1>4, TypedParts DEF TypeOKInterrupts
    <3>2. \A d \in Cpus : d # c => dpc'[d] = dpc[d]
      BY <2>2, <3>1 DEF DpcStep, DpcStart, DpcLatch, DpcSet, DpcClear, DpcStallEnds
    <3>3. BlockedFindsNone'
      BY <2>2, TypedParts DEF DpcStep, DpcStart, DpcLatch, DpcSet, DpcClear, DpcStallEnds,
                              TypeOKInterrupts
    <3> QED
      BY <1>4, <2>2, <3>2, <3>3
  <2> QED
    BY <1>4, <2>1, <2>2 DEF Kernel, KernelStep
<1> QED
  BY <1>1, <1>2, <1>3, <1>4, NextParts, OthersLeaveKernel DEF IsrThread

\* The last step of a pulse that a thread out of its wait can miss is late.
LEMMA PulseKeptByKernel ==
  ASSUME PathInv, PulseComing, Kernel(KernelStep(setup.cpus)), setup.cpus \in SUBSET Cpus
  PROVE  PulseComing'
<1> SUFFICES ASSUME ~late', ioq \in {"none", "cq"}, cqHead["admin"] # cqTail["admin"]
             PROVE  (\/ waiter.at = "handle"
                     \/ 0 \in msi \/ isr[0] = "stored" \/ dpcQueued
                     \/ \E c \in Cpus : dpc[c].at \in {"set1", "clear1", "stall"}
                     \/ waiter.at = "blocked" /\ \E c \in Cpus : dpc[c].at = "set2")'
  BY DEF PulseComing, Kernel, pathVars, ringVars
<1>1. ~late /\ TypeOKInterrupts /\ IoVector \notin msi
  BY TypedParts DEF Kernel, PathInv, IoVectorSilent
<1>2. \/ waiter.at = "handle"
      \/ 0 \in msi \/ isr[0] = "stored" \/ dpcQueued
      \/ \E c \in Cpus : dpc[c].at \in {"set1", "clear1", "stall"}
      \/ waiter.at = "blocked" /\ \E c \in Cpus : dpc[c].at = "set2"
  BY <1>1 DEF PulseComing
<1>3. ASSUME NEW v \in Vectors, IsrStore(v)
      PROVE  isr'[0] = "stored"
  <2>1. v = 0
    BY <1>1, <1>3, VectorAssumption DEF IsrStore
  <2> QED
    BY <1>1, <1>3, <2>1 DEF IsrStore, TypeOKInterrupts
<1>4. ASSUME NEW v \in Vectors, IsrRequestDpc(v)
      PROVE  dpcQueued'
  BY <1>4 DEF IsrRequestDpc
<1>5. ASSUME NEW c \in setup.cpus, DpcStep(c)
      PROVE  (\/ waiter.at = "handle"
              \/ 0 \in msi \/ isr[0] = "stored" \/ dpcQueued
              \/ \E d \in Cpus : dpc[d].at \in {"set1", "clear1", "stall"}
              \/ waiter.at = "blocked" /\ \E d \in Cpus : dpc[d].at = "set2")'
  <2>1. /\ c \in Cpus
        /\ dpc \in [Cpus -> [at : Stages, latched : BOOLEAN, msg : Vectors]]
    BY <1>1 DEF TypeOKInterrupts
  <2>2. /\ \A d \in Cpus : d # c => dpc'[d] = dpc[d]
        /\ UNCHANGED <<msi, isr>>
    BY <1>5, <2>1 DEF DpcStep, DpcStart, DpcLatch, DpcSet, DpcClear, DpcStallEnds
  <2>3. CASE DpcStart(c)
    BY <2>1, <2>3 DEF DpcStart, After, At, Stages, Sets, Clears
  <2>4. CASE DpcLatch(c)
    <3>1. \A d \in Cpus : dpc'[d].at = dpc[d].at
      BY <2>1, <2>4 DEF DpcLatch
    <3> QED
      BY <1>2, <2>4, <3>1 DEF DpcLatch
  <2>5. CASE DpcSet(c)
    <3>1. /\ dpc[c].at = "set1" => dpc'[c].at = "clear1"
          /\ dpc[c].at \in {"set1", "set2"}
      BY <2>1, <2>5 DEF DpcSet, After, At, Stages, Sets, Clears
    <3>2. waiter.at = "blocked" => waiter'.at = "handle"
      BY <2>5 DEF DpcSet
    <3>3. waiter.at # "blocked" => waiter' = waiter
      BY <2>5 DEF DpcSet
    <3> QED
      BY <1>2, <2>1, <2>2, <2>5, <3>1, <3>2, <3>3 DEF DpcSet
  <2>6. CASE DpcClear(c)
    <3>1. /\ dpc[c].at = "clear1" => dpc'[c].at = "stall"
          /\ dpc[c].at \in {"clear1", "clear2"}
      BY <2>1, <2>6 DEF DpcClear, After, At, Stages, Sets, Clears
    <3> QED
      BY <1>2, <2>1, <2>2, <2>6, <3>1 DEF DpcClear
  <2>7. CASE DpcStallEnds(c)
    <3>1. dpc[c].at = "stall" /\ dpc'[c].at = "set2" /\ UNCHANGED waiter
      BY <2>1, <2>7 DEF DpcStallEnds, After, At, Stages, Sets, Clears
    <3>2. waiter.at = "blocked"
      BY <2>1, <3>1 DEF Kernel
    <3> QED
      BY <2>1, <3>1, <3>2
  <2> QED
    BY <1>5, <2>3, <2>4, <2>5, <2>6, <2>7 DEF DpcStep
<1> QED
  BY <1>3, <1>4, <1>5 DEF Kernel, KernelStep

LEMMA PulseKept ==
  ASSUME PathInv, PulseComing, [Next]_vars
  PROVE  PulseComing'
<1>1. Typed /\ OneCommand
  BY DEF PathInv
<1>2. CASE UNCHANGED vars
  BY <1>2 DEF vars, intVars, pathVars, ringVars, PulseComing
<1>3. ASSUME Client \/ \E op \in AllOps, B \in SUBSET Buffers : Prepare(op, B), UNCHANGED late
      PROVE  PulseComing'
  <2>1. ioq' \in {"none", "cq"} => ioq \in {"none", "cq"}
    BY <1>1, <1>3 DEF Client, RingDoorbell, Wake, Finish, Prepare, OneCommand, Callable
  <2>2. UNCHANGED <<intVars, cqHead, cqTail>>
    BY <1>3 DEF Client, RingDoorbell, Wake, Finish, Prepare, ringVars
  <2> QED
    BY <1>3, <2>1, <2>2 DEF PulseComing, intVars
<1>4. ASSUME NEW q \in Queues, Fetch(q), UNCHANGED late PROVE PulseComing'
  BY <1>4 DEF Fetch, intVars, PulseComing
<1>5. ASSUME NEW q \in Queues, NEW c \in busy[q], Execute(q, c), UNCHANGED late
      PROVE  PulseComing'
  <2>1. CASE q = "admin"
    BY <1>5, <2>1 DEF Execute, VectorOf, PulseComing
  <2>2. CASE q # "admin"
    <3>1. cqTail'["admin"] = cqTail["admin"]
      BY <1>1, <1>5, <2>2, TypedParts, ExecuteEffect DEF Queues
    <3>2. UNCHANGED <<isr, waiter, kernelVars, ioq, cqHead>> /\ msi \subseteq msi'
      BY <1>5 DEF Execute
    <3> QED
      BY <1>5, <3>1, <3>2 DEF PulseComing, kernelVars
  <2> QED
    BY <2>1, <2>2
<1>6. ASSUME IsrThread, UNCHANGED late PROVE PulseComing'
  <2>1. CASE Consume
    BY <2>1 DEF Consume, intVars, PulseComing
  <2>2. CASE SignalCommand
    BY <1>6, <2>2 DEF SignalCommand, intVars, ringVars, PulseComing
  <2>3. CASE LeaveLoop
    <3>1. ioq \in {"none", "cq"} => cqHead["admin"] = cqTail["admin"]
      BY <2>3, PhaseTest DEF LeaveLoop, PathInv, IoVectorSilent, QueueOfVector, Queues
    <3> QED
      BY <2>3, <3>1 DEF LeaveLoop, pathVars, ringVars, PulseComing
  <2>4. CASE WaitForEvents /\ UNCHANGED pathVars
    <3>1. waiter.at = "call" /\ UNCHANGED <<msi, isr, dpcQueued, dpc, cqHead, cqTail, ioq>>
      BY <2>4 DEF WaitForEvents, pathVars, ringVars
    <3> QED
      BY <1>6, <3>1 DEF PulseComing
  <2> QED
    BY <1>6, <2>1, <2>2, <2>3, <2>4 DEF IsrThread
<1> QED
  BY <1>1, <1>2, <1>3, <1>4, <1>5, <1>6, NextParts, PulseKeptByKernel DEF Controller

LEMMA WaitInvariant == Spec => []WaitInv
<1>1. Init => WaitInv
  BY DEF Init, InitInterrupts, At, WaitInv, RungUnlessUnserved, BlockedFindsNone,
         DpcOnMachine, PulseComing
<1>2. PathInv /\ WaitInv /\ [Next]_vars => WaitInv'
  BY RungKept, BlockedKept, PulseKept DEF WaitInv, PathInv
<1> QED
  BY <1>1, <1>2, PathInvariant, PTL DEF Spec

\* A call that waits while nobody can move for it has been overlooked, its
\* entry posted and its pulse missed, or was read on a submission queue that
\* does not exist: the system has no other way to come to rest under a call.
\* This is what HangsOnlyByMissedPulse says of the states in which it stops.
WaitIsExplained == app.at = "wait" /\ ~CanMove => Unserved \/ \E q \in Queues : Overlooked(q)

LEMMA RestIsQuiet ==
  ASSUME Typed, WaitInv, ~CanMove
  PROVE  Quiet /\ msi = {} /\ waiter.at = "blocked" /\ ~sync /\ ~signalling
<1>1. setup.cpus \in SUBSET Cpus /\ setup.cpus # {}
  BY TypedParts, SetupsAssumption DEF ClientTyped
<1>2. ~dpcQueued /\ \A c \in Cpus : dpc[c].at = "idle"
  BY <1>1 DEF CanMove, KernelCanMove, WaitInv, DpcOnMachine
<1>3. \A v \in Vectors : isr[v] = "idle" /\ v \notin msi
  BY TypedParts DEF CanMove, KernelCanMove, TypeOKInterrupts
<1> QED
  BY <1>2, <1>3, TypedParts DEF CanMove, IsrThreadCanMove, Quiet, TypeOKInterrupts

LEMMA WaitExplained == PathInv /\ WaitInv => WaitIsExplained
<1> SUFFICES ASSUME PathInv, WaitInv, app.at = "wait", ~CanMove, ~Unserved
             PROVE  \E q \in Queues : Overlooked(q)
  BY DEF WaitIsExplained
<1> DEFINE own == QueueOf(app.op)
<1>1. /\ Quiet /\ msi = {} /\ waiter.at = "blocked" /\ ~sync /\ ~signalling
      /\ \A v \in Vectors : ~event[v]
  BY RestIsQuiet DEF PathInv, WaitInv, BlockedFindsNone
<1>2. PICK p \in Places \ {"nowhere"} : CommandAt(p)
  BY DEF PathInv, OneCommand, PlacesAt
<1>3. p \in {"queued", "executing", "posted"} /\ own \in Queues /\ QueueAt(own, p)
  BY <1>1, <1>2, OwnQueue DEF CommandAt, Places
<1>4. p # "queued"
  <2>1. sqTail[own] = sqDoorbell[own] /\ (own = "io" => "sq" \in ctrlQ)
    BY <1>3, OwnQueue DEF WaitInv, RungUnlessUnserved, Unserved
  <2>2. Next1(own, sqHead[own]) # sqHead[own]
    BY <1>3, TypedParts, Next1Type DEF PathInv, RingTyped
  <2> QED
    BY <1>3, <2>1, <2>2 DEF QueueAt, CanMove, ControllerCanMove
<1>5. p # "executing"
  <2>1. Next1(own, cqTail[own]) # cqTail[own]
    BY <1>3, TypedParts, Next1Type DEF PathInv, RingTyped
  <2>2. cqDoorbell[own] = cqHead[own]
    BY <1>3 DEF PathInv, RingTagged
  <2> QED
    BY <1>3, <2>1, <2>2 DEF QueueAt, CanMove, ControllerCanMove
<1>6. Posted(own)
  <2>1. Next1(own, cqHead[own]) # cqHead[own]
    BY <1>3, TypedParts, Next1Type DEF PathInv, RingTyped
  <2> QED
    BY <1>3, <1>4, <1>5, <2>1, PhaseTest DEF QueueAt, PathInv
<1> QED
  BY <1>1, <1>3, <1>6, VectorType DEF Overlooked

\* Every rest of the system under a call is one WaitIsExplained explains.
THEOREM WaitsAreExplained == Spec => []WaitIsExplained
  BY PathInvariant, WaitInvariant, WaitExplained, PTL

\* As long as isr_thread has been back in its wait before every second pulse,
\* no entry of the admin ring is overlooked before the I/O queues are in use.
PunctualSeesAdmin == ~late /\ ioq \in {"none", "cq"} => ~Overlooked("admin")

LEMMA PunctualSees == PathInv /\ WaitInv => PunctualSeesAdmin
<1> SUFFICES ASSUME PathInv, WaitInv, ~late, ioq \in {"none", "cq"}, Overlooked("admin")
             PROVE  FALSE
  BY DEF PunctualSeesAdmin
<1>1. cqHead["admin"] # cqTail["admin"] /\ waiter.vec = 0 /\ Quiet /\ msi = {}
  BY PhaseTest DEF PathInv, Overlooked, IoVectorSilent, Queues
<1>2. waiter.at # "handle"
  BY <1>1 DEF Overlooked, VectorOf
<1> QED
  BY <1>1, <1>2, VectorsAssumption DEF WaitInv, PulseComing, Quiet

\* A punctual isr_thread sees every admin completion before initIoQ is done.
THEOREM PunctualThreadSeesAdmin == Spec => []PunctualSeesAdmin
  BY PathInvariant, WaitInvariant, PunctualSees, PTL

\* Under the same condition the system never comes to rest under a call: this
\* is what CallsReturn says of the states in which it stops.
PunctualNeverRests == app.at = "wait" /\ ~late /\ ioq \in {"none", "cq"} => CanMove

\* No call made before initIoQ is done hangs if isr_thread is punctual.
THEOREM PunctualCallsDoNotHang == Spec => []PunctualNeverRests
<1>1. PathInv /\ WaitIsExplained /\ PunctualSeesAdmin => PunctualNeverRests
  <2> SUFFICES ASSUME PathInv, WaitIsExplained, PunctualSeesAdmin,
                      app.at = "wait", ioq \in {"none", "cq"}, ~late, ~CanMove
               PROVE  FALSE
    BY DEF PunctualNeverRests
  <2>1. app.op # "read"
    BY DEF PathInv, OneCommand, Callable
  <2>2. Overlooked("io")
    BY <2>1 DEF WaitIsExplained, PunctualSeesAdmin, Unserved, Queues
  <2>3. cqHead["io"] = cqTail["io"]
    BY <2>1 DEF PathInv, OneCommand, CommandAt, QueueAt, QueueOf, Queues
  <2> QED
    BY <2>2, <2>3, PhaseTest DEF Overlooked, PathInv, Queues
<1> QED
  BY <1>1, PathInvariant, WaitsAreExplained, PunctualThreadSeesAdmin, PTL
=============================================================================
