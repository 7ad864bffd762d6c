------------------------- MODULE PulseHistoryProofs -------------------------
(***************************************************************************)
(* Proofs about PulseHistory, for any set of vectors and of processors.    *)
(***************************************************************************)
EXTENDS PulseHistory, TLAPS

\* The order of the DPC's event calls stays among its stages.
LEMMA AfterType == After \in [Stages -> Stages]
  BY DEF After, Stages, Sets, Clears

\* A run that has not looked its event up is a well-formed record.
LEMMA AtType ==
  \A s \in Stages : At(s) \in [at : Stages, latched : BOOLEAN, msg : Vectors]
  BY VectorsAssumption DEF At

\* Each variable keeps its type, whatever the interleaving of service
\* routines, DPC runs and the waiting thread.
THEOREM TypeCorrect == SpecHistory => []TypeOKHistory
<1> USE VectorsAssumption, AfterType DEF TypeOKHistory, TypeOKInterrupts
<1>1. InitHistory => TypeOKHistory
  <2>1. [c \in Cpus |-> At("idle")]
          \in [Cpus -> [at : Stages, latched : BOOLEAN, msg : Vectors]]
    BY AtType DEF Stages
  <2>2. [at |-> "call", vec |-> 0]
          \in [at : {"call", "blocked", "handle"}, vec : Vectors]
    OBVIOUS
  <2> SUFFICES ASSUME InitHistory PROVE TypeOKHistory
    OBVIOUS
  <2> USE DEF InitHistory, InitInterrupts
  <2>3. dpc \in [Cpus -> [at : Stages, latched : BOOLEAN, msg : Vectors]]
    BY <2>1
  <2>4. isr \in [Vectors -> {"idle", "stored"}] /\ event \in [Vectors -> BOOLEAN]
    OBVIOUS
  <2>5. msi \subseteq Vectors /\ messageId \in Vectors /\ dpcQueued \in BOOLEAN
        /\ owed \subseteq Vectors
    OBVIOUS
  <2> QED
    BY <2>2, <2>3, <2>4, <2>5
<1>2. TypeOKHistory /\ [NextHistory]_histVars => TypeOKHistory'
  <2> SUFFICES ASSUME TypeOKHistory, [NextHistory]_histVars
               PROVE  TypeOKHistory'
    OBVIOUS
  <2>1. ASSUME NEW v \in Vectors, StoreOwes(v) PROVE TypeOKHistory'
    BY <2>1 DEF StoreOwes, IsrStore
  <2>2. ASSUME NEW v \in Vectors, IsrRequestDpc(v) \/ RaiseMsi(v), UNCHANGED owed
        PROVE  TypeOKHistory'
    BY <2>2 DEF IsrRequestDpc, RaiseMsi
  <2>3. ASSUME NEW c \in Cpus, DpcStart(c) \/ DpcStallEnds(c), UNCHANGED owed
        PROVE  TypeOKHistory'
    <3>1. dpc' = [dpc EXCEPT ![c] = At(After["idle"])]
          \/ dpc' = [dpc EXCEPT ![c] = At(After["stall"])]
      BY <2>3 DEF DpcStart, DpcStallEnds
    <3>2. After["idle"] \in Stages /\ After["stall"] \in Stages
      BY DEF Stages
    <3> QED
      BY <2>3, <3>1, <3>2, AtType DEF DpcStart, DpcStallEnds
  <2>4. ASSUME NEW c \in Cpus, DpcLatch(c), UNCHANGED owed
        PROVE  TypeOKHistory'
    BY <2>4 DEF DpcLatch
  <2>5. ASSUME NEW c \in Cpus, DpcClear(c), UNCHANGED owed
        PROVE  TypeOKHistory'
    BY <2>5 DEF DpcClear, At, Stages, Clears
  <2>6. ASSUME NEW c \in Cpus, SetPays(c) PROVE TypeOKHistory'
    BY <2>6 DEF SetPays, DpcSet, At, Stages, Sets
  <2>7. ASSUME WaitForEvents \/ HandlerReturns, UNCHANGED owed
        PROVE  TypeOKHistory'
    BY <2>7 DEF WaitForEvents, HandlerReturns
  <2>8. ASSUME UNCHANGED histVars PROVE TypeOKHistory'
    BY <2>8 DEF histVars, intVars
  <2> QED
    BY <2>1, <2>2, <2>3, <2>4, <2>5, <2>6, <2>7, <2>8 DEF NextHistory, OtherStep
<1> QED
  BY <1>1, <1>2, PTL DEF SpecHistory

\* The strengthening holds: as long as messageId is owed a pulse or its event
\* is signalled, some run of the DPC is still to come that sees to it.
THEOREM LastInterruptInvariant == SpecHistory => []LastInterruptInv
<1> USE VectorsAssumption DEF TypeOKHistory, TypeOKInterrupts
<1>1. InitHistory => LastInterruptInv
  BY DEF InitHistory, InitInterrupts, LastInterruptInv
<1>2. TypeOKHistory /\ LastInterruptInv /\ [NextHistory]_histVars => LastInterruptInv'
  <2> SUFFICES ASSUME TypeOKHistory, LastInterruptInv, [NextHistory]_histVars
               PROVE  LastInterruptInv'
    OBVIOUS
  <2> USE DEF LastInterruptInv
  <2>1. ASSUME NEW v \in Vectors, StoreOwes(v) PROVE LastInterruptInv'
    BY <2>1 DEF StoreOwes, IsrStore, DpcComing
  <2>2. ASSUME NEW v \in Vectors, IsrRequestDpc(v) PROVE LastInterruptInv'
    BY <2>2 DEF IsrRequestDpc, DpcComing
  <2>3. ASSUME NEW v \in Vectors, RaiseMsi(v), UNCHANGED owed
        PROVE  LastInterruptInv'
    BY <2>3 DEF RaiseMsi, DpcComing, WillSet, WillClear
  <2>4. ASSUME NEW c \in Cpus, DpcStart(c) PROVE LastInterruptInv'
    <3>1. dpc'[c] = At("set1")
      BY <2>4 DEF DpcStart, After, Stages, Sets, Clears
    <3> QED
      BY <3>1 DEF WillSet, WillClear, At
  <2>5. ASSUME NEW c \in Cpus, DpcLatch(c), UNCHANGED owed
        PROVE  LastInterruptInv'
    BY <2>5 DEF DpcLatch, DpcComing, WillSet, WillClear
  <2>6. ASSUME NEW c \in Cpus, SetPays(c) PROVE LastInterruptInv'
    <3>1. \/ dpc[c].at = "set1" /\ dpc'[c] = At("clear1")
          \/ dpc[c].at = "set2" /\ dpc'[c] = At("clear2")
      BY <2>6 DEF SetPays, DpcSet, After, Stages, Sets, Clears
    <3>2. \A d \in Cpus \ {c} : dpc'[d] = dpc[d]
      BY <2>6 DEF SetPays, DpcSet
    <3>3. WillClear(c)'
      BY <3>1 DEF WillClear, At
    <3>4. ASSUME messageId' \in owed' PROVE DpcComing' \/ \E d \in Cpus : WillSet(d)'
      <4>1. messageId # dpc[c].msg /\ dpc[c].latched /\ messageId \in owed
        BY <2>6, <3>4 DEF SetPays, DpcSet
      <4>2. CASE DpcComing
        BY <2>6, <4>2 DEF SetPays, DpcSet, DpcComing
      <4>3. ASSUME NEW d \in Cpus, WillSet(d) PROVE WillSet(d)' \/ WillSet(c)'
        BY <2>6, <3>1, <3>2, <4>1, <4>3 DEF SetPays, DpcSet, WillSet, At
      <4> QED
        BY <4>1, <4>2, <4>3
    <3> QED
      BY <3>3, <3>4
  <2>7. ASSUME NEW c \in Cpus, DpcClear(c), UNCHANGED owed
        PROVE  LastInterruptInv'
    <3>1. \/ dpc[c].at = "clear1" /\ dpc'[c] = At("stall")
          \/ dpc[c].at = "clear2" /\ dpc'[c] = At("idle")
      BY <2>7 DEF DpcClear, After, Stages, Sets, Clears
    <3>2. \A d \in Cpus \ {c} : dpc'[d] = dpc[d]
      BY <2>7 DEF DpcClear
    <3>3. DpcComing' = DpcComing /\ messageId' = messageId
      BY <2>7 DEF DpcClear, DpcComing
    <3>4. ASSUME NEW d \in Cpus, WillSet(d) PROVE WillSet(d)'
      BY <3>1, <3>2, <3>3, <3>4 DEF WillSet, At
    <3>5. ASSUME event'[messageId], NEW d \in Cpus, WillClear(d)
          PROVE  WillClear(d)'
      BY <2>7, <3>1, <3>2, <3>3, <3>5 DEF DpcClear, WillClear, At
    <3>6. event'[messageId] => event[messageId]
      BY <2>7 DEF DpcClear
    <3> QED
      BY <2>7, <3>3, <3>4, <3>5, <3>6
  <2>8. ASSUME NEW c \in Cpus, DpcStallEnds(c), UNCHANGED owed
        PROVE  LastInterruptInv'
    <3>1. dpc'[c] = At("set2")
      BY <2>8 DEF DpcStallEnds, After, Stages, Sets, Clears
    <3> QED
      BY <3>1 DEF WillSet, WillClear, At
  <2>9. ASSUME WaitForEvents \/ HandlerReturns, UNCHANGED owed
        PROVE  LastInterruptInv'
    BY <2>9 DEF WaitForEvents, HandlerReturns, DpcComing, WillSet, WillClear
  <2>10. ASSUME UNCHANGED histVars PROVE LastInterruptInv'
    BY <2>10 DEF histVars, intVars, DpcComing, WillSet, WillClear
  <2> QED
    BY <2>1, <2>2, <2>3, <2>4, <2>5, <2>6, <2>7, <2>8, <2>9, <2>10
    DEF NextHistory, OtherStep
<1> QED
  BY <1>1, <1>2, TypeCorrect, PTL DEF SpecHistory

\* Once the kernel is idle, the vector that interrupted last has been pulsed
\* since and its event is not left signalled, however the ISRs of different
\* messages and the runs of the one DPC interleaved.
THEOREM LastInterruptIsServed == SpecHistory => []LastInterruptServed
<1>1. LastInterruptInv => LastInterruptServed
  BY DEF LastInterruptInv, LastInterruptServed, Quiet, DpcComing, WillSet, WillClear
<1> QED
  BY <1>1, LastInterruptInvariant, PTL
=============================================================================
