---------------------------- MODULE PulseHistory ----------------------------
(***************************************************************************)
(* Interrupts with a history variable: which vectors interrupted and have  *)
(* not been pulsed since.  It states what the driver's interrupt path      *)
(* promises although one MessageId and one DPC serve every vector.         *)
(***************************************************************************)
EXTENDS Interrupts

VARIABLE owed   \* vectors interrupted since their last KeSetEvent

histVars == <<intVars, owed>>

InitHistory == InitInterrupts /\ owed = {}

\* The service routine of v owes v a pulse.
StoreOwes(v) == IsrStore(v) /\ owed' = owed \cup {v}

\* KeSetEvent pays it to the vector the DPC looked up.
SetPays(c) == DpcSet(c) /\ owed' = owed \ {dpc[c].msg}

OtherStep ==
  /\ \/ \E v \in Vectors : IsrRequestDpc(v) \/ RaiseMsi(v)
     \/ \E c \in Cpus : DpcStart(c) \/ DpcLatch(c) \/ DpcClear(c) \/ DpcStallEnds(c)
     \/ WaitForEvents
     \/ HandlerReturns
  /\ UNCHANGED owed

NextHistory ==
  \/ \E v \in Vectors : StoreOwes(v)
  \/ \E c \in Cpus : SetPays(c)
  \/ OtherStep

SpecHistory == InitHistory /\ [][NextHistory]_histVars

\* The processors run pending interrupts and DPCs before any thread.
FairSpecHistory ==
  /\ SpecHistory
  /\ \A v \in Vectors : /\ WF_histVars(StoreOwes(v))
                        /\ WF_histVars(IsrRequestDpc(v) /\ UNCHANGED owed)
  /\ \A c \in Cpus :
       WF_histVars(\/ SetPays(c)
                   \/ /\ DpcStart(c) \/ DpcLatch(c) \/ DpcClear(c) \/ DpcStallEnds(c)
                      /\ UNCHANGED owed)

TypeOKHistory == TypeOKInterrupts /\ owed \subseteq Vectors

-----------------------------------------------------------------------------
\* Whatever the ISRs and DPC runs did to each other, once the kernel is idle
\* the vector that interrupted last has been pulsed after its interrupt and
\* its event is not left signalled.  Nothing of the kind holds of the other
\* vectors: their pulse may be lost or their event left signalled.
LastInterruptServed == Quiet => messageId \notin owed /\ ~event[messageId]

\* The kernel keeps running the DPC until an interrupt is pulsed, unless
\* another vector overwrites MessageId first.
InterruptPulsed ==
  \A v \in Vectors : v \in owed ~> v \notin owed \/ messageId # v

\* A run of the DPC that will still signal the event of messageId.
WillSet(c) ==
  \/ dpc[c].at \in {"set1", "clear1", "stall"}
  \/ dpc[c].at = "set2" /\ (dpc[c].latched => dpc[c].msg = messageId)

\* A run of the DPC that will still clear the event of messageId.
WillClear(c) ==
  /\ dpc[c].at # "idle"
  /\ dpc[c].at = "clear2" /\ dpc[c].latched => dpc[c].msg = messageId

DpcComing == dpcQueued \/ \E v \in Vectors : isr[v] = "stored"

\* The inductive strengthening of LastInterruptServed.
LastInterruptInv ==
  /\ messageId \in owed => DpcComing \/ \E c \in Cpus : WillSet(c)
  /\ event[messageId] => DpcComing \/ \E c \in Cpus : WillClear(c)
=============================================================================
