---------------------------- MODULE SyncCommand ----------------------------
(***************************************************************************)
(* What the synchronous calls of CNVMe promise their caller: a call lends  *)
(* its DMA buffers to the controller, and it returns, taking the buffers   *)
(* back, only after the controller has finished with the command.          *)
(***************************************************************************)
CONSTANT Buffers    \* the DMA buffers of the process

VARIABLES
  call,   \* "none", "issued" or "completed"
  held,   \* the buffers allocated for the call
  lent    \* the buffers the controller may access

syncVars == <<call, held, lent>>

TypeOKSync ==
  /\ call \in {"none", "issued", "completed"}
  /\ held \subseteq Buffers
  /\ lent \subseteq Buffers

InitSync == call = "none" /\ held = {} /\ lent = {}

Issue ==
  /\ call = "none"
  /\ call' = "issued"
  /\ held' \in SUBSET Buffers
  /\ lent' = held'

Complete ==
  /\ call = "issued"
  /\ call' = "completed"
  /\ lent' = {}
  /\ UNCHANGED held

Return ==
  /\ call = "completed"
  /\ call' = "none"
  /\ held' = {}
  /\ UNCHANGED lent

NextSync == Issue \/ Complete \/ Return

SpecSync == InitSync /\ [][NextSync]_syncVars

\* The controller never holds a buffer the call has given back.
LentIsHeld == lent \subseteq held
=============================================================================
