--------------------------- MODULE MCCommandPath ---------------------------
(* Instances of CommandPath for TLC.                                       *)
EXTENDS CommandPath, TLC

CONSTANTS c1, c2

\* The buffers are interchangeable in the safety run.
BufferSymmetry == Permutations(Buffers)

\* The whole life of an I/O queue.
QueueLife ==
  {[ops |-> {"create_cq", "create_sq", "read", "delete_sq", "delete_cq"}, cpus |-> {c1}]}

\* Reads, a command without a buffer, and identify_ctrl on two processors.
ReadsOrAdmin ==
  {[ops |-> {"create_cq", "create_sq", "read"}, cpus |-> {c1}],
   [ops |-> {"set_features"}, cpus |-> {c1}],
   [ops |-> {"identify"}, cpus |-> {c1, c2}]}
=============================================================================
