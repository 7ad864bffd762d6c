--------------------------- MODULE ControllerInit ---------------------------
(***************************************************************************)
(* CNVMe::initCtrl, the handshake that takes over the NVMe controller:     *)
(* clear CC.EN, poll CSTS.RDY until it is 0, write the admin queue         *)
(* registers, set CC.EN, poll CSTS.RDY until it is 1.  Each poll gives up  *)
(* after CAP.TO half-seconds.  Client programs come one after the other    *)
(* and leave the controller as it is when they end.                        *)
(*                                                                         *)
(* The controller is external.  NVMe leaves open what happens when CC.EN   *)
(* is changed before CSTS.RDY has followed it: here the start under way    *)
(* may be given up or may be carried through all the same.                 *)
(***************************************************************************)
EXTENDS Naturals

CONSTANTS
  Memory,     \* admin queue memory: each initAdminQ allocates another
  CapTo       \* CAP.TO, in units of 500 ms

None == "none"
ASSUME MemoryNames == None \notin Memory
ASSUME CapToAssumption == CapTo \in 0 .. 255

VARIABLES
  env,        \* "orderly": the controller answers within CAP.TO of a change of
              \* CC.EN, and no client is ended in the middle of initCtrl;
              \* "any": nothing of the kind
  at,         \* where the client's initCtrl stands
  mine,       \* the queue memory of the client in initCtrl, or of the last one
  cnt,        \* its count of polls
  en, rdy,    \* CC.EN and CSTS.RDY
  regs,       \* the memory AQA, ASQ and ACQ describe
  starting,   \* the memory of a start the controller is carrying out
  inUse,      \* the memory a ready controller uses
  since       \* half-seconds since CC.EN changed, counted to CapTo + 1

initVars == <<env, at, mine, cnt, en, rdy, regs, starting, inUse, since>>

Bit == {0, 1}
MaybeMemory == Memory \cup {None}

Orderly == env = "orderly"

TypeOKInit ==
  /\ env \in {"orderly", "any"}
  /\ at \in {"out", "disable", "setup", "enable", "ready", "failed"}
  /\ mine \in Memory /\ regs \in Memory
  /\ starting \in MaybeMemory /\ inUse \in MaybeMemory
  /\ cnt \in 0 .. CapTo + 1 /\ since \in 0 .. CapTo + 1
  /\ en \in Bit /\ rdy \in Bit

\* The registers hold some address or other.  The firmware may have left the
\* controller enabled, and in the middle of a change if nothing is promised.
InitHandshake ==
  /\ env \in {"orderly", "any"}
  /\ at = "out" /\ cnt = 0 /\ since = 0
  /\ en \in Bit /\ rdy \in Bit
  /\ Orderly => rdy = en
  /\ regs \in Memory /\ mine = regs /\ starting = None
  /\ inUse = IF rdy = 1 THEN regs ELSE None

-----------------------------------------------------------------------------
(* The client.                                                             *)

\* initAdminQ's memory, then ctrl_reg->cc.en = 0 and int cnt = 0.
BeginDisable(m) ==
  /\ at = "out"
  /\ m \notin {regs, starting, inUse}
  /\ at' = "disable" /\ mine' = m /\ cnt' = 0
  /\ en' = 0
  /\ since' = IF en = 1 THEN 0 ELSE since
  /\ starting' \in {starting, None}
  /\ UNCHANGED <<env, rdy, regs, inUse>>

\* Fault: cnt++ >= cap.to.
LimitReachedEarly == cnt >= CapTo

\* Fault: one poll too many.
LimitReachedLate == cnt > CapTo + 1

\* cnt++ > cap.to.
LimitReached == cnt > CapTo

\* Fault: the count starts again with every poll.
CountPollResetting ==
  /\ ~LimitReached
  /\ cnt' = 0
  /\ since' = IF since <= CapTo THEN since + 1 ELSE since
  /\ UNCHANGED at

\* The increment and Sleep(500).
CountPoll ==
  /\ ~LimitReached
  /\ cnt' = cnt + 1
  /\ since' = IF since <= CapTo THEN since + 1 ELSE since
  /\ UNCHANGED at

GiveUp == LimitReached /\ at' = "failed" /\ UNCHANGED <<cnt, since>>

\* One turn of while (ctrl_reg->csts.rdy != want).
Poll(place, want, next) ==
  /\ at = place
  /\ \/ rdy = want /\ at' = next /\ UNCHANGED <<cnt, since>>
     \/ rdy # want /\ (Orderly => since < CapTo) /\ CountPoll
     \/ rdy # want /\ GiveUp
  /\ UNCHANGED <<env, mine, en, rdy, regs, starting, inUse>>

\* Fault: the first loop is left out.
PollDisabledSkipped ==
  /\ at = "disable" /\ at' = "setup"
  /\ UNCHANGED <<env, mine, cnt, en, rdy, regs, starting, inUse, since>>

PollDisabled == Poll("disable", 0, "setup")
PollEnabled == Poll("enable", 1, "ready")

\* Fault: CC.EN is set before the queue registers are written.
EnableFirst ==
  /\ at = "setup"
  /\ at' = "enable" /\ cnt' = 0 /\ since' = 0
  /\ regs' = mine
  /\ en' = 1 /\ starting' = regs
  /\ UNCHANGED <<env, mine, rdy, inUse>>

\* AQA, ACQ and ASQ, then CC with EN set.
Enable ==
  /\ at = "setup"
  /\ at' = "enable" /\ cnt' = 0 /\ since' = 0
  /\ regs' = mine
  /\ en' = 1
  /\ starting' \in IF starting = None THEN {mine} ELSE {mine, starting}
  /\ UNCHANGED <<env, mine, rdy, inUse>>

\* initCtrl has returned and the client ends in its own time, or it is ended
\* in the middle.  Nothing touches the controller any more.
Leave ==
  /\ \/ at \in {"ready", "failed"}
     \/ ~Orderly /\ at \in {"disable", "setup", "enable"}
  /\ at' = "out"
  /\ UNCHANGED <<env, mine, cnt, en, rdy, regs, starting, inUse, since>>

-----------------------------------------------------------------------------
(* The controller.                                                         *)

BecomeReady ==
  /\ starting # None /\ rdy = 0
  /\ rdy' = 1 /\ inUse' = starting /\ starting' = None
  /\ UNCHANGED <<env, at, mine, cnt, en, regs, since>>

BecomeDisabled ==
  /\ en = 0 /\ rdy = 1
  /\ rdy' = 0 /\ inUse' = None
  /\ UNCHANGED <<env, at, mine, cnt, en, regs, starting, since>>

ControllerStep == BecomeReady \/ BecomeDisabled

ClientStep == PollDisabled \/ Enable \/ PollEnabled

NextHandshake ==
  \/ \E m \in Memory : BeginDisable(m)
  \/ ClientStep
  \/ Leave
  \/ ControllerStep

\* The client polls on; an orderly controller also gets its turn.
SpecHandshake ==
  /\ InitHandshake /\ [][NextHandshake]_initVars
  /\ WF_initVars(ClientStep)
  /\ WF_initVars(Orderly /\ ControllerStep)

-----------------------------------------------------------------------------
\* When initCtrl returns TRUE (line 489) the controller is ready and uses the
\* queue memory this client has allocated, whatever a client before it left,
\* if controller and clients are orderly.
ReadyMeansOurs == Orderly /\ at = "ready" => rdy = 1 /\ inUse = mine

\* initCtrl gives up only on a controller that has had more than CAP.TO half
\* seconds since CC.EN changed: the loops do not end a turn early.
TimeoutIsJustified == at = "failed" => since > CapTo

\* The queue registers are written, and CC.EN is changed, only while RDY has
\* followed EN: an orderly client does not disturb a controller on its way.
TouchedWhenSettled ==
  [][Orderly /\ (regs' # regs \/ en' # en) => rdy = en /\ starting = None]_initVars

\* A controller that answers within CAP.TO is taken over: initCtrl returns TRUE.
PunctualIsTakenOver == Orderly /\ at = "disable" ~> at = "ready"

\* initCtrl always comes to an end, whatever the controller does.
InitCtrlEnds == at = "disable" ~> at \in {"ready", "failed", "out"}
=============================================================================
