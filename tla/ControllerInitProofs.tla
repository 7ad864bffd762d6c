------------------------ MODULE ControllerInitProofs ------------------------
(***************************************************************************)
(* Proofs about ControllerInit, for every CAP.TO and any supply of queue   *)
(* memory: types, that the polls never give up early, and, for a           *)
(* controller that keeps CAP.TO and clients that are not ended half-way,   *)
(* that a client takes over a settled controller and ends with its own     *)
(* queues in use.                                                          *)
(***************************************************************************)
EXTENDS ControllerInit, TLAPS

LEMMA NoneIsNoMemory == \A m \in Memory : m # None
BY MemoryNames

\* The variables have their types: the counts stay within CAP.TO and one.
THEOREM HandshakeTypeCorrect == SpecHandshake => []TypeOKInit
<1>1. InitHandshake => TypeOKInit
  BY CapToAssumption DEF InitHandshake, TypeOKInit, MaybeMemory, Bit
<1>2. TypeOKInit /\ [NextHandshake]_initVars => TypeOKInit'
  <2> SUFFICES ASSUME TypeOKInit, [NextHandshake]_initVars PROVE TypeOKInit'
    OBVIOUS
  <2> USE CapToAssumption DEF TypeOKInit, MaybeMemory, Bit
  <2>1. ASSUME NEW m \in Memory, BeginDisable(m) PROVE TypeOKInit'
    BY <2>1 DEF BeginDisable
  <2>2. CASE PollDisabled
    BY <2>2 DEF PollDisabled, Poll, CountPoll, GiveUp, LimitReached
  <2>3. CASE Enable
    BY <2>3 DEF Enable
  <2>4. CASE PollEnabled
    BY <2>4 DEF PollEnabled, Poll, CountPoll, GiveUp, LimitReached
  <2>5. CASE Leave
    BY <2>5 DEF Leave
  <2>6. CASE BecomeReady
    BY <2>6 DEF BecomeReady
  <2>7. CASE BecomeDisabled
    BY <2>7 DEF BecomeDisabled
  <2>8. CASE UNCHANGED initVars
    BY <2>8 DEF initVars
  <2>9. QED
    BY <2>1, <2>2, <2>3, <2>4, <2>5, <2>6, <2>7, <2>8
       DEF NextHandshake, ClientStep, ControllerStep
<1>3. QED
  BY <1>1, <1>2, PTL DEF SpecHandshake

-----------------------------------------------------------------------------
\* A loop has not counted more polls than half-seconds have passed since
\* CC.EN changed.
CountIsTime ==
  /\ at \in {"disable", "enable"} => cnt <= since
  /\ TimeoutIsJustified

\* initCtrl never gives up before the controller has had CAP.TO half-seconds
\* and one: it follows from CountIsTime, which every step keeps.
THEOREM TimeoutsAreJustified == SpecHandshake => []TimeoutIsJustified
<1>1. InitHandshake => CountIsTime
  BY DEF InitHandshake, CountIsTime, TimeoutIsJustified
<1>2. TypeOKInit /\ CountIsTime /\ [NextHandshake]_initVars => CountIsTime'
  <2> SUFFICES ASSUME TypeOKInit, CountIsTime, [NextHandshake]_initVars
               PROVE  CountIsTime'
    OBVIOUS
  <2> USE CapToAssumption DEF TypeOKInit, CountIsTime, TimeoutIsJustified
  <2>1. ASSUME NEW m \in Memory, BeginDisable(m) PROVE CountIsTime'
    BY <2>1 DEF BeginDisable
  <2>2. CASE PollDisabled
    BY <2>2 DEF PollDisabled, Poll, CountPoll, GiveUp, LimitReached
  <2>3. CASE Enable
    BY <2>3 DEF Enable
  <2>4. CASE PollEnabled
    BY <2>4 DEF PollEnabled, Poll, CountPoll, GiveUp, LimitReached
  <2>5. CASE Leave
    BY <2>5 DEF Leave
  <2>6. CASE ControllerStep
    BY <2>6 DEF ControllerStep, BecomeReady, BecomeDisabled
  <2>7. CASE UNCHANGED initVars
    BY <2>7 DEF initVars
  <2>8. QED
    BY <2>1, <2>2, <2>3, <2>4, <2>5, <2>6, <2>7 DEF NextHandshake, ClientStep
<1>3. CountIsTime => TimeoutIsJustified
  BY DEF CountIsTime
<1>4. QED
  BY <1>1, <1>2, <1>3, HandshakeTypeCorrect, PTL DEF SpecHandshake

-----------------------------------------------------------------------------
\* What an orderly controller and client look like at each
\* stage of initCtrl.
SettledAt ==
  /\ since <= CapTo
  /\ at \in {"disable", "enable"} => cnt <= since
  /\ at # "failed"
  /\ at \in {"out", "ready"} => rdy = en /\ starting = None
  /\ at = "disable" => en = 0 /\ starting = None
  /\ at = "setup"   => en = 0 /\ rdy = 0 /\ starting = None
  /\ at = "enable"  => /\ en = 1
                       /\ \/ starting = mine /\ rdy = 0
                          \/ starting = None /\ rdy = 1 /\ inUse = mine
  /\ at = "ready"   => rdy = 1 /\ inUse = mine

Settled == Orderly => SettledAt

LEMMA SettledStep ==
  ASSUME TypeOKInit, Settled, [NextHandshake]_initVars
  PROVE  Settled'
<1> USE CapToAssumption, NoneIsNoMemory DEF TypeOKInit, MaybeMemory, Bit, Settled, SettledAt, Orderly
<1>1. ASSUME NEW m \in Memory, BeginDisable(m) PROVE Settled'
  BY <1>1 DEF BeginDisable
<1>2. CASE PollDisabled
  BY <1>2 DEF PollDisabled, Poll, CountPoll, GiveUp, LimitReached
<1>3. CASE Enable
  BY <1>3 DEF Enable
<1>4. CASE PollEnabled
  BY <1>4 DEF PollEnabled, Poll, CountPoll, GiveUp, LimitReached
<1>5. CASE Leave
  BY <1>5 DEF Leave
<1>6. CASE BecomeReady
  BY <1>6 DEF BecomeReady
<1>7. CASE BecomeDisabled
  BY <1>7 DEF BecomeDisabled
<1>8. CASE UNCHANGED initVars
  BY <1>8 DEF initVars
<1>9. QED
  BY <1>1, <1>2, <1>3, <1>4, <1>5, <1>6, <1>7, <1>8
     DEF NextHandshake, ClientStep, ControllerStep

\* The stages of Settled hold throughout, for an orderly controller and
\* orderly clients.
THEOREM SettledInvariant == SpecHandshake => []Settled
<1>1. InitHandshake => Settled
  BY CapToAssumption DEF InitHandshake, Settled, SettledAt, Orderly
<1>2. TypeOKInit /\ Settled /\ [NextHandshake]_initVars => Settled'
  BY SettledStep
<1>3. QED
  BY <1>1, <1>2, HandshakeTypeCorrect, PTL DEF SpecHandshake

\* initCtrl that returns TRUE leaves a ready controller with this client's
\* queue memory in use.
THEOREM ReadyControllerIsOurs == SpecHandshake => []ReadyMeansOurs
<1>1. Settled => ReadyMeansOurs
  BY DEF Settled, SettledAt, ReadyMeansOurs
<1>2. QED
  BY <1>1, SettledInvariant, PTL

\* CC.EN and the queue registers are only written to a settled controller.
THEOREM TouchesOnlySettled == SpecHandshake => TouchedWhenSettled
<1>1. TypeOKInit /\ Settled /\ [NextHandshake]_initVars
        => [Orderly /\ (regs' # regs \/ en' # en)
              => rdy = en /\ starting = None]_initVars
  <2> SUFFICES ASSUME TypeOKInit, Settled, NextHandshake, Orderly,
                      regs' # regs \/ en' # en
               PROVE  rdy = en /\ starting = None
    OBVIOUS
  <2>1. (\E m \in Memory : BeginDisable(m)) \/ Enable
    BY DEF NextHandshake, ClientStep, ControllerStep, Leave, Poll,
           PollDisabled, PollEnabled, BecomeReady, BecomeDisabled
  <2>2. QED
    BY <2>1 DEF BeginDisable, Enable, Settled, SettledAt, TypeOKInit
<1>2. QED
  BY <1>1, HandshakeTypeCorrect, SettledInvariant, PTL
     DEF SpecHandshake, TouchedWhenSettled

-----------------------------------------------------------------------------
(* That initCtrl ends.  ENABLED is out of the prover's reach, so the       *)
(* guards of the steps that fairness obliges are written out.              *)

InitCtrlPlaces == {"disable", "setup", "enable"}

\* The value of CSTS.RDY a loop waits for.
Want == IF at = "disable" THEN 0 ELSE 1

\* The client may make a turn: a loop may leave, give up or count another
\* half-second, unless an orderly controller owes its answer within this one.
ClientMayTurn ==
  at = "setup" \/ rdy = Want \/ LimitReached \/ ~Orderly \/ since < CapTo

\* An orderly controller has a change of CSTS.RDY to make.
ControllerMayTurn == (starting # None /\ rdy = 0) \/ (en = 0 /\ rdy = 1)

\* While initCtrl runs, the client has a turn to make or waits for a controller
\* that has one: this is what InitCtrlEnds and PunctualIsTakenOver say of the
\* states in which the handshake stops.
NeverWedged == at \in InitCtrlPlaces => ClientMayTurn \/ (Orderly /\ ControllerMayTurn)

\* A client in initCtrl never comes to a stand with a controller that waits for
\* the client, whatever state the firmware or an earlier client left behind.
THEOREM HandshakeIsNeverWedged == SpecHandshake => []NeverWedged
<1>1. TypeOKInit /\ Settled => NeverWedged
  BY CapToAssumption, NoneIsNoMemory
  DEF TypeOKInit, Bit, Settled, SettledAt, NeverWedged, InitCtrlPlaces, Want,
      ClientMayTurn, ControllerMayTurn
<1> QED
  BY <1>1, HandshakeTypeCorrect, SettledInvariant, PTL

\* How far initCtrl has come; it ends at 3.
Stage == CASE at = "disable" -> 0 [] at = "setup" -> 1 [] at = "enable" -> 2 [] OTHER -> 3

\* Every step between the beginning of initCtrl and its end is a turn of the
\* client, which goes on to a later stage or counts one more of the CAP.TO + 1
\* polls of its loop, or a step of the controller, which takes nothing back.
TurnsGoForward ==
  [][  \/ at \notin InitCtrlPlaces
       \/ Stage' > Stage
       \/ Stage' = Stage /\ cnt' = cnt + 1 /\ cnt' <= CapTo + 1
       \/ Stage' = Stage /\ cnt' = cnt /\ ControllerMayTurn]_initVars

\* So initCtrl makes at most 2 * (CAP.TO + 2) + 1 turns, whatever the controller
\* does in between.
THEOREM InitCtrlGoesForward == SpecHandshake => TurnsGoForward
<1> DEFINE Forward ==
       \/ Stage' > Stage
       \/ Stage' = Stage /\ cnt' = cnt + 1 /\ cnt' <= CapTo + 1
       \/ Stage' = Stage /\ cnt' = cnt /\ ControllerMayTurn
<1>1. TypeOKInit /\ [NextHandshake]_initVars => [at \notin InitCtrlPlaces \/ Forward]_initVars
  <2> SUFFICES ASSUME TypeOKInit, NextHandshake, at \in InitCtrlPlaces PROVE Forward
    OBVIOUS
  <2> USE CapToAssumption DEF TypeOKInit, InitCtrlPlaces, Stage
  <2>1. ASSUME NEW m \in Memory, BeginDisable(m) PROVE Forward
    BY <2>1 DEF BeginDisable
  <2>2. CASE PollDisabled
    BY <2>2 DEF PollDisabled, Poll, CountPoll, GiveUp, LimitReached
  <2>3. CASE Enable
    BY <2>3 DEF Enable
  <2>4. CASE PollEnabled
    BY <2>4 DEF PollEnabled, Poll, CountPoll, GiveUp, LimitReached
  <2>5. CASE Leave
    BY <2>5 DEF Leave
  <2>6. CASE ControllerStep
    BY <2>6 DEF ControllerStep, BecomeReady, BecomeDisabled, ControllerMayTurn
  <2> QED
    BY <2>1, <2>2, <2>3, <2>4, <2>5, <2>6 DEF NextHandshake, ClientStep
<1> QED
  BY <1>1, HandshakeTypeCorrect, PTL DEF SpecHandshake, TurnsGoForward
=============================================================================
