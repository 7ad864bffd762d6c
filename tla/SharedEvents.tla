---------------------------- MODULE SharedEvents ----------------------------
(***************************************************************************)
(* The two events by which isr_thread wakes its client: "thread start" and *)
(* "sync command".  The names are fixed (ctrl.h), so the clients of one    *)
(* session use the same two auto-reset events whatever their devices are,  *)
(* and each is created by whichever client comes first.                    *)
(*                                                                         *)
(* The way from a command to the step of isr_thread that signals is left   *)
(* to Interrupts and CommandPath, and an isr_thread that finds an event of *)
(* the driver missing to ClientLife: here a command signals once.          *)
(***************************************************************************)
EXTENDS Naturals

CONSTANTS
  Clients,         \* objects of class CNVMe, each in a process of its own
  MaxOutstanding,  \* bound: commands a client has under way
  Creation         \* who signals an event that CreateEvent makes

ASSUME CreationAssumption == Creation \notin Clients
ASSUME OutstandingAssumption == MaxOutstanding \in Nat \ {0}

VARIABLES
  place,   \* place[c]: where client c stands
  thread,  \* thread[c]: its isr_thread
  under,   \* under[c]: its commands that have not signalled
  signal,  \* signal[e]: whose signals event e stores; it is set unless none
  met,     \* history: the clients that held events when c did, since c came
  robbed,  \* history: clients whose stored signal another took or reset
  stale    \* history: clients woken by a signal older than they are

sharedVars == <<place, thread, under, signal, met, robbed, stale>>

Events == {"thread start", "sync command"}
Working == {"start_wait", "idle", "rung", "sync_wait"}
Places == {"out", "reset_start", "create_sync", "reset_sync", "spawn"} \cup Working

TypeOKShared ==
  /\ place \in [Clients -> Places]
  /\ thread \in [Clients -> {"none", "opening", "looping"}]
  /\ under \in [Clients -> 0 .. MaxOutstanding]
  /\ signal \in [Events -> SUBSET (Clients \cup {Creation})]
  /\ met \in [Clients -> SUBSET Clients]
  /\ robbed \subseteq Clients /\ stale \subseteq Clients

InitShared ==
  /\ place = [c \in Clients |-> "out"]
  /\ thread = [c \in Clients |-> "none"]
  /\ under = [c \in Clients |-> 0]
  /\ signal = [e \in Events |-> {}]
  /\ met = [c \in Clients |-> {}]
  /\ robbed = {} /\ stale = {}

\* Who has a handle of an event.
Holders(e) ==
  {c \in Clients : place[c] \notin IF e = "thread start" THEN {"out"}
                                   ELSE {"out", "reset_start", "create_sync"}}

Goes(c, from, to) == place[c] = from /\ place' = [place EXCEPT ![c] = to]

\* What becomes of the signals of e when c takes or resets them.
Clears(c, e) ==
  /\ signal' = [signal EXCEPT ![e] = {}]
  /\ robbed' = robbed \cup {d \in signal[e] \ {c} : d \in Clients /\ place[d] \in Working}

\* CreateEvent(NULL, FALSE, TRUE, name): the initial state counts only for
\* the first handle.
Creates(e) ==
  signal' = IF Holders(e) = {} THEN [signal EXCEPT ![e] = {Creation}] ELSE signal

\* Fault: PulseEvent, which leaves nothing for a client that does not wait.
PulsesEvent(c, e) ==
  signal' = IF \E d \in Clients : place[d] = (IF e = "thread start" THEN "start_wait"
                                              ELSE "sync_wait")
            THEN [signal EXCEPT ![e] = @ \cup {c}] ELSE signal

SetsEvent(c, e) == signal' = [signal EXCEPT ![e] = @ \cup {c}]

-----------------------------------------------------------------------------
(* CNVMe::initThread.                                                      *)

CreateStart(c) ==
  /\ Goes(c, "out", "reset_start")
  /\ Creates("thread start")
  /\ LET others == Holders("thread start") IN
     met' = [d \in Clients |-> IF d = c THEN others \cup {c}
                               ELSE IF d \in others THEN met[d] \cup {c} ELSE met[d]]
  /\ robbed' = robbed \ {c}
  /\ UNCHANGED <<thread, under, stale>>

ResetStart(c) ==
  /\ Goes(c, "reset_start", "create_sync")
  /\ Clears(c, "thread start")
  /\ UNCHANGED <<thread, under, met, stale>>

CreateSync(c) ==
  /\ Goes(c, "create_sync", "reset_sync")
  /\ Creates("sync command")
  /\ UNCHANGED <<thread, under, met, robbed, stale>>

\* Fault: an event that is created is taken to be clear.
ResetForgotten(c) ==
  /\ Goes(c, "reset_sync", "spawn")
  /\ UNCHANGED <<thread, under, signal, met, robbed, stale>>

ResetSync(c) ==
  /\ Goes(c, "reset_sync", "spawn")
  /\ Clears(c, "sync command")
  /\ UNCHANGED <<thread, under, met, stale>>

StartThread(c) ==
  /\ Goes(c, "spawn", "start_wait")
  /\ thread' = [thread EXCEPT ![c] = "opening"]
  /\ UNCHANGED <<under, signal, met, robbed, stale>>

\* WaitForSingleObject on an auto-reset event, and whose signals it took.
Returns(c, from, e) ==
  /\ Goes(c, from, "idle")
  /\ signal[e] # {}
  /\ Clears(c, e)
  /\ stale' = IF signal[e] \subseteq met[c] THEN stale ELSE stale \cup {c}
  /\ UNCHANGED <<thread, under, met>>

WaitStart(c) == Returns(c, "start_wait", "thread start")

-----------------------------------------------------------------------------
(* The commands, isr_thread, and the end of a client.                      *)

\* Any of the calls that write a command, ring the doorbell and wait.
Command(c) ==
  /\ under[c] < MaxOutstanding
  /\ Goes(c, "idle", "rung")
  /\ under' = [under EXCEPT ![c] = @ + 1]
  /\ UNCHANGED <<thread, signal, met, robbed, stale>>

BeginWait(c) ==
  /\ Goes(c, "rung", "sync_wait")
  /\ UNCHANGED <<thread, under, signal, met, robbed, stale>>

WaitSync(c) == Returns(c, "sync_wait", "sync command")

ThreadStarts(c) ==
  /\ thread[c] = "opening"
  /\ thread' = [thread EXCEPT ![c] = "looping"]
  /\ SetsEvent(c, "thread start")
  /\ UNCHANGED <<place, under, met, robbed, stale>>

\* Fault: woken, isr_thread signals without a look at the phase.
SignalsUntested(c) ==
  /\ thread[c] = "looping"
  /\ under' = [under EXCEPT ![c] = @ - 1]
  /\ SetsEvent(c, "sync command")
  /\ UNCHANGED <<place, thread, met, robbed, stale>>

\* isr_thread consumes a completion and signals.
ThreadSignals(c) ==
  /\ thread[c] = "looping" /\ under[c] > 0
  /\ under' = [under EXCEPT ![c] = @ - 1]
  /\ SetsEvent(c, "sync command")
  /\ UNCHANGED <<place, thread, met, robbed, stale>>

\* The destructor followed by the end of the process, or its end alone: the
\* handles are closed, and an event goes with its last one.
Ends(c) ==
  /\ place[c] # "out"
  /\ place' = [place EXCEPT ![c] = "out"]
  /\ thread' = [thread EXCEPT ![c] = "none"]
  /\ under' = [under EXCEPT ![c] = 0]
  /\ signal' = [e \in Events |-> IF Holders(e) \subseteq {c} THEN {} ELSE signal[e]]
  /\ UNCHANGED <<met, robbed, stale>>

InitThread(c) == CreateStart(c) \/ ResetStart(c) \/ CreateSync(c) \/ ResetSync(c)
                 \/ StartThread(c) \/ WaitStart(c)
Thread(c) == ThreadStarts(c) \/ ThreadSignals(c)

NextShared == \E c \in Clients :
  InitThread(c) \/ Command(c) \/ BeginWait(c) \/ WaitSync(c) \/ Thread(c) \/ Ends(c)

SpecShared == InitShared /\ [][NextShared]_sharedVars

\* Both waits are INFINITE and return when their event is set; isr_thread is
\* never told to stop.  Nobody has to issue a command, or to end.
FairShared == \A c \in Clients :
  /\ WF_sharedVars(WaitStart(c)) /\ WF_sharedVars(WaitSync(c))
  /\ WF_sharedVars(ThreadStarts(c)) /\ WF_sharedVars(ThreadSignals(c))

FairSpecShared == SpecShared /\ FairShared

-----------------------------------------------------------------------------
\* Sharing does not make a client wake before anything has happened: neither
\* the signal an event is created with nor one that a client left behind that
\* was gone before this one came ever satisfies a wait, whoever creates the
\* events and wherever in initThread the others are (ctrl.cpp:122-128).
NoStaleWake == stale = {}

\* What sharing does do: a client whose command has completed or whose thread
\* has started may sleep for ever, but only if another client's wait or reset
\* has taken its signal (ctrl.cpp:122-133, 678, 736).
SleepsOnlyIfRobbed ==
  \A c \in Clients : place[c] \in {"start_wait", "sync_wait"}
                     ~> place[c] \in {"out", "idle"} \/ c \in robbed
=============================================================================
