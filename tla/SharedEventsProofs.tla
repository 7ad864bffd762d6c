------------------------- MODULE SharedEventsProofs -------------------------
(* Theorems about SharedEvents, for any number of clients.                 *)
EXTENDS SharedEvents, TLAPS

USE DEF Events, Working, Places

\* How far under[c] may go.
LEMMA Counting ==
  /\ 0 \in 0 .. MaxOutstanding
  /\ \A n \in 0 .. MaxOutstanding :
       /\ n < MaxOutstanding => n + 1 \in 0 .. MaxOutstanding
       /\ n > 0 => n - 1 \in 0 .. MaxOutstanding
  BY OutstandingAssumption

\* Types: the events and histories of initThread and isr_thread stay what they are
\* and no client has more than MaxOutstanding commands under way.
THEOREM SharedTypeCorrect == SpecShared => []TypeOKShared
<1>1. InitShared => TypeOKShared
  BY Counting DEF InitShared, TypeOKShared
<1>2. TypeOKShared /\ [NextShared]_sharedVars => TypeOKShared'
  <2> SUFFICES ASSUME TypeOKShared, [NextShared]_sharedVars PROVE TypeOKShared'
    OBVIOUS
  <2> USE DEF TypeOKShared, Goes
  <2>1. ASSUME NEW c \in Clients, CreateStart(c) PROVE TypeOKShared'
    BY <2>1 DEF CreateStart, Creates, Holders
  <2>2. ASSUME NEW c \in Clients, ResetStart(c) PROVE TypeOKShared'
    BY <2>2 DEF ResetStart, Clears
  <2>3. ASSUME NEW c \in Clients, CreateSync(c) PROVE TypeOKShared'
    BY <2>3 DEF CreateSync, Creates
  <2>4. ASSUME NEW c \in Clients, ResetSync(c) PROVE TypeOKShared'
    BY <2>4 DEF ResetSync, Clears
  <2>5. ASSUME NEW c \in Clients, StartThread(c) PROVE TypeOKShared'
    BY <2>5 DEF StartThread
  <2>6. ASSUME NEW c \in Clients, WaitStart(c) PROVE TypeOKShared'
    BY <2>6 DEF WaitStart, Returns, Clears
  <2>7. ASSUME NEW c \in Clients, Command(c) PROVE TypeOKShared'
    <3>1. under[c] + 1 \in 0 .. MaxOutstanding
      BY <2>7, Counting DEF Command
    <3> QED
      BY <2>7, <3>1 DEF Command
  <2>8. ASSUME NEW c \in Clients, BeginWait(c) PROVE TypeOKShared'
    BY <2>8 DEF BeginWait
  <2>9. ASSUME NEW c \in Clients, WaitSync(c) PROVE TypeOKShared'
    BY <2>9 DEF WaitSync, Returns, Clears
  <2>10. ASSUME NEW c \in Clients, ThreadStarts(c) PROVE TypeOKShared'
    BY <2>10 DEF ThreadStarts, SetsEvent
  <2>11. ASSUME NEW c \in Clients, ThreadSignals(c) PROVE TypeOKShared'
    <3>1. under[c] - 1 \in 0 .. MaxOutstanding
      BY <2>11, Counting DEF ThreadSignals
    <3> QED
      BY <2>11, <3>1 DEF ThreadSignals, SetsEvent
  <2>12. ASSUME NEW c \in Clients, Ends(c) PROVE TypeOKShared'
    <3>1. under' \in [Clients -> 0 .. MaxOutstanding]
      BY <2>12, Counting DEF Ends
    <3>2. signal' \in [Events -> SUBSET (Clients \cup {Creation})]
      BY <2>12 DEF Ends
    <3> QED
      BY <2>12, <3>1, <3>2 DEF Ends
  <2>13. CASE UNCHANGED sharedVars
    BY <2>13 DEF sharedVars
  <2> QED
    BY <2>1, <2>2, <2>3, <2>4, <2>5, <2>6, <2>7, <2>8, <2>9, <2>10, <2>11, <2>12, <2>13
    DEF NextShared, InitThread, Thread
<1> QED
  BY <1>1, <1>2, PTL DEF SpecShared

-----------------------------------------------------------------------------
\* Clients that are there at once have met, only they have a thread, and once
\* a client has reset an event what the event stores is from those it has met.
EverybodyMet ==
  \A c, d \in Clients : place[c] # "out" /\ place[d] # "out" => d \in met[c]

ThreadsAreThere == \A c \in Clients : thread[c] # "none" => place[c] # "out"

StartIsFromMet ==
  \A c \in Clients : place[c] \notin {"out", "reset_start"}
                     => signal["thread start"] \subseteq met[c]

SyncIsFromMet ==
  \A c \in Clients : place[c] \in Working \cup {"spawn"}
                     => signal["sync command"] \subseteq met[c]

SharedInv == EverybodyMet /\ ThreadsAreThere /\ StartIsFromMet /\ SyncIsFromMet /\ NoStaleWake

\* A client's own steps other than the creations, the resets and its end keep
\* who has met and what the events store.
LEMMA QuietStep ==
  ASSUME TypeOKShared, SharedInv, NEW c \in Clients,
         StartThread(c) \/ Command(c) \/ BeginWait(c)
  PROVE  SharedInv'
<1>1. /\ place[c] \in {"spawn", "idle", "rung"}
      /\ place' = [place EXCEPT ![c] = place'[c]]
      /\ place'[c] \in {"start_wait", "rung", "sync_wait"}
      /\ met' = met /\ stale' = stale /\ signal' = signal
      /\ \A d \in Clients : d # c => thread'[d] = thread[d]
  BY DEF StartThread, Command, BeginWait, Goes, TypeOKShared
<1>2. EverybodyMet' /\ ThreadsAreThere'
  BY <1>1 DEF TypeOKShared, SharedInv, EverybodyMet, ThreadsAreThere
<1>3. StartIsFromMet'
  BY <1>1 DEF TypeOKShared, SharedInv, StartIsFromMet
<1>4. SyncIsFromMet'
  BY <1>1 DEF TypeOKShared, SharedInv, SyncIsFromMet
<1> QED
  BY <1>1, <1>2, <1>3, <1>4 DEF SharedInv, NoStaleWake

\* An event that is set gets a signal of a client everybody has met.
LEMMA ThreadStep ==
  ASSUME TypeOKShared, SharedInv, NEW c \in Clients, Thread(c)
  PROVE  SharedInv'
<1>1. place[c] # "out" /\ place' = place /\ met' = met /\ stale' = stale
  BY DEF Thread, ThreadStarts, ThreadSignals, TypeOKShared, SharedInv, ThreadsAreThere
<1>2. \A e \in Events : signal'[e] \subseteq signal[e] \cup {c}
  BY DEF Thread, ThreadStarts, ThreadSignals, SetsEvent, TypeOKShared
<1>3. ThreadsAreThere'
  BY <1>1 DEF Thread, ThreadStarts, ThreadSignals, TypeOKShared, SharedInv, ThreadsAreThere
<1> QED
  BY <1>1, <1>2, <1>3
  DEF SharedInv, EverybodyMet, StartIsFromMet, SyncIsFromMet, NoStaleWake

\* A wait takes what it finds, all of it from clients it has met.
LEMMA WaitStep ==
  ASSUME TypeOKShared, SharedInv, NEW c \in Clients, WaitStart(c) \/ WaitSync(c)
  PROVE  SharedInv'
<1>1. stale' = stale
  BY DEF WaitStart, WaitSync, Returns, Goes, SharedInv, StartIsFromMet, SyncIsFromMet
<1>2. /\ place[c] # "out" /\ place' = [place EXCEPT ![c] = "idle"]
      /\ place[c] \in {"start_wait", "sync_wait"}
      /\ met' = met /\ thread' = thread
      /\ \A e \in Events : signal'[e] \subseteq signal[e]
  BY DEF WaitStart, WaitSync, Returns, Clears, Goes, TypeOKShared
<1> QED
  BY <1>1, <1>2
  DEF TypeOKShared, SharedInv, EverybodyMet, ThreadsAreThere, StartIsFromMet,
      SyncIsFromMet, NoStaleWake

\* The creator of an event is alone with it until it has reset it.
LEMMA CreationStep ==
  ASSUME TypeOKShared, SharedInv, NEW c \in Clients, CreateStart(c) \/ CreateSync(c)
  PROVE  SharedInv'
<1>1. CASE CreateStart(c)
  <2>1. /\ place[c] = "out" /\ place' = [place EXCEPT ![c] = "reset_start"]
        /\ thread' = thread /\ stale' = stale
        /\ \A d \in Clients : d # c => met[d] \subseteq met'[d]
    BY <1>1 DEF CreateStart, Goes, TypeOKShared
  <2>2. EverybodyMet'
    BY <1>1, <2>1 DEF CreateStart, Holders, TypeOKShared, SharedInv, EverybodyMet
  <2>3. StartIsFromMet'
    BY <1>1, <2>1 DEF CreateStart, Creates, Holders, TypeOKShared, SharedInv, StartIsFromMet
  <2>4. SyncIsFromMet'
    BY <1>1, <2>1 DEF CreateStart, Creates, TypeOKShared, SharedInv, SyncIsFromMet
  <2> QED
    BY <2>1, <2>2, <2>3, <2>4 DEF TypeOKShared, SharedInv, ThreadsAreThere, NoStaleWake
<1>2. CASE CreateSync(c)
  BY <1>2 DEF CreateSync, Creates, Holders, Goes, TypeOKShared, SharedInv, EverybodyMet,
              ThreadsAreThere, StartIsFromMet, SyncIsFromMet, NoStaleWake
<1> QED
  BY <1>1, <1>2

\* A reset leaves an event without signals; so does the last handle's closing.
LEMMA ClearingStep ==
  ASSUME TypeOKShared, SharedInv, NEW c \in Clients,
         ResetStart(c) \/ ResetSync(c) \/ Ends(c)
  PROVE  SharedInv'
<1>1. CASE ResetStart(c)
  BY <1>1 DEF ResetStart, Clears, Goes, TypeOKShared, SharedInv, EverybodyMet,
              ThreadsAreThere, StartIsFromMet, SyncIsFromMet, NoStaleWake
<1>2. CASE ResetSync(c)
  BY <1>2 DEF ResetSync, Clears, Goes, TypeOKShared, SharedInv, EverybodyMet,
              ThreadsAreThere, StartIsFromMet, SyncIsFromMet, NoStaleWake
<1>3. CASE Ends(c)
  <2>1. /\ place' = [place EXCEPT ![c] = "out"] /\ met' = met /\ stale' = stale
        /\ thread' = [thread EXCEPT ![c] = "none"]
        /\ \A e \in Events : signal'[e] \subseteq signal[e]
    BY <1>3 DEF Ends
  <2>2. EverybodyMet' /\ ThreadsAreThere'
    BY <2>1 DEF TypeOKShared, SharedInv, EverybodyMet, ThreadsAreThere
  <2>3. StartIsFromMet'
    BY <2>1 DEF TypeOKShared, SharedInv, StartIsFromMet
  <2>4. SyncIsFromMet'
    BY <2>1 DEF TypeOKShared, SharedInv, SyncIsFromMet
  <2> QED
    BY <2>1, <2>2, <2>3, <2>4 DEF SharedInv, NoStaleWake
<1> QED
  BY <1>1, <1>2, <1>3

\* Any number of clients, created, ended and killed in whatever order: no wait
\* is satisfied by a signal older than the client that waits (ctrl.cpp:122-128).
THEOREM NobodyWakesStale == SpecShared => []NoStaleWake
<1>1. InitShared => SharedInv
  BY DEF InitShared, SharedInv, EverybodyMet, ThreadsAreThere, StartIsFromMet,
         SyncIsFromMet, NoStaleWake
<1>2. TypeOKShared /\ SharedInv /\ [NextShared]_sharedVars => SharedInv'
  <2> SUFFICES ASSUME TypeOKShared, SharedInv, [NextShared]_sharedVars PROVE SharedInv'
    OBVIOUS
  <2>1. CASE UNCHANGED sharedVars
    BY <2>1 DEF sharedVars, SharedInv, EverybodyMet, ThreadsAreThere, StartIsFromMet,
                SyncIsFromMet, NoStaleWake
  <2>2. CASE NextShared
    BY <2>2, QuietStep, ThreadStep, WaitStep, CreationStep, ClearingStep
    DEF NextShared, InitThread
  <2> QED
    BY <2>1, <2>2
<1>3. SharedInv => NoStaleWake
  BY DEF SharedInv
<1> QED
  BY <1>1, <1>2, <1>3, SharedTypeCorrect, PTL DEF SpecShared

-----------------------------------------------------------------------------
(* Who sleeps, and why.  ENABLED is out of the prover's reach, so the      *)
(* guards of the steps that fairness obliges are written out.              *)

\* A client whose wait cannot return and whose isr_thread has nothing to do.
Asleep(c) ==
  /\ \/ place[c] = "start_wait" /\ signal["thread start"] = {}
     \/ place[c] = "sync_wait" /\ signal["sync command"] = {}
  /\ thread[c] # "opening"
  /\ thread[c] = "looping" => under[c] = 0

\* The signal a client waits for is stored, still to come or taken by another.
SignalOwed ==
  \A c \in Clients :
    /\ place[c] \in Working => thread[c] # "none"
    /\ place[c] = "start_wait" /\ c \notin robbed
         => thread[c] = "opening" \/ c \in signal["thread start"]
    /\ place[c] \in {"rung", "sync_wait"} /\ c \notin robbed
         => under[c] > 0 \/ c \in signal["sync command"]

\* None is not above zero, one more is.
LEMMA AboveZero ==
  /\ \A n : n = 0 => ~(n > 0)
  /\ \A n \in 0 .. MaxOutstanding : n + 1 > 0
  BY OutstandingAssumption

\* A taking or a reset robs the others whose signal was stored; a creation or
\* an end clears an event only if nobody else holds it.
LEMMA OwedStep ==
  ASSUME TypeOKShared, SignalOwed, [NextShared]_sharedVars
  PROVE  SignalOwed'
<1> USE DEF TypeOKShared, SignalOwed
<1>1. CASE UNCHANGED sharedVars
  BY <1>1 DEF sharedVars
<1>2. ASSUME NEW c \in Clients, CreateStart(c) \/ CreateSync(c) PROVE SignalOwed'
  BY <1>2 DEF CreateStart, CreateSync, Creates, Holders, Goes
<1>3. ASSUME NEW c \in Clients, ResetStart(c) \/ ResetSync(c) PROVE SignalOwed'
  BY <1>3 DEF ResetStart, ResetSync, Clears, Goes
<1>4. ASSUME NEW c \in Clients, StartThread(c) PROVE SignalOwed'
  BY <1>4 DEF StartThread, Goes
<1>5. ASSUME NEW c \in Clients, WaitStart(c) \/ WaitSync(c) PROVE SignalOwed'
  BY <1>5 DEF WaitStart, WaitSync, Returns, Clears, Goes
<1>6. ASSUME NEW c \in Clients, Command(c) PROVE SignalOwed'
  <2>1. under'[c] > 0
    <3>1. under[c] \in 0 .. MaxOutstanding /\ under'[c] = under[c] + 1
      BY <1>6 DEF Command
    <3> QED
      BY <3>1, AboveZero
  <2>2. place[c] = "idle" /\ place'[c] = "rung"
    BY <1>6 DEF Command, Goes
  <2>3. \A d \in Clients \ {c} : place'[d] = place[d] /\ under'[d] = under[d]
    BY <1>6 DEF Command, Goes
  <2>4. UNCHANGED <<thread, signal, robbed>>
    BY <1>6 DEF Command
  <2> QED
    BY <2>1, <2>2, <2>3, <2>4
<1>7. ASSUME NEW c \in Clients, BeginWait(c) PROVE SignalOwed'
  BY <1>7 DEF BeginWait, Goes
<1>8. ASSUME NEW c \in Clients, ThreadStarts(c) \/ ThreadSignals(c) PROVE SignalOwed'
  <2>1. CASE ThreadStarts(c)
    BY <2>1 DEF ThreadStarts, SetsEvent
  <2>2. CASE ThreadSignals(c)
    <3>1. c \in signal'["sync command"] /\ \A e \in Events : signal[e] \subseteq signal'[e]
      BY <2>2 DEF ThreadSignals, SetsEvent
    <3>2. \A d \in Clients \ {c} : under'[d] = under[d]
      BY <2>2 DEF ThreadSignals
    <3>3. UNCHANGED <<place, thread, robbed>>
      BY <2>2 DEF ThreadSignals
    <3> QED
      BY <3>1, <3>2, <3>3
  <2> QED
    BY <1>8, <2>1, <2>2
<1>9. ASSUME NEW c \in Clients, Ends(c) PROVE SignalOwed'
  BY <1>9 DEF Ends, Holders
<1> QED
  BY <1>1, <1>2, <1>3, <1>4, <1>5, <1>6, <1>7, <1>8, <1>9 DEF NextShared, InitThread, Thread

\* This is what SleepsOnlyIfRobbed says of the states in which a client stops.
AsleepIsRobbed == \A c \in Clients : Asleep(c) => c \in robbed

\* Of any number of clients of one session, one that comes to rest in a wait of
\* initThread or of a command had its signal taken or reset by another.
THEOREM OnlyTheRobbedSleep == SpecShared => []AsleepIsRobbed
<1>1. InitShared => SignalOwed
  BY DEF InitShared, SignalOwed
<1>2. TypeOKShared /\ SignalOwed => AsleepIsRobbed
  <2> SUFFICES ASSUME TypeOKShared, SignalOwed, NEW c \in Clients, Asleep(c)
               PROVE  c \in robbed
    BY DEF AsleepIsRobbed
  <2>1. place[c] \in {"start_wait", "sync_wait"} /\ thread[c] # "none"
    BY DEF SignalOwed, Asleep
  <2>2. thread[c] \in {"none", "opening", "looping"}
    BY DEF TypeOKShared
  <2>3. thread[c] = "looping" /\ under[c] = 0
    BY <2>1, <2>2 DEF Asleep
  <2>4. CASE place[c] = "start_wait"
    BY <2>3, <2>4 DEF SignalOwed, Asleep
  <2>5. CASE place[c] = "sync_wait"
    <3>1. ~(under[c] > 0)
      BY <2>3, AboveZero
    <3> QED
      BY <2>5, <3>1 DEF SignalOwed, Asleep
  <2> QED
    BY <2>1, <2>4, <2>5
<1> QED
  BY <1>1, <1>2, OwedStep, SharedTypeCorrect, PTL DEF SpecShared
=============================================================================
