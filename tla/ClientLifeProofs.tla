-------------------------- MODULE ClientLifeProofs --------------------------
(***************************************************************************)
(* Proofs about EventTable, for any callers of the IOCTLs, and about       *)
(* ClientLife, for any number of processes, messages and faults: types,    *)
(* that an event a process has open is not gone for the driver either,     *)
(* that a working client has the events the driver pulses, that            *)
(* CREATE_EVENT finds the interrupt object, and what clients leave behind. *)
(* For clients that come one after the other: that nothing of theirs is    *)
(* left or lost, and that isr_thread and the DPC find their events.        *)
(***************************************************************************)
EXTENDS ClientLife, TLAPS

-----------------------------------------------------------------------------
(* The event table.                                                        *)

\* An event the driver's pointer has lost is one nobody has a handle to.
FreedIsGone == \A v \in Vectors : pEvent[v] = "freed" => v \notin Existing

\* An event somebody has a handle to has been created.
NullIsGone == \A v \in Vectors : pEvent[v] = "null" => v \notin Existing

\* The steps of NextTable but for a CREATE_EVENT that fails.
NextUnfailing ==
  \/ \E v \in Vectors : CreateEvent(v) \/ MessageArrives(v)
  \/ CreateEventAstray \/ DeleteEvents
  \/ ConnectInterrupt \/ ReleaseInterruptAndEvents
  \/ DpcCall
  \/ \E u \in Users : CloseProcess(u) \/ \E v \in Vectors : OpenEvent(u, v)

\* Every handler keeps the types of the table.
LEMMA TableTypeStep ==
  ASSUME TypeOKTable, [NextTable]_tableVars
  PROVE  TypeOKTable'
<1> USE DEF TypeOKTable
<1>1. ASSUME NEW v \in Vectors, CreateEvent(v) PROVE TypeOKTable'
  BY <1>1 DEF CreateEvent
<1>2. ASSUME NEW v \in Vectors, CreateEventFails(v) PROVE TypeOKTable'
  BY <1>2 DEF CreateEventFails
<1>3. ASSUME NEW v \in Vectors, MessageArrives(v) PROVE TypeOKTable'
  <2>1. calls' \in 0 .. 2 * Calls - 1
    BY <1>3 DEF MessageArrives, Calls
  <2>2. QED
    BY <1>3, <2>1 DEF MessageArrives
<1>4. CASE CreateEventAstray
  BY <1>4 DEF CreateEventAstray
<1>5. CASE DeleteEvents
  BY <1>5 DEF DeleteEvents, FreeUnheld
<1>6. CASE ConnectInterrupt
  BY <1>6, MessagesAssumption DEF ConnectInterrupt
<1>7. CASE ReleaseInterruptAndEvents
  BY <1>7, MessagesAssumption DEF ReleaseInterruptAndEvents, FreeUnheld
<1>8. CASE DpcCall
  BY <1>8 DEF DpcCall, Calls
<1>9. ASSUME NEW u \in Users, CloseProcess(u) PROVE TypeOKTable'
  BY <1>9 DEF CloseProcess, FreeUnheld
<1>10. ASSUME NEW u \in Users, NEW v \in Vectors, OpenEvent(u, v) PROVE TypeOKTable'
  BY <1>10 DEF OpenEvent
<1>11. CASE UNCHANGED tableVars
  BY <1>11 DEF tableVars
<1>12. QED
  BY <1>1, <1>2, <1>3, <1>4, <1>5, <1>6, <1>7, <1>8, <1>9, <1>10, <1>11
     DEF NextTable

\* A step that frees exactly what is left without a handle keeps FreedIsGone.
LEMMA FreeUnheldKeeps ==
  ASSUME TypeOKTable, FreedIsGone, FreeUnheld,
         \A v \in Vectors : v \in Existing' => v \in Existing
  PROVE  FreedIsGone'
BY DEF TypeOKTable, FreedIsGone, FreeUnheld

\* The handles there are, member by member.
LEMMA ExistingMembers ==
  \A v : v \in Existing <=> v \in eventHandle \/ v \in lost
                            \/ \E u \in Users : v \in opened[u]
BY DEF Existing

\* The same of the handles after a step.
LEMMA ExistingMembersNext ==
  \A v : v \in Existing' <=> v \in eventHandle' \/ v \in lost'
                             \/ \E u \in Users : v \in opened'[u]
BY DEF Existing

\* No handler, and no process, leaves a handle to an event that is freed.
LEMMA FreedStep ==
  ASSUME TypeOKTable, FreedIsGone, [NextTable]_tableVars
  PROVE  FreedIsGone'
<1> USE ExistingMembers, ExistingMembersNext
<1>1. ASSUME NEW v \in Vectors, CreateEvent(v) PROVE FreedIsGone'
  BY <1>1 DEF CreateEvent, TypeOKTable, FreedIsGone
<1>2. ASSUME NEW v \in Vectors, CreateEventFails(v) PROVE FreedIsGone'
  <2> SUFFICES ASSUME NEW w \in Vectors, pEvent'[w] = "freed"
               PROVE  w \notin Existing'
    BY DEF FreedIsGone
  <2>1. pEvent'[w] = IF w = v THEN "null"
                     ELSE IF pEvent[w] = "live" /\ w \notin Existing' THEN "freed"
                     ELSE pEvent[w]
    BY <1>2 DEF CreateEventFails
  <2>2. pEvent[w] = "freed" => w \notin Existing
    BY DEF FreedIsGone
  <2>3. w \in Existing' => w \in Existing
    BY <1>2 DEF CreateEventFails
  <2>4. QED
    BY <2>1, <2>2, <2>3
<1>3. CASE DeleteEvents
  BY <1>3, FreeUnheldKeeps DEF DeleteEvents
<1>4. CASE ReleaseInterruptAndEvents
  BY <1>4, FreeUnheldKeeps DEF ReleaseInterruptAndEvents
<1>5. ASSUME NEW u \in Users, CloseProcess(u) PROVE FreedIsGone'
  BY <1>5, FreeUnheldKeeps DEF CloseProcess, TypeOKTable
<1>6. ASSUME NEW u \in Users, NEW v \in Vectors, OpenEvent(u, v) PROVE FreedIsGone'
  BY <1>6 DEF OpenEvent, TypeOKTable, FreedIsGone
<1>7. CASE \/ \E v \in Vectors : MessageArrives(v)
           \/ CreateEventAstray \/ ConnectInterrupt \/ DpcCall
           \/ UNCHANGED tableVars
  BY <1>7 DEF MessageArrives, CreateEventAstray, ConnectInterrupt, DpcCall,
              tableVars, FreedIsGone
<1>8. QED
  BY <1>1, <1>2, <1>3, <1>4, <1>5, <1>6, <1>7 DEF NextTable

\* Without a failing CREATE_EVENT no handle is left to an event whose pointer is
\* null.
LEMMA NullStep ==
  ASSUME TypeOKTable, NullIsGone, [NextUnfailing]_tableVars
  PROVE  NullIsGone'
<1> USE ExistingMembers, ExistingMembersNext
<1>1. ASSUME NEW v \in Vectors, CreateEvent(v) PROVE NullIsGone'
  BY <1>1 DEF CreateEvent, TypeOKTable, NullIsGone
<1>2. CASE DeleteEvents
  BY <1>2 DEF DeleteEvents, FreeUnheld, NullIsGone
<1>3. CASE ReleaseInterruptAndEvents
  BY <1>3 DEF ReleaseInterruptAndEvents, FreeUnheld, NullIsGone
<1>4. ASSUME NEW u \in Users, CloseProcess(u) PROVE NullIsGone'
  BY <1>4 DEF CloseProcess, TypeOKTable, FreeUnheld, NullIsGone
<1>5. ASSUME NEW u \in Users, NEW v \in Vectors, OpenEvent(u, v) PROVE NullIsGone'
  BY <1>5 DEF OpenEvent, TypeOKTable, NullIsGone
<1>6. CASE \/ \E v \in Vectors : MessageArrives(v)
           \/ CreateEventAstray \/ ConnectInterrupt \/ DpcCall
           \/ UNCHANGED tableVars
  BY <1>6 DEF MessageArrives, CreateEventAstray, ConnectInterrupt, DpcCall,
              tableVars, NullIsGone
<1>7. QED
  BY <1>1, <1>2, <1>3, <1>4, <1>5, <1>6 DEF NextUnfailing

\* An empty table is as it should be.
LEMMA TableInitially == InitTable => TypeOKTable /\ FreedIsGone /\ NullIsGone
BY MessagesAssumption
   DEF InitTable, TypeOKTable, FreedIsGone, NullIsGone, Existing, Vectors, Calls

\* What a process has open exists.
LEMMA FreedMeansNotHeld == TypeOKTable /\ FreedIsGone => HeldIsNotFreed
BY ExistingMembers DEF TypeOKTable, FreedIsGone, HeldIsNotFreed

\* Whoever sends CREATE_EVENT and DELETE_EVENT in whatever order, an event a
\* process has open is never one the driver's pointer has lost.
THEOREM HeldEventsAreNotFreed == SpecTable => []HeldIsNotFreed
<1>1. TypeOKTable /\ FreedIsGone /\ [NextTable]_tableVars
        => (TypeOKTable /\ FreedIsGone)'
  BY TableTypeStep, FreedStep
<1>2. QED
  BY <1>1, TableInitially, FreedMeansNotHeld, PTL DEF SpecTable

-----------------------------------------------------------------------------
(* The life of the clients.                                                *)

Driven == {"running", "command", "waiting"}

\* What a failing CREATE_EVENT of another process may spoil.
Unfailed == "create_failed" \notin trouble

\* isr_thread keeps open what it has opened.
ClientHolds ==
  \A u \in Users : \A v \in Vectors :
    /\ client[u].at = "open" /\ v < client[u].i => v \in opened[u]
    /\ client[u].at \in Driven /\ v < MaxVectors => v \in opened[u]

\* Where init is between GET_BDF and the end of CREATE_EVENT.
Early == {"pci", "nvme", "adminq", "ctrl", "create"}

\* A device that is started has its interrupt, and a client on its way to
\* CREATE_EVENT has found it started and would have noted a stop since.
DeviceInv ==
  /\ device = "started" => Connected
  /\ \A u \in Users \ disturbed : client[u].at \in Early => device = "started"

\* The handles of the table are those of the messages that are granted.
HandlesAreGranted ==
  /\ granted > 0 => Connected
  /\ \A v \in eventHandle : v < granted

LifeInv ==
  /\ TypeOKLife
  /\ FreedIsGone
  /\ Unfailed => NullIsGone
  /\ ClientHolds
  /\ HandlesAreGranted
  /\ DeviceInv
  /\ CreateFindsInterrupt

\* A failing CREATE_EVENT, which is noted.
FailureNoted ==
  /\ \E v \in Vectors : CreateEventFails(v)
  /\ "create_failed" \in trouble'

\* The constants as numbers.
LEMMA VectorsAreNat == Messages \in Nat \ {0} /\ MaxVectors \in Nat \ {0}
BY MessagesAssumption, MaxVectorsAssumption

\* The count of CREATE_EVENT's loop names a vector until it is done.
LEMMA CountsAreVectors ==
  ASSUME TypeOKLife, NEW u \in Users, ~LastCreated(u)
  PROVE  client[u].i \in Vectors /\ client[u].i < granted
BY VectorsAreNat DEF TypeOKLife, TypeOKTable, Vectors, LastCreated

\* Every step of the clients is one of the driver's handlers, or none.
LEMMA LifeIsTable ==
  ASSUME TypeOKLife, [NextLife]_lifeVars
  PROVE  [NextUnfailing]_tableVars \/ FailureNoted
<1> USE VectorsAreNat, CountsAreVectors
<1>1. ASSUME NEW u \in Users, AcquireEvent(u)
      PROVE  [NextUnfailing]_tableVars \/ FailureNoted
  BY <1>1 DEF AcquireEvent, NextUnfailing, FailureNoted, Notes
<1>2. ASSUME NEW u \in Users, Dies(u) PROVE NextUnfailing
  BY <1>2 DEF Dies, NextUnfailing
<1>3. ASSUME NEW u \in Users, InitStep(u)
      PROVE  [NextUnfailing]_tableVars \/ FailureNoted
  BY <1>1, <1>2, <1>3
     DEF InitStep, InitDevice, MapPciReg, MapNVMeReg, MapReg, InitAdminQ,
         InitCtrl, InitThread, OpenEvents, OpenEvent, NextUnfailing, Existing,
         TypeOKLife, TypeOKTable
<1>4. ASSUME NEW u \in Users, EndStep(u) PROVE [NextUnfailing]_tableVars
  BY <1>4 DEF EndStep, ReleaseEvent, FreePool, UnmapNVMeReg, Release,
              UnmapPciReg, NextUnfailing
<1>5. ASSUME NEW u \in Users,
             Construct(u) \/ Call(u) \/ Destruct(u) \/ Kill(u)
      PROVE  [NextUnfailing]_tableVars
  BY <1>2, <1>5 DEF Construct, Call, Destruct, Kill
<1>6. ASSUME NEW u \in Users, NEW v \in Vectors, Completes(u, v)
      PROVE  NextUnfailing
  BY <1>6 DEF Completes, NextUnfailing, Vectors
<1>7. CASE DpcPulse \/ PnpStep
  BY <1>7 DEF DpcPulse, PnpStep, BeginStart, GetAdapter, ConnectFails, StartDevice,
              StopDevice, NextUnfailing
<1>8. CASE UNCHANGED lifeVars
  BY <1>8 DEF lifeVars
<1>9. QED
  BY <1>3, <1>4, <1>5, <1>6, <1>7, <1>8 DEF NextLife

\* With the failing CREATE_EVENT these are all steps of the table.
LEMMA UnfailingIsTable ==
  [NextUnfailing]_tableVars \/ FailureNoted => [NextTable]_tableVars
BY DEF NextUnfailing, FailureNoted, NextTable

ClientRecord == [at : Places, i : 0 .. Messages, num : 0 .. Messages, vec : Vectors]
ClientTyped == client \in [Users -> ClientRecord]

\* The ways in which a client moves keep its type.
LEMMA MovesAreTyped ==
  ASSUME ClientTyped, NEW u \in Users, NEW place \in Places
  PROVE  /\ Goes(u, place) => ClientTyped'
         /\ Begins(u, place) => ClientTyped'
         /\ Turn(u) /\ client[u].i \in 0 .. Messages - 1 => ClientTyped'
BY VectorsAreNat DEF ClientTyped, ClientRecord, Goes, Begins, Turn

\* How the ways in which a client moves change it.
LEMMA MovesOne ==
  ASSUME ClientTyped, NEW u \in Users, NEW place
  PROVE  /\ Goes(u, place) =>
              /\ client'[u].at = place /\ client'[u].num = client[u].num
              /\ \A w \in Users \ {u} : client'[w] = client[w]
         /\ Begins(u, place) =>
              /\ client'[u].at = place /\ client'[u].num = client[u].num
              /\ \A w \in Users \ {u} : client'[w] = client[w]
         /\ Turn(u) =>
              /\ client'[u].at = client[u].at /\ client'[u].num = client[u].num
              /\ client'[u].i = client[u].i + 1
              /\ \A w \in Users \ {u} : client'[w] = client[w]
         /\ client' = [client EXCEPT ![u] = Out] =>
              /\ client'[u].at = "out"
              /\ \A w \in Users \ {u} : client'[w] = client[w]
BY DEF ClientTyped, ClientRecord, Goes, Begins, Turn, Out

\* A pulse moves those who wait, and leaves their eventnum.
LEMMA PulseMoves ==
  ASSUME ClientTyped, DpcPulse, NEW u \in Users
  PROVE  \/ client'[u] = client[u]
         \/ /\ client[u].at = "waiting" /\ client'[u].at = "running"
            /\ client'[u].num = client[u].num
<1>1. PICK W \in SUBSET {w \in Users : At(w, "waiting") /\ client[w].vec = messageId} :
        client' = [w \in Users |->
                     IF w \in W THEN [client[w] EXCEPT !.at = "running", !.vec = 0]
                     ELSE client[w]]
  BY DEF DpcPulse
<1>2. CASE u \in W
  <2>1. client'[u] = [client[u] EXCEPT !.at = "running", !.vec = 0]
    BY <1>1, <1>2
  <2>2. client[u] \in ClientRecord /\ client[u].at = "waiting"
    BY <1>2 DEF ClientTyped, At
  <2>3. QED
    BY <2>1, <2>2 DEF ClientRecord
<1>3. QED
  BY <1>1, <1>2

\* A client that is gone has its type.
LEMMA OutIsTyped ==
  ASSUME ClientTyped, NEW u \in Users, client' = [client EXCEPT ![u] = Out]
  PROVE  ClientTyped'
BY VectorsAreNat, MessagesAssumption
   DEF ClientTyped, ClientRecord, Out, Places, InitPlaces, Vectors

\* Every step keeps the type of the clients.
LEMMA ClientTypeStep ==
  ASSUME TypeOKLife, NextLife
  PROVE  ClientTyped'
<1> USE VectorsAreNat
<1>0. ClientTyped
  BY DEF TypeOKLife, ClientTyped, ClientRecord
<1>1. InitPlaces \cup EndPlaces \cup {"out", "stuck", "running", "command", "waiting"}
        = Places
  BY DEF Places
<1>2. ASSUME NEW u \in Users, Construct(u) PROVE ClientTyped'
  BY <1>0, <1>2, MessagesAssumption
     DEF Construct, ClientTyped, ClientRecord, Out, Places, InitPlaces, Vectors
<1>3. ASSUME NEW u \in Users, Dies(u) PROVE ClientTyped'
  BY <1>0, <1>3, OutIsTyped DEF Dies
<1>4. ASSUME NEW u \in Users, AcquireEvent(u) PROVE ClientTyped'
  <2>1. CASE ~LastCreated(u) /\ Turn(u)
    <3>1. client[u].i \in 0 .. Messages - 1
      BY <2>1, CountsAreVectors DEF Vectors
    <3>2. QED
      BY <1>0, <2>1, <3>1, MovesAreTyped DEF Places
  <2>2. CASE Begins(u, "end_events") \/ Goes(u, "end_events")
    BY <1>0, <2>2, MovesAreTyped DEF Places, EndPlaces
  <2>3. CASE UNCHANGED client
    BY <1>0, <2>3 DEF ClientTyped
  <2>4. CASE client' = [client EXCEPT ![u].at = "sync", ![u].num = granted]
    BY <1>0, <2>4 DEF TypeOKLife, TypeOKTable, ClientTyped, ClientRecord, Places,
                      InitPlaces
  <2>5. QED
    BY <1>4, <2>1, <2>2, <2>3, <2>4 DEF AcquireEvent
<1>5. ASSUME NEW u \in Users, OpenEvents(u) PROVE ClientTyped'
  <2>1. CASE client[u].i \in Vectors /\ Turn(u)
    <3>1. client[u].i \in 0 .. Messages - 1
      BY <2>1 DEF Vectors
    <3>2. QED
      BY <1>0, <2>1, <3>1, MovesAreTyped DEF Places
  <2>2. CASE Goes(u, "stuck") \/ Goes(u, "running")
    BY <1>0, <2>2, MovesAreTyped DEF Places
  <2>3. QED
    BY <1>5, <2>1, <2>2 DEF OpenEvents, OpenEvent, Existing, TypeOKLife, TypeOKTable
<1>6. ASSUME NEW u \in Users, InitStep(u) PROVE ClientTyped'
  <2>1. CASE \E place \in Places : Goes(u, place) \/ Begins(u, place)
    BY <1>0, <2>1, MovesAreTyped
  <2>2. CASE client[u].i = 0 /\ Turn(u)
    <3>1. client[u].i \in 0 .. Messages - 1
      BY <2>2, VectorsAreNat
    <3>2. QED
      BY <1>0, <2>2, <3>1, MovesAreTyped DEF Places
  <2>3. CASE InitDevice(u) \/ MapPciReg(u) \/ MapNVMeReg(u)
    BY <1>3, <2>1, <2>3 DEF InitDevice, MapPciReg, MapNVMeReg, MapReg, Places,
                            InitPlaces, EndPlaces
  <2>4. CASE InitAdminQ(u) \/ InitCtrl(u) \/ InitThread(u)
    BY <1>3, <2>1, <2>2, <2>4 DEF InitAdminQ, InitCtrl, InitThread, Places,
                                  InitPlaces, EndPlaces
  <2>5. QED
    BY <1>4, <1>5, <1>6, <2>3, <2>4 DEF InitStep
<1>7. ASSUME NEW u \in Users, Call(u) PROVE ClientTyped'
  <2>1. ASSUME NEW v \in Vectors,
               client' = [client EXCEPT ![u].at = "command", ![u].vec = v]
        PROVE  ClientTyped'
    <3>1. v \in Vectors /\ "command" \in Places
      BY DEF Places
    <3>2. client[u].i \in 0 .. Messages /\ client[u].num \in 0 .. Messages
      BY <1>0 DEF ClientTyped, ClientRecord
    <3>3. QED
      BY <1>0, <2>1, <3>1, <3>2 DEF ClientTyped, ClientRecord
  <2>2. QED
    BY <1>3, <1>7, <2>1 DEF Call
<1>8. ASSUME NEW u \in Users, NEW v \in Vectors, Completes(u, v) PROVE ClientTyped'
  <2>1. CASE Goes(u, "waiting")
    BY <1>0, <2>1, MovesAreTyped DEF Places
  <2>2. CASE UNCHANGED client
    BY <1>0, <2>2 DEF ClientTyped
  <2>3. QED
    BY <1>8, <2>1, <2>2 DEF Completes
<1>9. CASE DpcPulse
  <2>1. PICK W \in SUBSET {u \in Users : At(u, "waiting") /\ client[u].vec = messageId} :
          client' = [u \in Users |->
                       IF u \in W THEN [client[u] EXCEPT !.at = "running", !.vec = 0]
                       ELSE client[u]]
    BY <1>9 DEF DpcPulse
  <2>2. ASSUME NEW u \in Users
        PROVE  [client[u] EXCEPT !.at = "running", !.vec = 0] \in ClientRecord
    <3>1. client[u] \in ClientRecord /\ "running" \in Places /\ 0 \in Vectors
      BY <1>0, MessagesAssumption DEF ClientTyped, Places, Vectors
    <3>2. QED
      BY <3>1 DEF ClientRecord
  <2>3. QED
    BY <1>0, <2>1, <2>2 DEF ClientTyped
<1>10. ASSUME NEW u \in Users, Destruct(u) \/ EndStep(u) PROVE ClientTyped'
  <2>1. CASE \E place \in Places : Goes(u, place)
    BY <1>0, <2>1, MovesAreTyped
  <2>2. CASE client' = [client EXCEPT ![u] = Out]
    BY <1>0, <2>2, OutIsTyped
  <2>3. QED
    BY <1>10, <2>1, <2>2
       DEF Destruct, EndStep, ReleaseEvent, FreePool, UnmapNVMeReg, Release,
           UnmapPciReg, Places, EndPlaces
<1>11. CASE PnpStep
  BY <1>0, <1>11 DEF PnpStep, BeginStart, GetAdapter, ConnectFails, StartDevice,
                     StopDevice, clientVars, ClientTyped
<1>12. QED
  BY <1>2, <1>3, <1>6, <1>7, <1>8, <1>9, <1>10, <1>11 DEF NextLife, Kill

RestTyped ==
  /\ device \in {"new", "starting", "started", "failed", "stopped"}
  /\ adapter \in BOOLEAN
  /\ mem \in [Users -> SUBSET Memories] /\ left \in BOOLEAN
  /\ pending \subseteq Users \X Vectors
  /\ trouble \subseteq Troubles /\ disturbed \subseteq Users

\* Every step keeps the types of what the driver and the controller hold for them.
LEMMA RestTypeStep ==
  ASSUME TypeOKLife, NextLife
  PROVE  RestTyped'
<1> USE VectorsAreNat DEF RestTyped, Memories, Troubles
<1>0. RestTyped
  BY DEF TypeOKLife
<1>1. ASSUME NEW u \in Users, Dies(u) PROVE RestTyped'
  BY <1>0, <1>1 DEF Dies, Notes
<1>2. ASSUME NEW u \in Users, InitStep(u) PROVE RestTyped'
  BY <1>0, <1>1, <1>2
     DEF InitStep, InitDevice, MapPciReg, MapNVMeReg, MapReg, InitAdminQ,
         InitCtrl, AcquireEvent, InitThread, OpenEvents, Notes
<1>3. ASSUME NEW u \in Users, Call(u) PROVE RestTyped'
  BY <1>0, <1>1, <1>3 DEF Call, Vectors
<1>4. ASSUME NEW u \in Users, NEW v \in Vectors, Completes(u, v) PROVE RestTyped'
  BY <1>0, <1>4 DEF Completes
<1>5. ASSUME NEW u \in Users, EndStep(u) PROVE RestTyped'
  BY <1>0, <1>5
     DEF EndStep, ReleaseEvent, FreePool, UnmapNVMeReg, Release, UnmapPciReg
<1>6. CASE DpcPulse \/ PnpStep
  BY <1>0, <1>6 DEF DpcPulse, PnpStep, BeginStart, GetAdapter, ConnectFails,
                    StartDevice, StopDevice, clientVars
<1>7. ASSUME NEW u \in Users, Construct(u) \/ Destruct(u) PROVE RestTyped'
  BY <1>0, <1>7 DEF Construct, Destruct, Notes
<1>8. QED
  BY <1>1, <1>2, <1>3, <1>4, <1>5, <1>6, <1>7 DEF NextLife, Kill

\* Every step keeps the types.
LEMMA LifeTypeStep ==
  ASSUME TypeOKLife, [NextLife]_lifeVars
  PROVE  TypeOKLife'
<1>1. TypeOKTable'
  BY LifeIsTable, UnfailingIsTable, TableTypeStep DEF TypeOKLife
<1>2. CASE NextLife
  BY <1>1, <1>2, ClientTypeStep, RestTypeStep
     DEF TypeOKLife, ClientTyped, ClientRecord, RestTyped
<1>3. CASE UNCHANGED lifeVars
  BY <1>1, <1>3 DEF TypeOKLife, lifeVars, clientVars
<1>4. QED
  BY <1>2, <1>3

\* The types hold at the start.
LEMMA LifeTypeInitially == InitLife => TypeOKLife
<1> SUFFICES ASSUME InitLife PROVE TypeOKLife
  OBVIOUS
<1>1. Out \in ClientRecord
  BY MessagesAssumption DEF ClientRecord, Out, Places, Vectors
<1>2. client \in [Users -> ClientRecord]
  BY <1>1 DEF InitLife
<1>3. QED
  BY <1>2, TableInitially DEF InitLife, TypeOKLife, ClientRecord

\* The variables of the clients have their types, for any number of processes
\* and messages and any faults: no vector beyond the table is created.
THEOREM LifeTypeCorrect == SpecLife => []TypeOKLife
BY LifeTypeInitially, LifeTypeStep, PTL DEF SpecLife

-----------------------------------------------------------------------------
(* What a client holds and finds.                                          *)

\* The process that moves, and what the others keep.
Alone(u) ==
  \A w \in Users \ {u} : client'[w] = client[w] /\ opened'[w] = opened[w]

HoldsAt(w) ==
  \A v \in Vectors :
    /\ client[w].at = "open" /\ v < client[w].i => v \in opened[w]
    /\ client[w].at \in Driven /\ v < MaxVectors => v \in opened[w]

\* Only the process that moves has to be looked at.
LEMMA OthersHold ==
  ASSUME ClientHolds, NEW u \in Users, Alone(u), HoldsAt(u)'
  PROVE  ClientHolds'
BY DEF ClientHolds, HoldsAt, Alone

\* A process that is at none of the places of HoldsAt holds what it must.
LEMMA ElsewhereHolds ==
  ASSUME NEW u \in Users, client'[u].at \notin Driven \cup {"open"}
  PROVE  HoldsAt(u)'
BY DEF HoldsAt

\* What isr_thread has opened stays open until its process ends.
LEMMA ClientHoldsStep ==
  ASSUME TypeOKLife, ClientHolds, NextLife
  PROVE  ClientHolds'
<1> USE VectorsAreNat
<1>0. ClientTyped /\ TypeOKTable
  BY DEF TypeOKLife, ClientTyped, ClientRecord
<1>1. ASSUME NEW u \in Users, Dies(u) PROVE ClientHolds'
  <2>1. Alone(u) /\ client'[u].at = "out"
    BY <1>0, <1>1 DEF Dies, CloseProcess, Alone, Out, ClientTyped, TypeOKTable
  <2>2. QED
    BY <2>1, ElsewhereHolds, OthersHold DEF Driven
<1>2. ASSUME NEW u \in Users, UNCHANGED opened,
             NEW place \in Places \ (Driven \cup {"open"}),
             Goes(u, place) \/ Begins(u, place)
      PROVE  ClientHolds'
  <2>1. Alone(u) /\ client'[u].at = place
    BY <1>0, <1>2 DEF Goes, Begins, Alone, ClientTyped, ClientRecord
  <2>2. QED
    BY <1>2, <2>1, ElsewhereHolds, OthersHold
<1>3. ASSUME NEW u \in Users, AcquireEvent(u) PROVE ClientHolds'
  <2>1. UNCHANGED opened /\ client[u].at = "create"
    BY <1>3 DEF AcquireEvent, CreateEvent, CreateEventFails, CreateEventAstray,
                tableVars, At
  <2>2. Alone(u) /\ client'[u].at \in {"create", "sync", "end_events"}
    <3>1. CASE client' = [client EXCEPT ![u].at = "sync", ![u].num = granted]
      BY <1>0, <2>1, <3>1 DEF Alone, ClientTyped, ClientRecord
    <3>2. CASE Turn(u) \/ Begins(u, "end_events") \/ Goes(u, "end_events") \/ UNCHANGED client
      BY <1>0, <2>1, <3>2, MovesOne DEF Alone
    <3>3. QED
      BY <1>3, <3>1, <3>2 DEF AcquireEvent
  <2>3. QED
    BY <2>2, ElsewhereHolds, OthersHold DEF Driven
<1>4. ASSUME NEW u \in Users, InitThread(u) PROVE ClientHolds'
  <2>1. UNCHANGED opened
    BY <1>4 DEF InitThread, tableVars
  <2>2. CASE Begins(u, "open")
    <3>1. Alone(u) /\ client'[u].at = "open" /\ client'[u].i = 0
      BY <1>0, <2>1, <2>2 DEF Begins, Alone, ClientTyped, ClientRecord
    <3>2. HoldsAt(u)'
      BY <3>1 DEF HoldsAt, Driven, Vectors
    <3>3. QED
      BY <3>1, <3>2, OthersHold
  <2>3. CASE Goes(u, "end_events")
    BY <1>2, <2>1, <2>3 DEF Places, EndPlaces, Driven
  <2>4. QED
    BY <1>4, <2>2, <2>3 DEF InitThread
<1>5. ASSUME NEW u \in Users, OpenEvents(u) PROVE ClientHolds'
  <2>0. client[u].at = "open" /\ HoldsAt(u) /\ client[u].i \in Nat
    BY <1>0, <1>5 DEF OpenEvents, At, ClientHolds, HoldsAt, ClientTyped, ClientRecord
  <2>1. CASE OpenEvent(u, client[u].i) /\ Turn(u)
    <3>1. /\ Alone(u) /\ client'[u].at = "open"
          /\ client'[u].i = client[u].i + 1
          /\ opened'[u] = opened[u] \cup {client[u].i}
      BY <1>0, <2>0, <2>1
         DEF OpenEvent, Turn, Alone, ClientTyped, ClientRecord, TypeOKTable
    <3>2. HoldsAt(u)'
      BY <2>0, <3>1 DEF HoldsAt, Driven, Vectors
    <3>3. QED
      BY <3>1, <3>2, OthersHold
  <2>2. CASE Goes(u, "stuck") /\ UNCHANGED tableVars
    BY <1>2, <2>2 DEF tableVars, Places, Driven
  <2>3. CASE LastOpened(u) /\ Goes(u, "running") /\ UNCHANGED tableVars
    <3>1. Alone(u) /\ client'[u].at = "running" /\ opened'[u] = opened[u]
      BY <1>0, <2>3 DEF Goes, tableVars, Alone, ClientTyped, ClientRecord
    <3>2. HoldsAt(u)'
      BY <2>0, <2>3, <3>1 DEF HoldsAt, LastOpened, Driven
    <3>3. QED
      BY <3>1, <3>2, OthersHold
  <2>4. QED
    BY <1>5, <2>1, <2>2, <2>3 DEF OpenEvents
<1>6. ASSUME NEW u \in Users, InitStep(u) PROVE ClientHolds'
  <2>1. CASE InitDevice(u) \/ MapPciReg(u) \/ MapNVMeReg(u) \/ InitCtrl(u)
    BY <1>1, <1>2, <2>1 DEF InitDevice, MapPciReg, MapNVMeReg, MapReg, InitCtrl,
                            tableVars, Places, InitPlaces, EndPlaces, Driven
  <2>2. CASE InitAdminQ(u) /\ Turn(u) /\ UNCHANGED tableVars
    <3>1. client'[u].at = "adminq" /\ Alone(u)
      BY <1>0, <2>2, MovesOne DEF InitAdminQ, At, Alone, tableVars
    <3>2. QED
      BY <3>1, ElsewhereHolds, OthersHold DEF Driven
  <2>3. CASE InitAdminQ(u)
    BY <1>1, <1>2, <2>2, <2>3 DEF InitAdminQ, tableVars, Places, InitPlaces, Driven
  <2>4. QED
    BY <1>3, <1>4, <1>5, <1>6, <2>1, <2>3 DEF InitStep
\* Between one driven place and another nothing has to be opened.
<1>7. ASSUME NEW u \in Users, UNCHANGED opened,
             client[u].at \in Driven, client'[u].at \in Driven,
             \A w \in Users \ {u} : client'[w] = client[w]
      PROVE  ClientHolds'
  <2>1. Alone(u)
    BY <1>7 DEF Alone
  <2>2. HoldsAt(u)'
    BY <1>7 DEF ClientHolds, HoldsAt, Driven
  <2>3. QED
    BY <2>1, <2>2, OthersHold
<1>8. ASSUME NEW u \in Users, Call(u) PROVE ClientHolds'
  <2>1. CASE Dies(u)
    BY <1>1, <2>1
  <2>2. CASE /\ UNCHANGED tableVars
             /\ \E v \in Vectors :
                  client' = [client EXCEPT ![u].at = "command", ![u].vec = v]
    <3>1. client'[u].at = "command" /\ \A w \in Users \ {u} : client'[w] = client[w]
      BY <1>0, <2>2 DEF ClientTyped, ClientRecord
    <3>2. client[u].at \in Driven /\ client'[u].at \in Driven
      BY <1>8, <3>1 DEF Call, At, Driven
    <3>3. QED
      BY <1>7, <2>2, <3>1, <3>2 DEF tableVars
  <2>3. QED
    BY <1>8, <2>1, <2>2 DEF Call
<1>9. ASSUME NEW u \in Users, NEW v \in Vectors, Completes(u, v) PROVE ClientHolds'
  <2>1. UNCHANGED opened
    BY <1>9 DEF Completes, MessageArrives
  <2>2. CASE At(u, "command") /\ Goes(u, "waiting")
    <3>1. client'[u].at = "waiting" /\ \A w \in Users \ {u} : client'[w] = client[w]
      BY <1>0, <2>2 DEF Goes, ClientTyped, ClientRecord
    <3>2. QED
      BY <1>7, <2>1, <2>2, <3>1 DEF At, Driven
  <2>3. CASE UNCHANGED client
    BY <2>1, <2>3 DEF ClientHolds
  <2>4. QED
    BY <1>9, <2>2, <2>3 DEF Completes
<1>10. CASE DpcPulse
  <2>1. UNCHANGED opened
    BY <1>10 DEF DpcPulse, DpcCall
  <2>2. ASSUME NEW u \in Users
        PROVE  \/ client'[u] = client[u]
               \/ client[u].at = "waiting" /\ client'[u].at = "running"
    BY <1>0, <1>10, PulseMoves
  <2>3. ASSUME NEW u \in Users PROVE HoldsAt(u)'
    BY <2>1, <2>2 DEF ClientHolds, HoldsAt, Driven
  <2>4. QED
    BY <2>3 DEF ClientHolds, HoldsAt
<1>11. ASSUME NEW u \in Users, Construct(u) PROVE ClientHolds'
  <2>1. Alone(u) /\ client'[u].at = "device"
    BY <1>0, <1>11 DEF Construct, Out, tableVars, Alone, ClientTyped
  <2>2. QED
    BY <2>1, ElsewhereHolds, OthersHold DEF Driven
<1>12. ASSUME NEW u \in Users, Destruct(u) PROVE ClientHolds'
  BY <1>2, <1>12 DEF Destruct, tableVars, Places, EndPlaces, Driven
<1>13. ASSUME NEW u \in Users, EndStep(u) PROVE ClientHolds'
  <2>1. CASE UnmapPciReg(u)
    <3>1. Alone(u) /\ client'[u].at = "out"
      BY <1>0, <2>1
         DEF UnmapPciReg, CloseProcess, Alone, Out, ClientTyped, TypeOKTable
    <3>2. QED
      BY <3>1, ElsewhereHolds, OthersHold DEF Driven
  <2>2. CASE ReleaseEvent(u)
    BY <1>2, <2>2 DEF ReleaseEvent, DeleteEvents, tableVars, Places, EndPlaces, Driven
  <2>3. CASE FreePool(u) \/ UnmapNVMeReg(u)
    BY <1>2, <2>3 DEF FreePool, UnmapNVMeReg, Release, tableVars, Places, EndPlaces, Driven
  <2>4. QED
    BY <1>13, <2>1, <2>2, <2>3 DEF EndStep
<1>14. CASE PnpStep
  BY <1>14 DEF PnpStep, BeginStart, GetAdapter, ConnectFails, StartDevice, StopDevice,
               ConnectInterrupt, ReleaseInterruptAndEvents, clientVars, tableVars,
               ClientHolds
<1>15. QED
  BY <1>1, <1>6, <1>8, <1>9, <1>10, <1>11, <1>12, <1>13, <1>14 DEF NextLife, Kill

-----------------------------------------------------------------------------
(* CREATE_EVENT and the interrupt object.                                  *)

\* Who is on the way to CREATE_EVENT was so before, or has just found the device.
LEMMA EarlyPlaces ==
  ASSUME TypeOKLife, NextLife, NEW w \in Users, client'[w].at \in Early
  PROVE  client[w].at \in Early \/ (InitDevice(w) /\ Goes(w, "pci"))
<1> USE DEF Early
<1>0. ClientTyped
  BY DEF TypeOKLife, ClientTyped, ClientRecord
<1>1. ASSUME NEW u \in Users, NEW place \in Places \ Early,
             Goes(u, place) \/ Begins(u, place)
      PROVE  client[w].at \in Early
  BY <1>0, <1>1 DEF Goes, Begins, ClientTyped, ClientRecord
<1>2. ASSUME NEW u \in Users, Turn(u) \/ UNCHANGED client PROVE client[w].at \in Early
  BY <1>0, <1>2 DEF Turn, ClientTyped, ClientRecord
<1>3. ASSUME NEW u \in Users, client' = [client EXCEPT ![u] = Out]
      PROVE  client[w].at \in Early
  BY <1>0, <1>3 DEF Out, ClientTyped
<1>4. ASSUME NEW u \in Users, client[u].at \in Early,
             \A x \in Users \ {u} : client'[x] = client[x]
      PROVE  client[w].at \in Early
  BY <1>4
<1>5. ASSUME NEW u \in Users, MapPciReg(u) \/ MapNVMeReg(u) PROVE client[w].at \in Early
  <2>1. \A x \in Users \ {u} : client'[x] = client[x]
    BY <1>0, <1>5 DEF MapPciReg, MapNVMeReg, MapReg, Dies, Goes, ClientTyped
  <2>2. client[u].at \in Early
    BY <1>5 DEF MapPciReg, MapNVMeReg, MapReg, At
  <2>3. QED
    BY <1>4, <2>1, <2>2
<1>6. ASSUME NEW u \in Users, InitAdminQ(u) \/ InitCtrl(u) \/ AcquireEvent(u)
      PROVE  client[w].at \in Early
  <2>1. \A x \in Users \ {u} : client'[x] = client[x]
    BY <1>0, <1>6 DEF InitAdminQ, InitCtrl, AcquireEvent, Dies, Goes, Turn, Begins,
                      ClientTyped
  <2>2. client[u].at \in Early
    BY <1>6 DEF InitAdminQ, InitCtrl, AcquireEvent, At
  <2>3. QED
    BY <1>4, <2>1, <2>2
<1>7. ASSUME NEW u \in Users, InitDevice(u)
      PROVE  client[w].at \in Early \/ (InitDevice(w) /\ Goes(w, "pci"))
  <2>1. CASE Goes(u, "out")
    BY <1>1, <2>1 DEF Places
  <2>2. CASE Goes(u, "pci") /\ u # w
    BY <1>0, <2>2 DEF Goes, ClientTyped
  <2>3. QED
    BY <1>7, <2>1, <2>2 DEF InitDevice
<1>8. ASSUME NEW u \in Users, InitThread(u) \/ OpenEvents(u) PROVE client[w].at \in Early
  BY <1>1, <1>2, <1>8 DEF InitThread, OpenEvents, Places, InitPlaces, EndPlaces
<1>9. ASSUME NEW u \in Users, Call(u) PROVE client[w].at \in Early
  <2>1. ASSUME NEW v, client' = [client EXCEPT ![u].at = "command", ![u].vec = v]
        PROVE  client[w].at \in Early
    BY <1>0, <2>1 DEF ClientTyped, ClientRecord
  <2>2. QED
    BY <1>3, <1>9, <2>1 DEF Call, Dies
<1>10. ASSUME NEW u \in Users, NEW v \in Vectors, Completes(u, v)
       PROVE  client[w].at \in Early
  BY <1>1, <1>2, <1>10 DEF Completes, Places
<1>11. CASE DpcPulse
  BY <1>0, <1>11, PulseMoves
<1>12. ASSUME NEW u \in Users, Construct(u) PROVE client[w].at \in Early
  <2>1. [Out EXCEPT !.at = "device"].at = "device"
    BY DEF Out
  <2>2. QED
    BY <1>0, <1>12, <2>1 DEF Construct, ClientTyped
<1>13. ASSUME NEW u \in Users, Destruct(u) \/ EndStep(u) \/ Kill(u)
       PROVE  client[w].at \in Early
  BY <1>1, <1>3, <1>13
     DEF Destruct, EndStep, ReleaseEvent, FreePool, UnmapNVMeReg, Release,
         UnmapPciReg, Kill, Dies, Places, EndPlaces
<1>14. CASE PnpStep
  BY <1>14 DEF PnpStep, BeginStart, GetAdapter, ConnectFails, StartDevice, StopDevice,
               clientVars
<1>15. QED
  BY <1>5, <1>6, <1>7, <1>8, <1>9, <1>10, <1>11, <1>12, <1>13, <1>14
     DEF NextLife, InitStep

\* The clients leave the device and its interrupt as they are.
LEMMA ClientsLeaveDevice ==
  ASSUME NextLife
  PROVE  PnpStep \/ UNCHANGED <<device, interrupt, granted>>
<1>1. ASSUME NEW u \in Users, Dies(u) PROVE UNCHANGED <<device, interrupt, granted>>
  BY <1>1 DEF Dies, CloseProcess
<1>2. ASSUME NEW u \in Users, InitStep(u)
      PROVE  UNCHANGED <<device, interrupt, granted>>
  BY <1>1, <1>2
     DEF InitStep, InitDevice, MapPciReg, MapNVMeReg, MapReg, InitAdminQ, InitCtrl,
         AcquireEvent, CreateEvent, CreateEventFails, CreateEventAstray, InitThread,
         OpenEvents, OpenEvent, tableVars
<1>3. QED
  BY <1>1, <1>2
     DEF NextLife, Construct, Call, Completes, MessageArrives, DpcPulse, DpcCall,
         Destruct, EndStep, ReleaseEvent, DeleteEvents, FreePool, UnmapNVMeReg,
         Release, UnmapPciReg, CloseProcess, Kill, tableVars

\* Only the constructor makes a client an undisturbed one.
LEMMA DisturbedStays ==
  ASSUME TypeOKLife, NextLife, NEW w \in disturbed, w \in Users
  PROVE  w \in disturbed' \/ client'[w].at = "device"
<1>1. ASSUME NEW u \in Users, Construct(u)
      PROVE  w \in disturbed' \/ client'[w].at = "device"
  <2>1. [Out EXCEPT !.at = "device"].at = "device"
    BY DEF Out
  <2>2. QED
    BY <1>1, <2>1 DEF Construct, TypeOKLife
<1>2. ASSUME NEW u \in Users, InitStep(u) PROVE w \in disturbed'
  BY <1>2
     DEF InitStep, InitDevice, MapPciReg, MapNVMeReg, MapReg, InitAdminQ, InitCtrl,
         AcquireEvent, InitThread, OpenEvents, Dies
<1>3. QED
  BY <1>1, <1>2
     DEF NextLife, Call, Completes, DpcPulse, Destruct, EndStep, ReleaseEvent,
         FreePool, UnmapNVMeReg, Release, UnmapPciReg, Kill, Dies, PnpStep, BeginStart,
         GetAdapter, ConnectFails, StartDevice, StopDevice, clientVars

\* Troubles are not forgotten.
LEMMA TroubleGrows ==
  ASSUME TypeOKLife, NextLife
  PROVE  trouble \subseteq trouble'
<1>1. ASSUME NEW u \in Users, InitStep(u) PROVE trouble \subseteq trouble'
  BY <1>1 DEF InitStep, InitDevice, MapPciReg, MapNVMeReg, MapReg, InitAdminQ,
              Dies, InitCtrl, AcquireEvent, InitThread, OpenEvents, Notes
<1>2. QED
  BY <1>1
     DEF NextLife, Construct, Dies, Call, Completes, DpcPulse, Destruct, EndStep,
         ReleaseEvent, FreePool, UnmapNVMeReg, Release, UnmapPciReg, Kill, PnpStep,
         BeginStart, GetAdapter, ConnectFails, StartDevice, StopDevice, clientVars,
         Notes

\* A start ends with the connection, and only a stop, which disturbs everyone on
\* the way, takes it away.
LEMMA DeviceInvStep ==
  ASSUME TypeOKLife, DeviceInv, NextLife
  PROVE  DeviceInv'
<1>1. CASE UNCHANGED <<device, interrupt, granted>>
  <2>1. device' = "started" => Connected'
    BY <1>1 DEF DeviceInv, Connected
  <2>2. ASSUME NEW w \in Users, w \notin disturbed', client'[w].at \in Early
        PROVE  device = "started"
    <3>1. w \notin disturbed
      BY <2>2, DisturbedStays DEF Early
    <3>2. CASE client[w].at \in Early
      BY <3>1, <3>2 DEF DeviceInv
    <3>3. CASE InitDevice(w) /\ Goes(w, "pci")
      <4>1. client'[w].at # "out"
        BY <2>2 DEF Early
      <4>2. disturbed' = disturbed \cup {x \in {w} : device # "started"}
        BY <3>3, <4>1 DEF InitDevice, Goes, TypeOKLife
      <4>3. QED
        BY <2>2, <4>2
    <3>4. QED
      BY <2>2, <3>2, <3>3, EarlyPlaces
  <2>3. QED
    BY <1>1, <2>1, <2>2 DEF DeviceInv
<1>2. CASE PnpStep
  <2>1. CASE StartDevice
    BY <2>1 DEF StartDevice, ConnectInterrupt, DeviceInv, Connected, clientVars
  <2>2. CASE StopDevice
    <3>1. UNCHANGED client /\ device' = "stopped"
      BY <2>2 DEF StopDevice
    <3>2. ASSUME NEW w \in Users, client[w].at \in Early PROVE w \in disturbed'
      BY <2>2, <3>2 DEF StopDevice, Early, InitPlaces
    <3>3. QED
      BY <3>1, <3>2 DEF DeviceInv
  <2>3. CASE BeginStart \/ GetAdapter \/ ConnectFails
    BY <2>3 DEF BeginStart, GetAdapter, ConnectFails, DeviceInv, Connected, clientVars,
                tableVars
  <2>4. QED
    BY <1>2, <2>1, <2>2, <2>3 DEF PnpStep
<1>3. QED
  BY <1>1, <1>2, ClientsLeaveDevice

\* CREATE_EVENT's loop ends before the messages granted, and what is granted
\* changes only with no handle in the table.
LEMMA HandlesAreGrantedStep ==
  ASSUME TypeOKLife, HandlesAreGranted, NextLife
  PROVE  HandlesAreGranted'
<1> USE DEF HandlesAreGranted
<1>0. granted \in Nat
  BY MessagesAssumption DEF TypeOKLife, TypeOKTable
<1>1. CASE UNCHANGED <<granted, interrupt>> /\ eventHandle' \subseteq eventHandle
  BY <1>1 DEF Connected
<1>2. ASSUME NEW u \in Users, AcquireEvent(u) PROVE HandlesAreGranted'
  <2>1. CASE ~LastCreated(u) /\ CreateEvent(client[u].i)
    <3>1. client[u].i < granted
      BY <2>1, CountsAreVectors
    <3>2. QED
      BY <2>1, <3>1 DEF CreateEvent, Connected
  <2>2. CASE CreateEventFails(client[u].i)
    BY <1>1, <2>2 DEF CreateEventFails
  <2>3. CASE CreateEventAstray
    BY <1>1, <2>3 DEF CreateEventAstray
  <2>4. CASE UNCHANGED tableVars
    BY <1>1, <2>4 DEF tableVars
  <2>5. QED
    BY <1>2, <2>1, <2>2, <2>3, <2>4 DEF AcquireEvent
<1>3. CASE PnpStep
  <2>1. CASE StartDevice
    <3>1. eventHandle = {} /\ UNCHANGED eventHandle /\ Connected'
      BY <1>0, <2>1 DEF StartDevice, ConnectInterrupt, TypeOKLife, TypeOKTable, Vectors,
                        Connected
    <3>2. QED
      BY <3>1
  <2>2. CASE StopDevice
    BY <2>2 DEF StopDevice, ReleaseInterruptAndEvents
  <2>3. CASE BeginStart \/ GetAdapter \/ ConnectFails
    BY <1>1, <2>3 DEF BeginStart, GetAdapter, ConnectFails, tableVars
  <2>4. QED
    BY <1>3, <2>1, <2>2, <2>3 DEF PnpStep
<1>4. ASSUME NEW u \in Users, Dies(u) PROVE eventHandle' \subseteq eventHandle
  BY <1>4 DEF Dies, CloseProcess
<1>5. ASSUME NEW u \in Users, InitStep(u), ~AcquireEvent(u)
      PROVE  eventHandle' \subseteq eventHandle
  BY <1>4, <1>5
     DEF InitStep, InitDevice, MapPciReg, MapNVMeReg, MapReg, InitAdminQ, InitCtrl,
         InitThread, OpenEvents, OpenEvent, tableVars
<1>6. ASSUME NEW u \in Users, EndStep(u) PROVE eventHandle' \subseteq eventHandle
  BY <1>6 DEF EndStep, ReleaseEvent, DeleteEvents, FreePool, UnmapNVMeReg, Release,
              UnmapPciReg, CloseProcess, tableVars
<1>7. \/ eventHandle' \subseteq eventHandle \/ PnpStep
      \/ \E u \in Users : AcquireEvent(u)
  BY <1>4, <1>5, <1>6
     DEF NextLife, Construct, Call, Completes, MessageArrives, DpcPulse, DpcCall,
         Destruct, Kill, tableVars
<1>8. QED
  BY <1>1, <1>2, <1>3, <1>7, ClientsLeaveDevice

\* Every step of the clients and the device is one of a machine that is up.
LEMMA OnlyWhileUp == ASSUME NextLife PROVE crash = "no"
<1>1. ASSUME NEW u \in Users, InitStep(u) PROVE crash = "no"
  BY <1>1 DEF InitStep, InitDevice, MapPciReg, MapNVMeReg, MapReg, InitAdminQ,
       InitCtrl, AcquireEvent, InitThread, OpenEvents, At
<1>2. QED
  BY <1>1
     DEF NextLife, Construct, Call, Completes, MessageArrives, DpcPulse, DpcCall,
         Destruct, EndStep, ReleaseEvent, FreePool, UnmapNVMeReg, Release, UnmapPciReg,
         Kill, Dies, CloseProcess, PnpStep, BeginStart, GetAdapter, ConnectFails,
         StartDevice, ConnectInterrupt, StopDevice, ReleaseInterruptAndEvents, At

\* So CREATE_EVENT goes astray only for a client that was disturbed.
LEMMA CreateFindsStep ==
  ASSUME TypeOKLife, DeviceInv, NextLife
  PROVE  CreateFindsInterrupt'
<1> SUFFICES ASSUME crash' = "create"
             PROVE  \E u \in Users : client'[u].at = "create" /\ u \in disturbed'
  BY DEF CreateFindsInterrupt
<1>1. ASSUME NEW u \in Users, AcquireEvent(u), CreateEventAstray
      PROVE  client'[u].at = "create" /\ u \in disturbed'
  <2>1. client[u].at = "create" /\ UNCHANGED <<client, disturbed>> /\ ~Connected
    BY <1>1 DEF AcquireEvent, CreateEventAstray, CreateEvent, CreateEventFails, At
  <2>2. u \in disturbed
    BY <2>1 DEF DeviceInv, Early
  <2>3. QED
    BY <2>1, <2>2
<1>2. ASSUME NEW u \in Users, Dies(u) PROVE UNCHANGED crash
  BY <1>2 DEF Dies, CloseProcess
<1>3. ASSUME NEW u \in Users, InitStep(u)
      PROVE  UNCHANGED crash \/ (AcquireEvent(u) /\ CreateEventAstray)
  BY <1>2, <1>3
     DEF InitStep, InitDevice, MapPciReg, MapNVMeReg, MapReg, InitAdminQ, InitCtrl,
         AcquireEvent, CreateEvent, CreateEventFails, InitThread, OpenEvents,
         OpenEvent, tableVars
<1>4. \/ UNCHANGED crash \/ crash' = "dpc"
      \/ \E u \in Users : AcquireEvent(u) /\ CreateEventAstray
  BY <1>2, <1>3
     DEF NextLife, Construct, Call, Completes, MessageArrives, DpcPulse, DpcCall,
         Destruct, EndStep, ReleaseEvent, DeleteEvents, FreePool, UnmapNVMeReg,
         Release, UnmapPciReg, CloseProcess, Kill, PnpStep, BeginStart, GetAdapter,
         ConnectFails, StartDevice, ConnectInterrupt, StopDevice,
         ReleaseInterruptAndEvents, tableVars
<1>5. QED
  BY <1>1, <1>4, OnlyWhileUp

-----------------------------------------------------------------------------
(* The theorems about the clients.                                         *)

\* The invariant holds at the start.
LEMMA LifeInvInitially == InitLife => LifeInv
BY LifeTypeInitially, TableInitially
   DEF InitLife, LifeInv, ClientHolds, HandlesAreGranted, DeviceInv, Early,
       CreateFindsInterrupt, Out, Driven, InitTable

\* Every step keeps the invariant.
LEMMA LifeInvStep ==
  ASSUME LifeInv, [NextLife]_lifeVars
  PROVE  LifeInv'
<1>1. TypeOKLife /\ TypeOKLife' /\ TypeOKTable
  BY LifeTypeStep DEF LifeInv, TypeOKLife
<1>2. FreedIsGone'
  BY <1>1, LifeIsTable, UnfailingIsTable, FreedStep DEF LifeInv
<1>3. trouble \subseteq trouble'
  BY <1>1, TroubleGrows DEF lifeVars, clientVars
<1>4. Unfailed' => NullIsGone'
  <2> SUFFICES ASSUME Unfailed' PROVE NullIsGone'
    OBVIOUS
  <2>1. NullIsGone
    BY <1>3 DEF LifeInv, Unfailed
  <2>2. [NextUnfailing]_tableVars
    BY <1>1, LifeIsTable DEF FailureNoted, Unfailed
  <2>3. QED
    BY <1>1, <2>1, <2>2, NullStep
<1>5. CASE NextLife
  BY <1>1, <1>2, <1>4, <1>5, ClientHoldsStep, HandlesAreGrantedStep, DeviceInvStep,
     CreateFindsStep DEF LifeInv
<1>6. CASE UNCHANGED lifeVars
  <2>1. ClientHolds' /\ HandlesAreGranted' /\ DeviceInv' /\ CreateFindsInterrupt'
    BY <1>6 DEF LifeInv, lifeVars, clientVars, tableVars, ClientHolds,
                HandlesAreGranted, DeviceInv, Connected, CreateFindsInterrupt
  <2>2. QED
    BY <1>1, <1>2, <1>4, <2>1 DEF LifeInv
<1>7. QED
  BY <1>5, <1>6

\* What a client has opened it keeps; what it has open the driver finds; a
\* client that is not disturbed is on a device that is started and connected.
THEOREM LifeInvariant == SpecLife => []LifeInv
BY LifeInvInitially, LifeInvStep, PTL DEF SpecLife

\* The client program is one of the callers EventTable allows: the life of any
\* number of clients does nothing to the table that the table does not do.
THEOREM ClientsUseTheTable == SpecLife => SpecTable
<1>1. LifeInv /\ [NextLife]_lifeVars => [NextTable]_tableVars
  BY LifeIsTable, UnfailingIsTable DEF LifeInv
<1>2. InitLife => InitTable
  BY DEF InitLife
<1>3. QED
  BY <1>1, <1>2, LifeInvariant, PTL DEF SpecLife, SpecTable

\* The driver's pointer to an event that a client has open is not left over
\* from a freed one, for any number of clients that come, fail and die.
THEOREM ClientsEventsAreNotFreed == SpecLife => []HeldIsNotFreed
<1>1. LifeInv => HeldIsNotFreed
  BY FreedMeansNotHeld DEF LifeInv, TypeOKLife
<1>2. QED
  BY <1>1, LifeInvariant, PTL

\* A working client waits for the events the driver pulses, whatever other
\* clients do to the table, unless a CREATE_EVENT of another has failed.
THEOREM ChannelsAreDrivers == SpecLife => [](Unfailed => ChannelIsDrivers)
<1>1. LifeInv => (Unfailed => ChannelIsDrivers)
  <2> SUFFICES ASSUME LifeInv, Unfailed, NEW u \in Users,
                      client[u].at \in {"running", "command", "waiting"},
                      NEW v \in Vectors, v < MaxVectors
               PROVE  pEvent[v] = "live"
    BY DEF ChannelIsDrivers
  <2>1. v \in Existing
    BY ExistingMembers DEF LifeInv, ClientHolds, Driven
  <2>2. pEvent[v] \in {"null", "live", "freed"}
    BY DEF LifeInv, TypeOKLife, TypeOKTable
  <2>3. QED
    BY <2>1, <2>2 DEF LifeInv, FreedIsGone, NullIsGone
<1>2. QED
  BY <1>1, LifeInvariant, PTL

\* CREATE_EVENT follows an interrupt object that is not there only for a client
\* that found the device not started or has seen it stopped inside init: however
\* often starts fail, for any number of clients and messages.
THEOREM CreateFindsItsInterrupt == SpecLife => []CreateFindsInterrupt
<1>1. LifeInv => CreateFindsInterrupt
  BY DEF LifeInv
<1>2. QED
  BY <1>1, LifeInvariant, PTL

-----------------------------------------------------------------------------
(* What keeps the event of a running DPC.                                  *)

Calm == "under_way" \notin trouble

\* A client at work that has the event of vector v.
Works(u, v) == client[u].at \in Driven /\ v < client[u].num

\* While the DPC has calls to make some client is at work that has the event, and
\* commands under way have clients that wait for them.
DpcInv ==
  /\ crash # "dpc"
  /\ calls > 0 => messageId < MaxVectors /\ \E u \in Users : Works(u, messageId)
  /\ \A u \in Users, v \in Vectors :
       <<u, v>> \in pending =>
         /\ client[u].at = "command" /\ client[u].vec = v
         /\ v < MaxVectors /\ v < client[u].num

\* A client may move that has no command under way and is not needed.
LEMMA OneMoves ==
  ASSUME DpcInv, NEW u \in Users, UNCHANGED <<calls, messageId>>, crash' # "dpc",
         pending' \subseteq pending, \A w \in Users \ {u} : client'[w] = client[w],
         client[u].at # "command",
         \/ client[u].at \notin Driven \/ calls = 0
         \/ client'[u].at \in Driven /\ client'[u].num = client[u].num
  PROVE  DpcInv'
<1>1. ASSUME NEW w \in Users, Works(w, messageId), calls > 0 PROVE Works(w, messageId)'
  BY <1>1 DEF Works
<1>2. calls' > 0 => messageId' < MaxVectors /\ \E w \in Users : Works(w, messageId)'
  BY <1>1 DEF DpcInv
<1>3. ASSUME NEW w \in Users, NEW v \in Vectors, <<w, v>> \in pending'
      PROVE  w # u /\ <<w, v>> \in pending
  BY <1>3 DEF DpcInv
<1>4. QED
  BY <1>2, <1>3 DEF DpcInv

\* While some client is at work the DPC finds the event it was asked for.
LEMMA EventIsLive ==
  ASSUME LifeInv, ChannelIsDrivers, DpcInv, calls > 0
  PROVE  pEvent[messageId] = "live"
<1>1. messageId \in Vectors /\ messageId < MaxVectors
  BY DEF DpcInv, LifeInv, TypeOKLife, TypeOKTable
<1>2. QED
  BY <1>1 DEF DpcInv, Works, ChannelIsDrivers, Driven

\* A step of init or of the destructor, without a death, keeps what the DPC
\* works on.
LEMMA StepsKeepDpc ==
  ASSUME TypeOKLife, NEW u \in Users, InitStep(u) \/ EndStep(u), ~Dies(u)
  PROVE  /\ UNCHANGED <<calls, messageId>> /\ pending' \subseteq pending
         /\ crash' = crash \/ crash' = "create"
         /\ \A w \in Users \ {u} : client'[w] = client[w]
         /\ client[u].at \in InitPlaces \cup EndPlaces
<1>0. ClientTyped
  BY DEF TypeOKLife, ClientTyped, ClientRecord
<1>1. client[u].at \in InitPlaces \cup EndPlaces
  BY DEF InitStep, InitDevice, MapPciReg, MapNVMeReg, MapReg, InitAdminQ, InitCtrl,
         AcquireEvent, InitThread, OpenEvents, EndStep, ReleaseEvent, FreePool,
         UnmapNVMeReg, Release, UnmapPciReg, At, InitPlaces, EndPlaces
<1>2. \A w \in Users \ {u} : client'[w] = client[w]
  BY <1>0
     DEF InitStep, InitDevice, MapPciReg, MapNVMeReg, MapReg, InitAdminQ, InitCtrl,
         AcquireEvent, InitThread, OpenEvents, EndStep, ReleaseEvent, FreePool,
         UnmapNVMeReg, Release, UnmapPciReg, Goes, Begins, Turn, ClientTyped
<1>3. /\ UNCHANGED <<calls, messageId>> /\ pending' \subseteq pending
      /\ crash' = crash \/ crash' = "create"
  BY DEF InitStep, InitDevice, MapPciReg, MapNVMeReg, MapReg, InitAdminQ, InitCtrl,
         AcquireEvent, CreateEvent, CreateEventFails, CreateEventAstray, InitThread,
         OpenEvents, OpenEvent, EndStep, ReleaseEvent, DeleteEvents, FreePool,
         UnmapNVMeReg, Release, UnmapPciReg, CloseProcess, tableVars
<1>4. QED
  BY <1>1, <1>2, <1>3

LEMMA DpcInvStep ==
  ASSUME LifeInv, ChannelIsDrivers, Calm => DpcInv, [NextLife]_lifeVars, Calm'
  PROVE  DpcInv'
<1>0. TypeOKLife /\ ClientTyped /\ TypeOKTable
  BY DEF LifeInv, TypeOKLife, ClientTyped, ClientRecord
<1>a. CASE UNCHANGED lifeVars
  BY <1>a DEF lifeVars, clientVars, tableVars, DpcInv, Works, Calm
<1>b. CASE NextLife
  <2>0. DpcInv
    BY <1>0, <1>b, TroubleGrows DEF Calm
  <2>d. ASSUME NEW u \in Users, Dies(u) PROVE DpcInv'
    <3>1. calls = 0 /\ client[u].at \notin {"command", "waiting"}
      BY <1>0, <2>d DEF Dies, Notes, Calm, TypeOKTable, Calls
    <3>2. /\ UNCHANGED <<calls, messageId, crash, pending>>
          /\ \A w \in Users \ {u} : client'[w] = client[w]
      BY <1>0, <2>d DEF Dies, CloseProcess, ClientTyped
    <3> QED
      BY <2>0, <3>1, <3>2, OneMoves DEF DpcInv
  <2>1. ASSUME NEW u \in Users, InitStep(u) \/ EndStep(u) PROVE DpcInv'
    <3>1. CASE ~Dies(u)
      <4>1. client[u].at \notin Driven
        BY <1>0, <2>1, <3>1, StepsKeepDpc DEF Driven, InitPlaces, EndPlaces
      <4>2. crash' # "dpc"
        BY <1>0, <2>0, <2>1, <3>1, StepsKeepDpc DEF DpcInv
      <4> QED
        BY <1>0, <2>0, <2>1, <3>1, <4>1, <4>2, StepsKeepDpc, OneMoves DEF Driven
    <3> QED
      BY <2>d, <3>1
  <2>2. ASSUME NEW u \in Users, Construct(u) PROVE DpcInv'
    <3>1. /\ UNCHANGED <<calls, messageId, crash, pending>> /\ client[u].at = "out"
          /\ \A w \in Users \ {u} : client'[w] = client[w]
      BY <1>0, <2>2 DEF Construct, At, tableVars, ClientTyped
    <3> QED
      BY <2>0, <3>1, OneMoves DEF DpcInv, Driven
  <2>3. ASSUME NEW u \in Users, Destruct(u) PROVE DpcInv'
    <3>1. /\ UNCHANGED <<calls, messageId, crash, pending>> /\ client[u].at = "running"
          /\ \A w \in Users \ {u} : client'[w] = client[w]
      BY <1>0, <2>3 DEF Destruct, At, Goes, tableVars, ClientTyped
    <3>2. calls = 0
      BY <1>0, <2>3 DEF Destruct, Notes, Calm, TypeOKTable, Calls
    <3> QED
      BY <2>0, <3>1, <3>2, OneMoves DEF DpcInv
  <2>4. ASSUME NEW u \in Users, Call(u) PROVE DpcInv'
    <3>1. CASE ~Dies(u)
      <4>1. PICK v \in Vectors :
              /\ v < MaxVectors /\ v < client[u].num
              /\ client' = [client EXCEPT ![u].at = "command", ![u].vec = v]
              /\ pending' = pending \cup {<<u, v>>}
        BY <2>4, <3>1 DEF Call
      <4>2. /\ client'[u].at = "command" /\ client'[u].vec = v
            /\ client'[u].num = client[u].num
            /\ client[u].at = "running" /\ \A w \in Users \ {u} : client'[w] = client[w]
        <5>1. client[u].at = "running"
          BY <2>4 DEF Call, At
        <5>2. \A w \in Users \ {u} : client'[w] = client[w]
          BY <1>0, <4>1 DEF ClientTyped
        <5>3. client'[u] = [client[u] EXCEPT !.at = "command", !.vec = v]
          BY <1>0, <4>1 DEF ClientTyped
        <5>4. client[u] \in ClientRecord
          BY <1>0 DEF ClientTyped
        <5> QED
          BY <5>1, <5>2, <5>3, <5>4 DEF ClientRecord
      <4>3. UNCHANGED <<calls, messageId, crash>>
        BY <2>4, <3>1 DEF Call, tableVars
      <4>4. ASSUME NEW w \in Users, NEW x \in Vectors, <<w, x>> \in pending'
            PROVE  /\ client'[w].at = "command" /\ client'[w].vec = x
                   /\ x < MaxVectors /\ x < client'[w].num
        <5>1. CASE w = u /\ x = v
          BY <4>1, <4>2, <5>1
        <5>2. CASE <<w, x>> \in pending
          <6>1. /\ client[w].at = "command" /\ client[w].vec = x
                /\ x < MaxVectors /\ x < client[w].num
            BY <2>0, <5>2 DEF DpcInv
          <6> QED
            BY <4>2, <6>1
        <5> QED
          BY <4>1, <4>4, <5>1, <5>2
      <4>5. ASSUME NEW w \in Users, Works(w, messageId) PROVE Works(w, messageId)'
        BY <4>2, <4>3, <4>5 DEF Works, Driven
      <4> QED
        BY <2>0, <4>3, <4>4, <4>5 DEF DpcInv
    <3> QED
      BY <2>d, <3>1
  <2>5. ASSUME NEW u \in Users, NEW v \in Vectors, Completes(u, v) PROVE DpcInv'
    <3>1. /\ client[u].at = "command" /\ client[u].vec = v
          /\ v < MaxVectors /\ v < client[u].num /\ crash = "no"
      BY <2>0, <2>5 DEF Completes, MessageArrives, DpcInv
    <3>2. /\ pending' = pending \ {<<u, v>>} /\ crash' = "no"
          /\ messageId' \in {0, v}
          /\ client'[u].at = "waiting" /\ client'[u].num = client[u].num
          /\ \A w \in Users \ {u} : client'[w] = client[w]
      BY <1>0, <2>5, <3>1, MovesOne DEF Completes, MessageArrives, At
    <3>3. ASSUME NEW w \in Users, NEW x \in Vectors, <<w, x>> \in pending'
          PROVE  /\ client'[w].at = "command" /\ client'[w].vec = x
                 /\ x < MaxVectors /\ x < client'[w].num
      <4>1. <<w, x>> \in pending /\ ~(w = u /\ x = v)
        BY <3>2, <3>3
      <4>2. /\ client[w].at = "command" /\ client[w].vec = x
            /\ x < MaxVectors /\ x < client[w].num
        BY <2>0, <4>1 DEF DpcInv
      <4> QED
        BY <3>1, <3>2, <4>1, <4>2
    <3>4. messageId' < MaxVectors /\ messageId' < client'[u].num
      <4>1. client[u].num \in Nat /\ v \in Nat
        BY <1>0, VectorsAreNat DEF ClientTyped, ClientRecord, Vectors
      <4> QED
        BY <3>1, <3>2, <4>1, VectorsAreNat
    <3>5. Works(u, messageId)'
      BY <3>2, <3>4 DEF Works, Driven
    <3> QED
      BY <3>2, <3>3, <3>4, <3>5 DEF DpcInv
  <2>6. CASE DpcPulse
    <3>1. calls > 0 /\ pEvent[messageId] = "live"
      BY <2>0, <2>6, EventIsLive DEF DpcPulse, DpcCall
    <3>2. /\ UNCHANGED <<crash, messageId, pending>>
          /\ \A u \in Users :
               \/ client'[u] = client[u]
               \/ /\ client[u].at = "waiting" /\ client'[u].at = "running"
                  /\ client'[u].num = client[u].num
      BY <1>0, <2>6, <3>1, PulseMoves DEF DpcPulse, DpcCall
    <3>3. ASSUME NEW u \in Users, Works(u, messageId) PROVE Works(u, messageId)'
      BY <3>2, <3>3 DEF Works, Driven
    <3>4. ASSUME NEW u \in Users, NEW v \in Vectors, <<u, v>> \in pending'
          PROVE  client'[u] = client[u] /\ <<u, v>> \in pending
      BY <2>0, <3>2, <3>4 DEF DpcInv
    <3> QED
      BY <2>0, <3>1, <3>2, <3>3, <3>4 DEF DpcInv
  <2>7. CASE PnpStep
    BY <2>0, <2>7 DEF PnpStep, BeginStart, GetAdapter, ConnectFails, StartDevice,
                      ConnectInterrupt, StopDevice, ReleaseInterruptAndEvents,
                      clientVars, tableVars, DpcInv, Works
  <2> QED
    BY <1>b, <2>d, <2>1, <2>2, <2>3, <2>4, <2>5, <2>6, <2>7 DEF NextLife, Kill
<1> QED
  BY <1>a, <1>b

\* The DPC finds its event, for any number of clients, unless one dies with a
\* command or the DPC under way, goes into its destructor before the DPC is
\* through, or a CREATE_EVENT of another fails.
THEOREM DpcFindsItsEvent == SpecLife => [](Unfailed => DpcFindsEvent)
<1> DEFINE Inv == Unfailed /\ Calm => DpcInv
<1>1. InitLife => Inv
  BY DEF InitLife, InitTable, DpcInv
<1>2. LifeInv /\ (Unfailed => ChannelIsDrivers) /\ Inv /\ [NextLife]_lifeVars => Inv'
  <2> SUFFICES ASSUME LifeInv, Unfailed => ChannelIsDrivers, Inv, [NextLife]_lifeVars,
                      Unfailed', Calm'
               PROVE  DpcInv'
    OBVIOUS
  <2>1. Unfailed
    BY TroubleGrows DEF LifeInv, Unfailed, lifeVars, clientVars
  <2> QED
    BY <2>1, DpcInvStep
<1>3. Inv => (Unfailed => DpcFindsEvent)
  BY DEF Calm, DpcInv, DpcFindsEvent
<1>4. QED
  BY <1>1, <1>2, <1>3, LifeInvariant, ChannelsAreDrivers, PTL DEF SpecLife

-----------------------------------------------------------------------------
(* What ended clients leave behind.                                        *)

\* No process has died and no CREATE_EVENT has failed.
Clean == trouble \cap {"died", "create_failed"} = {}

\* A client whose destructor will delete the event v: it has counted v in
\* CREATE_EVENT's loop, or has eventnum and has not been through releaseEvent.
Keeps(u, v) ==
  \/ client[u].at = "create" /\ v < client[u].i
  \/ /\ client[u].at \in {"sync", "open", "stuck", "end_events"} \cup Driven
     /\ client[u].num # 0

\* Every handle in the table is one some client's destructor will close.
HandlesAreKept == \A v \in eventHandle : \E u \in Users : Keeps(u, v)

\* A client has eventnum from the end of acquireEvent on.
NumIsSet(u) ==
  client[u].at \in {"sync", "open", "stuck"} \cup Driven => client[u].num # 0

\* What a process has open and mapped at the two ends of its life.
EndsEmpty(u) ==
  /\ client[u].at \in {"out", "device"} => opened[u] = {} /\ mem[u] = {}
  /\ client[u].at = "end_nvme" => mem[u] \subseteq {"pci", "nvme"}
  /\ client[u].at = "end_pci" => mem[u] \subseteq {"pci"}

EndInv ==
  /\ \A u \in Users : NumIsSet(u) /\ EndsEmpty(u)
  /\ Clean => HandlesAreKept /\ ~left

\* Clients come one after the other, each in a process of its own.
OneAtATime ==
  \A u, w \in Users : client[u].at # "out" /\ client[w].at # "out" => u = w

\* It is enough to look at the one client that moves.
LEMMA OneEnds ==
  ASSUME EndInv, NEW u \in Users, trouble \subseteq trouble',
         \A w \in Users \ {u} : /\ client'[w] = client[w] /\ mem'[w] = mem[w]
                                /\ opened'[w] = opened[w],
         NumIsSet(u)', EndsEmpty(u)',
         Clean' => eventHandle' \subseteq eventHandle /\ UNCHANGED left,
         Clean' => \A v : Keeps(u, v) => Keeps(u, v)'
  PROVE  EndInv'
<1>1. ASSUME NEW w \in Users PROVE NumIsSet(w)' /\ EndsEmpty(w)'
  BY DEF EndInv, NumIsSet, EndsEmpty
<1>2. ASSUME Clean' PROVE HandlesAreKept' /\ ~left'
  <2>1. HandlesAreKept /\ ~left
    BY <1>2 DEF EndInv, Clean
  <2>2. ASSUME NEW v \in eventHandle' PROVE \E w \in Users : Keeps(w, v)'
    <3>1. PICK w \in Users : Keeps(w, v)
      BY <1>2, <2>1 DEF HandlesAreKept
    <3>2. CASE w = u
      BY <1>2, <3>1, <3>2
    <3>3. CASE w # u
      BY <3>1, <3>3 DEF Keeps
    <3> QED
      BY <3>2, <3>3
  <2> QED
    BY <1>2, <2>1, <2>2 DEF HandlesAreKept
<1> QED
  BY <1>1, <1>2 DEF EndInv

\* A death is noted, and closes and unmaps what the process had.
LEMMA DiesEnds ==
  ASSUME TypeOKLife, EndInv, NEW u \in Users, Dies(u)
  PROVE  EndInv'
<1>1. ClientTyped
  BY DEF TypeOKLife, ClientTyped, ClientRecord
<1>2. ~Clean'
  BY DEF Dies, Notes, Clean
<1>3. /\ client'[u].at = "out" /\ mem'[u] = {} /\ opened'[u] = {}
      /\ \A w \in Users \ {u} : /\ client'[w] = client[w] /\ mem'[w] = mem[w]
                                /\ opened'[w] = opened[w]
  BY <1>1, MovesOne DEF Dies, CloseProcess, TypeOKLife, TypeOKTable
<1>4. trouble \subseteq trouble'
  BY DEF Dies, Notes
<1>5. NumIsSet(u)' /\ EndsEmpty(u)'
  BY <1>3 DEF NumIsSet, EndsEmpty, Driven
<1> QED
  BY <1>2, <1>3, <1>4, <1>5, OneEnds

\* acquireEvent counts what it creates, and hands it to eventnum.
LEMMA AcquireEnds ==
  ASSUME TypeOKLife, EndInv, HandlesAreGranted, NEW u \in Users, AcquireEvent(u)
  PROVE  EndInv'
<1>0. ClientTyped
  BY DEF TypeOKLife, ClientTyped, ClientRecord
<1>1. client[u].at = "create" /\ UNCHANGED <<mem, left>> /\ client[u].i \in Nat
  BY <1>0, VectorsAreNat DEF AcquireEvent, At, ClientTyped, ClientRecord
<1>2. CASE CreateEvent(client[u].i) /\ Turn(u) /\ UNCHANGED trouble
  <2>1. /\ client'[u].at = "create" /\ client'[u].i = client[u].i + 1
        /\ \A w \in Users \ {u} : client'[w] = client[w]
    BY <1>0, <1>1, <1>2, MovesOne
  <2>2. eventHandle' = eventHandle \cup {client[u].i} /\ UNCHANGED opened
    BY <1>2 DEF CreateEvent
  <2>3. ASSUME NEW w \in Users PROVE NumIsSet(w)' /\ EndsEmpty(w)'
    BY <1>1, <2>1, <2>2 DEF EndInv, NumIsSet, EndsEmpty, Driven
  <2>4. ASSUME Clean' PROVE HandlesAreKept' /\ ~left'
    <3>1. HandlesAreKept /\ ~left
      BY <1>2, <2>4 DEF EndInv, Clean
    <3>2. ASSUME NEW v \in eventHandle' PROVE \E w \in Users : Keeps(w, v)'
      <4>1. CASE v = client[u].i
        BY <1>1, <2>1, <4>1 DEF Keeps
      <4>2. CASE v \in eventHandle
        <5>1. PICK w \in Users : Keeps(w, v)
          BY <3>1, <4>2 DEF HandlesAreKept
        <5>2. v \in Nat
          BY <4>2, VectorsAreNat DEF TypeOKLife, TypeOKTable, Vectors
        <5>3. CASE w = u
          BY <1>1, <2>1, <5>1, <5>2, <5>3 DEF Keeps, Driven
        <5>4. CASE w # u
          BY <2>1, <5>1, <5>4 DEF Keeps
        <5> QED
          BY <5>3, <5>4
      <4> QED
        BY <2>2, <4>1, <4>2
    <3> QED
      BY <1>1, <3>1, <3>2 DEF HandlesAreKept
  <2> QED
    BY <2>3, <2>4 DEF EndInv
<1>3. CASE CreateEventFails(client[u].i) /\ Begins(u, "end_events") /\ Notes({"create_failed"})
  <2>1. /\ client'[u].at = "end_events"
        /\ \A w \in Users \ {u} : client'[w] = client[w]
    BY <1>0, <1>3, MovesOne
  <2>2. ~Clean' /\ trouble \subseteq trouble'
    BY <1>3 DEF Notes, Clean
  <2>3. NumIsSet(u)' /\ EndsEmpty(u)' /\ UNCHANGED opened
    BY <1>3, <2>1 DEF NumIsSet, EndsEmpty, Driven, CreateEventFails
  <2> QED
    BY <1>1, <2>1, <2>2, <2>3, OneEnds
<1>4. CASE CreateEventAstray /\ UNCHANGED <<client, trouble>>
  BY <1>1, <1>4
  DEF CreateEventAstray, EndInv, NumIsSet, EndsEmpty, Clean, HandlesAreKept, Keeps
<1>5. CASE granted > 0 /\ client' = [client EXCEPT ![u].at = "sync", ![u].num = granted]
           /\ UNCHANGED <<tableVars, trouble>>
  <2>1. /\ client'[u].at = "sync" /\ client'[u].num # 0
        /\ \A w \in Users \ {u} : client'[w] = client[w]
    BY <1>0, <1>5 DEF ClientTyped, ClientRecord
  <2>2. UNCHANGED <<opened, eventHandle>>
    BY <1>5 DEF tableVars
  <2>3. NumIsSet(u)' /\ EndsEmpty(u)' /\ \A v : Keeps(u, v)'
    BY <2>1 DEF NumIsSet, EndsEmpty, Keeps
  <2> QED
    BY <1>1, <1>5, <2>1, <2>2, <2>3, OneEnds
\* A device that was granted nothing has no handle in its table.
<1>6. CASE granted = 0 /\ Goes(u, "end_events") /\ UNCHANGED <<tableVars, trouble>>
  <2>1. /\ client'[u].at = "end_events"
        /\ \A w \in Users \ {u} : client'[w] = client[w]
    BY <1>0, <1>6, MovesOne
  <2>2. eventHandle' = {} /\ UNCHANGED <<opened, trouble>>
    <3>1. ASSUME NEW v \in eventHandle PROVE FALSE
      <4>1. v \in Nat
        BY VectorsAreNat DEF TypeOKLife, TypeOKTable, Vectors
      <4>2. v < 0
        BY <1>6 DEF HandlesAreGranted
      <4> QED
        BY <4>1, <4>2
    <3> QED
      BY <1>6, <3>1 DEF tableVars
  <2>3. ASSUME NEW w \in Users PROVE NumIsSet(w)' /\ EndsEmpty(w)'
    BY <1>1, <2>1, <2>2 DEF EndInv, NumIsSet, EndsEmpty, Driven
  <2> QED
    BY <1>1, <2>2, <2>3 DEF EndInv, HandlesAreKept, Clean
<1> QED
  BY <1>2, <1>3, <1>4, <1>5, <1>6 DEF AcquireEvent

\* The steps of init before acquireEvent have no event to keep, those after it
\* have eventnum.
LEMMA InitEnds ==
  ASSUME TypeOKLife, EndInv, HandlesAreGranted, NEW u \in Users, InitStep(u)
  PROVE  EndInv'
<1>0. ClientTyped
  BY DEF TypeOKLife, ClientTyped, ClientRecord
<1>1. CASE InitDevice(u)
  <2>1. /\ client[u].at = "device" /\ client'[u].at \in {"pci", "out"}
        /\ \A w \in Users \ {u} : client'[w] = client[w]
    BY <1>0, <1>1, MovesOne DEF InitDevice, At
  <2>2. UNCHANGED <<opened, eventHandle, mem, left, trouble>>
    BY <1>1 DEF InitDevice, tableVars
  <2>3. NumIsSet(u)' /\ EndsEmpty(u)' /\ \A v : ~Keeps(u, v)
    BY <2>1, <2>2 DEF EndInv, NumIsSet, EndsEmpty, Keeps, Driven
  <2> QED
    BY <2>1, <2>2, <2>3, OneEnds
<1>2. CASE (MapPciReg(u) \/ MapNVMeReg(u)) /\ ~Dies(u)
  <2>1. /\ client[u].at \in {"pci", "nvme"} /\ client'[u].at \in {"nvme", "adminq", "end_events"}
        /\ client'[u].num = client[u].num
        /\ \A w \in Users \ {u} : client'[w] = client[w]
    BY <1>0, <1>2, MovesOne DEF MapPciReg, MapNVMeReg, MapReg, At
  <2>2. /\ UNCHANGED <<opened, eventHandle, left, trouble>>
        /\ \A w \in Users \ {u} : mem'[w] = mem[w]
    BY <1>2 DEF MapPciReg, MapNVMeReg, MapReg, tableVars, TypeOKLife
  <2>3. NumIsSet(u)' /\ EndsEmpty(u)' /\ \A v : ~Keeps(u, v)
    BY <2>1 DEF NumIsSet, EndsEmpty, Keeps, Driven
  <2> QED
    BY <2>1, <2>2, <2>3, OneEnds
<1>3. CASE InitAdminQ(u) /\ ~Dies(u)
  <2>1. /\ client[u].at = "adminq" /\ client'[u].at \in {"adminq", "ctrl"}
        /\ \A w \in Users \ {u} : client'[w] = client[w]
    BY <1>0, <1>3, MovesOne DEF InitAdminQ, At
  <2>2. /\ UNCHANGED <<opened, eventHandle, left, trouble>>
        /\ \A w \in Users \ {u} : mem'[w] = mem[w]
    BY <1>3 DEF InitAdminQ, tableVars, TypeOKLife
  <2>3. NumIsSet(u)' /\ EndsEmpty(u)' /\ \A v : ~Keeps(u, v)
    BY <2>1 DEF NumIsSet, EndsEmpty, Keeps, Driven
  <2> QED
    BY <2>1, <2>2, <2>3, OneEnds
<1>4. CASE InitCtrl(u) /\ ~Dies(u)
  <2>1. /\ client[u].at = "ctrl" /\ client'[u].at \in {"create", "end_events"}
        /\ \A w \in Users \ {u} : client'[w] = client[w]
    BY <1>0, <1>4, MovesOne DEF InitCtrl, At
  <2>2. UNCHANGED <<opened, eventHandle, mem, left, trouble>>
    BY <1>4 DEF InitCtrl, tableVars
  <2>3. NumIsSet(u)' /\ EndsEmpty(u)' /\ \A v : ~Keeps(u, v)
    BY <2>1 DEF NumIsSet, EndsEmpty, Keeps, Driven
  <2> QED
    BY <2>1, <2>2, <2>3, OneEnds
<1>5. CASE InitThread(u)
  <2>1. /\ client[u].at = "sync" /\ client'[u].at \in {"open", "end_events"}
        /\ client'[u].num = client[u].num
        /\ \A w \in Users \ {u} : client'[w] = client[w]
    BY <1>0, <1>5, MovesOne DEF InitThread, At
  <2>2. UNCHANGED <<opened, eventHandle, mem, left, trouble>>
    BY <1>5 DEF InitThread, tableVars
  <2>3. client'[u].num # 0
    BY <2>1 DEF EndInv, NumIsSet
  <2>4. NumIsSet(u)' /\ EndsEmpty(u)' /\ \A v : Keeps(u, v)'
    BY <2>1, <2>3 DEF NumIsSet, EndsEmpty, Keeps
  <2> QED
    BY <2>1, <2>2, <2>4, OneEnds
<1>6. CASE OpenEvents(u)
  <2>1. /\ client[u].at = "open" /\ client'[u].at \in {"open", "stuck", "running"}
        /\ client'[u].num = client[u].num
        /\ \A w \in Users \ {u} : client'[w] = client[w]
    BY <1>0, <1>6, MovesOne DEF OpenEvents, At
  <2>2. /\ UNCHANGED <<eventHandle, mem, left, trouble>>
        /\ \A w \in Users \ {u} : opened'[w] = opened[w]
    BY <1>6 DEF OpenEvents, OpenEvent, tableVars, TypeOKLife, TypeOKTable
  <2>3. client'[u].num # 0
    BY <2>1 DEF EndInv, NumIsSet
  <2>4. NumIsSet(u)' /\ EndsEmpty(u)' /\ \A v : Keeps(u, v)'
    BY <2>1, <2>3 DEF NumIsSet, EndsEmpty, Keeps, Driven
  <2> QED
    BY <2>1, <2>2, <2>4, OneEnds
<1> QED
  BY <1>1, <1>2, <1>3, <1>4, <1>5, <1>6, AcquireEnds, DiesEnds DEF InitStep

\* The destructor closes the handles if there are any of its client's, and the
\* client is gone when its last mapping is.
LEMMA DestructorEnds ==
  ASSUME TypeOKLife, EndInv, NEW u \in Users, Destruct(u) \/ EndStep(u)
  PROVE  EndInv'
<1>0. ClientTyped /\ mem \in [Users -> SUBSET {"pci", "nvme", "pool"}]
  BY DEF TypeOKLife, ClientTyped, ClientRecord, Memories
<1>1. CASE Destruct(u)
  <2>1. /\ client[u].at = "running" /\ client'[u].at = "end_events"
        /\ client'[u].num = client[u].num
        /\ \A w \in Users \ {u} : client'[w] = client[w]
    BY <1>0, <1>1, MovesOne DEF Destruct, At
  <2>2. UNCHANGED <<opened, eventHandle, mem, left>> /\ trouble \subseteq trouble'
    BY <1>1 DEF Destruct, tableVars, Notes
  <2>3. client'[u].num # 0
    BY <2>1 DEF EndInv, NumIsSet, Driven
  <2>4. NumIsSet(u)' /\ EndsEmpty(u)' /\ \A v : Keeps(u, v)'
    BY <2>1, <2>3 DEF NumIsSet, EndsEmpty, Keeps, Driven
  <2> QED
    BY <2>1, <2>2, <2>4, OneEnds
<1>2. CASE ReleaseEvent(u)
  <2>1. /\ client[u].at = "end_events" /\ client'[u].at = "end_pool"
        /\ \A w \in Users \ {u} : client'[w] = client[w]
    BY <1>0, <1>2, MovesOne DEF ReleaseEvent, At
  <2>2. UNCHANGED <<opened, mem, left, trouble>>
    BY <1>2 DEF ReleaseEvent, DeleteEvents, tableVars
  <2>3. NumIsSet(u)' /\ EndsEmpty(u)'
    BY <2>1 DEF NumIsSet, EndsEmpty, Driven
  <2>4. CASE DeleteEvents
    <3>1. eventHandle' = {}
      BY <2>4 DEF DeleteEvents
    <3>2. \A w \in Users : NumIsSet(w)' /\ EndsEmpty(w)'
      BY <2>1, <2>2, <2>3 DEF EndInv, NumIsSet, EndsEmpty
    <3> QED
      BY <2>2, <3>1, <3>2 DEF EndInv, HandlesAreKept, Clean
  <2>5. CASE client[u].num = 0 /\ UNCHANGED tableVars
    <3>1. UNCHANGED eventHandle /\ \A v : ~Keeps(u, v)
      BY <2>1, <2>5 DEF Keeps, tableVars
    <3> QED
      BY <2>1, <2>2, <2>3, <3>1, OneEnds
  <2> QED
    BY <1>2, <2>4, <2>5 DEF ReleaseEvent
<1>3. CASE FreePool(u) \/ UnmapNVMeReg(u)
  <2>1. /\ client[u].at \in {"end_pool", "end_nvme"}
        /\ client'[u].at \in {"end_nvme", "end_pci"}
        /\ \A w \in Users \ {u} : client'[w] = client[w]
    BY <1>0, <1>3, MovesOne DEF FreePool, UnmapNVMeReg, Release, At
  <2>2. /\ UNCHANGED <<opened, eventHandle, left, trouble>>
        /\ \A w \in Users \ {u} : mem'[w] = mem[w]
    BY <1>0, <1>3 DEF FreePool, UnmapNVMeReg, Release, tableVars
  <2>3. /\ client'[u].at = "end_nvme" => mem'[u] \subseteq {"pci", "nvme"}
        /\ client'[u].at = "end_pci" => mem'[u] \subseteq {"pci"}
    <3>1. CASE FreePool(u)
      <4>1. client'[u].at = "end_nvme" /\ mem'[u] = mem[u] \ {"pool"}
        BY <1>0, <3>1, MovesOne DEF FreePool, Release
      <4> QED
        BY <1>0, <4>1
    <3>2. CASE UnmapNVMeReg(u)
      <4>1. /\ client[u].at = "end_nvme" /\ client'[u].at = "end_pci"
            /\ mem'[u] = mem[u] \ {"nvme"}
        BY <1>0, <3>2, MovesOne DEF UnmapNVMeReg, Release, At
      <4>2. mem[u] \subseteq {"pci", "nvme"}
        BY <4>1 DEF EndInv, EndsEmpty
      <4> QED
        BY <4>1, <4>2
    <3> QED
      BY <1>3, <3>1, <3>2
  <2>4. NumIsSet(u)' /\ EndsEmpty(u)' /\ \A v : ~Keeps(u, v)
    BY <2>1, <2>3 DEF NumIsSet, EndsEmpty, Keeps, Driven
  <2> QED
    BY <2>1, <2>2, <2>4, OneEnds
<1>4. CASE UnmapPciReg(u)
  <2>1. /\ client[u].at = "end_pci" /\ client'[u].at = "out"
        /\ \A w \in Users \ {u} : client'[w] = client[w]
    BY <1>0, <1>4, MovesOne DEF UnmapPciReg, At
  <2>2. /\ UNCHANGED <<eventHandle, left, trouble>>
        /\ opened'[u] = {} /\ mem'[u] = mem[u] \ {"pci"}
        /\ \A w \in Users \ {u} : mem'[w] = mem[w] /\ opened'[w] = opened[w]
    BY <1>0, <1>4 DEF UnmapPciReg, CloseProcess, TypeOKLife, TypeOKTable
  <2>3. mem'[u] = {}
    BY <2>1, <2>2 DEF EndInv, EndsEmpty
  <2>4. NumIsSet(u)' /\ EndsEmpty(u)' /\ \A v : ~Keeps(u, v)
    BY <2>1, <2>2, <2>3 DEF NumIsSet, EndsEmpty, Keeps, Driven
  <2> QED
    BY <2>1, <2>2, <2>4, OneEnds
<1> QED
  BY <1>1, <1>2, <1>3, <1>4 DEF EndStep

\* A working client keeps its events while it calls and waits.
LEMMA WorkEnds ==
  ASSUME TypeOKLife, EndInv, UNCHANGED <<opened, eventHandle, mem, left, trouble>>,
         \A u \in Users : \/ client'[u] = client[u]
                         \/ /\ client[u].at \in Driven /\ client'[u].at \in Driven
                            /\ client'[u].num = client[u].num
  PROVE  EndInv'
<1>1. ASSUME NEW u \in Users PROVE NumIsSet(u)' /\ EndsEmpty(u)'
  BY DEF EndInv, NumIsSet, EndsEmpty, Driven
<1>2. ASSUME NEW u \in Users, NEW v, Keeps(u, v) PROVE Keeps(u, v)'
  BY <1>2 DEF Keeps, Driven
<1>3. Clean' => HandlesAreKept' /\ ~left'
  BY <1>2 DEF EndInv, Clean, HandlesAreKept
<1> QED
  BY <1>1, <1>3 DEF EndInv

LEMMA EndInvStep ==
  ASSUME TypeOKLife, EndInv, HandlesAreGranted, [NextLife]_lifeVars
  PROVE  EndInv'
<1>0. ClientTyped
  BY DEF TypeOKLife, ClientTyped, ClientRecord
<1>1. ASSUME NEW u \in Users, Construct(u) PROVE EndInv'
  <2>1. /\ client[u].at = "out" /\ client'[u].at = "device"
        /\ \A w \in Users \ {u} : client'[w] = client[w]
    BY <1>0, <1>1 DEF Construct, At, Out, ClientTyped
  <2>2. UNCHANGED <<opened, eventHandle, mem, left, trouble>>
    BY <1>1 DEF Construct, tableVars
  <2>3. NumIsSet(u)' /\ EndsEmpty(u)' /\ \A v : ~Keeps(u, v)
    BY <2>1, <2>2 DEF EndInv, NumIsSet, EndsEmpty, Keeps, Driven
  <2> QED
    BY <2>1, <2>2, <2>3, OneEnds
<1>2. ASSUME NEW u \in Users, Call(u), ~Dies(u) PROVE EndInv'
  <2>1. UNCHANGED <<opened, eventHandle, mem, left, trouble>> /\ client[u].at = "running"
    BY <1>2 DEF Call, At, tableVars
  <2>2. PICK v \in Vectors :
          client' = [client EXCEPT ![u].at = "command", ![u].vec = v]
    BY <1>2 DEF Call
  <2>3. /\ client'[u].at = "command" /\ client'[u].num = client[u].num
        /\ \A w \in Users \ {u} : client'[w] = client[w]
    BY <1>0, <2>2 DEF ClientTyped, ClientRecord
  <2> QED
    BY <2>1, <2>3, WorkEnds DEF Driven
<1>3. ASSUME NEW u \in Users, NEW v \in Vectors, Completes(u, v) PROVE EndInv'
  <2>1. UNCHANGED <<opened, eventHandle, mem, left, trouble>>
    BY <1>3 DEF Completes, MessageArrives
  <2>2. CASE At(u, "command")
    <3>1. /\ client[u].at = "command" /\ client'[u].at = "waiting"
          /\ client'[u].num = client[u].num
          /\ \A w \in Users \ {u} : client'[w] = client[w]
      BY <1>0, <1>3, <2>2, MovesOne DEF Completes, At
    <3> QED
      BY <2>1, <3>1, WorkEnds DEF Driven
  <2>3. CASE ~At(u, "command")
    BY <1>3, <2>1, <2>3, WorkEnds DEF Completes
  <2> QED
    BY <2>2, <2>3
<1>4. CASE DpcPulse
  <2>1. UNCHANGED <<opened, eventHandle, mem, left, trouble>>
    BY <1>4 DEF DpcPulse, DpcCall
  <2>2. \A u \in Users : \/ client'[u] = client[u]
                        \/ /\ client[u].at = "waiting" /\ client'[u].at = "running"
                           /\ client'[u].num = client[u].num
    BY <1>0, <1>4, PulseMoves
  <2> QED
    BY <2>1, <2>2, WorkEnds DEF Driven
<1>5. CASE BeginStart \/ GetAdapter \/ ConnectFails \/ StartDevice \/ UNCHANGED lifeVars
  BY <1>5, WorkEnds DEF BeginStart, GetAdapter, ConnectFails, StartDevice,
                        ConnectInterrupt, lifeVars, clientVars, tableVars
<1>6. CASE StopDevice
  <2>1. /\ eventHandle' = {} /\ UNCHANGED <<opened, client>> /\ left' = FALSE
        /\ \A u \in Users : mem'[u] = {}
    BY <1>6 DEF StopDevice, ReleaseInterruptAndEvents
  <2>2. ASSUME NEW u \in Users PROVE NumIsSet(u)' /\ EndsEmpty(u)'
    BY <2>1 DEF EndInv, NumIsSet, EndsEmpty
  <2> QED
    BY <2>1, <2>2 DEF EndInv, HandlesAreKept
<1> QED
  BY <1>1, <1>2, <1>3, <1>4, <1>5, <1>6, InitEnds, DestructorEnds, DiesEnds
  DEF NextLife, Kill, PnpStep

LEMMA EndInvInitially == InitLife => EndInv
BY DEF InitLife, InitTable, EndInv, NumIsSet, EndsEmpty, HandlesAreKept, Out, Driven

LEMMA EndInvariant == SpecLife => []EndInv
<1>1. LifeInv => TypeOKLife /\ HandlesAreGranted
  BY DEF LifeInv
<1>2. TypeOKLife /\ HandlesAreGranted /\ EndInv /\ [NextLife]_lifeVars => EndInv'
  BY EndInvStep
<1>3. QED
  BY <1>1, <1>2, EndInvInitially, LifeInvariant, PTL DEF SpecLife

\* Every process has ended by its destructor.
AllEnded == Clean /\ \A u \in Users : client[u].at = "out"

\* When every process has ended by its destructor, no memory of theirs is left and
\* no event but those whose handle was overwritten, for any number of processes
\* side by side, whatever init of theirs failed and whatever the device did.
THEOREM OnlyLostIsLeft ==
  SpecLife => [](AllEnded => Existing = lost /\ ~left /\ \A u \in Users : mem[u] = {})
<1>1. EndInv => (AllEnded => Existing = lost /\ ~left /\ \A u \in Users : mem[u] = {})
  <2> SUFFICES ASSUME EndInv, AllEnded
               PROVE  Existing = lost /\ ~left /\ \A u \in Users : mem[u] = {}
    OBVIOUS
  <2>1. \A u \in Users : opened[u] = {} /\ mem[u] = {}
    BY DEF EndInv, EndsEmpty, AllEnded
  <2>2. \A u \in Users, v \in eventHandle : ~Keeps(u, v)
    BY DEF AllEnded, Keeps, Driven
  <2>3. eventHandle = {}
    BY <2>2 DEF EndInv, AllEnded, Clean, HandlesAreKept
  <2>4. \A v : v \in Existing <=> v \in lost
    BY <2>1, <2>3, ExistingMembers
  <2>5. Existing = lost
    BY <2>4
  <2> QED
    BY <2>1, <2>5 DEF EndInv, AllEnded
<1>2. QED
  BY <1>1, EndInvariant, PTL

\* Only CREATE_EVENT overwrites a handle, and only one that is there.
LEMMA LostByCreate ==
  ASSUME TypeOKLife, [NextLife]_lifeVars
  PROVE  \/ UNCHANGED lost
         \/ \E u \in Users :
              /\ client[u].at = "create" /\ client[u].i \in Nat /\ UNCHANGED trouble
              /\ lost' = lost \cup (eventHandle \cap {client[u].i})
<1>1. ClientTyped
  BY DEF TypeOKLife, ClientTyped, ClientRecord
<1>2. ASSUME NEW u \in Users, AcquireEvent(u), CreateEvent(client[u].i)
      PROVE  /\ client[u].at = "create" /\ client[u].i \in Nat
             /\ lost' = lost \cup (eventHandle \cap {client[u].i})
  BY <1>1, <1>2, VectorsAreNat
  DEF AcquireEvent, At, CreateEvent, ClientTyped, ClientRecord
<1>3. ASSUME NEW u \in Users, AcquireEvent(u)
      PROVE  \/ UNCHANGED lost
             \/ CreateEvent(client[u].i) /\ UNCHANGED trouble
  BY <1>3 DEF AcquireEvent, CreateEventFails, CreateEventAstray, tableVars
<1>4. \/ UNCHANGED lost \/ \E u \in Users : AcquireEvent(u)
  BY DEF NextLife, Construct, InitStep, InitDevice, MapPciReg, MapNVMeReg, MapReg,
         InitAdminQ, Dies, CloseProcess, InitCtrl, InitThread, OpenEvents, OpenEvent,
         Call, Completes, MessageArrives, DpcPulse, DpcCall, Destruct, EndStep,
         ReleaseEvent, DeleteEvents, FreePool, UnmapNVMeReg, Release, UnmapPciReg,
         Kill, PnpStep, BeginStart, GetAdapter, ConnectFails, StartDevice,
         ConnectInterrupt, StopDevice, ReleaseInterruptAndEvents, lifeVars, tableVars
<1> QED
  BY <1>2, <1>3, <1>4

\* A client that is alone finds no handle where it is about to put one: those in
\* the table are the ones it has counted.
LEMMA LostStep ==
  ASSUME TypeOKLife, EndInv, OneAtATime, LostOnlyAfterTrouble, [NextLife]_lifeVars
  PROVE  LostOnlyAfterTrouble'
<1>1. trouble \subseteq trouble'
  BY TroubleGrows DEF lifeVars, clientVars
<1> SUFFICES ASSUME Clean' PROVE lost' = {}
  BY DEF LostOnlyAfterTrouble, Clean
<1>2. Clean /\ lost = {} /\ HandlesAreKept
  BY <1>1 DEF Clean, LostOnlyAfterTrouble, EndInv
<1>3. ASSUME NEW u \in Users, client[u].at = "create", client[u].i \in Nat
      PROVE  client[u].i \notin eventHandle
  <2> SUFFICES ASSUME client[u].i \in eventHandle PROVE FALSE
    OBVIOUS
  <2>1. PICK w \in Users : Keeps(w, client[u].i)
    BY <1>2 DEF HandlesAreKept
  <2>2. w = u
    BY <1>3, <2>1 DEF OneAtATime, Keeps, Driven
  <2> QED
    BY <1>3, <2>1, <2>2 DEF Keeps, Driven
<1> QED
  BY <1>2, <1>3, LostByCreate

\* Where clients come one after the other, in however many processes, an event's
\* handle is overwritten only after a process has died or a CREATE_EVENT failed.
THEOREM LoneClientsLoseNothing == SpecLife /\ []OneAtATime => []LostOnlyAfterTrouble
<1>1. InitLife => LostOnlyAfterTrouble
  BY DEF InitLife, InitTable, LostOnlyAfterTrouble
<1>2. LifeInv => TypeOKLife
  BY DEF LifeInv
<1>3. TypeOKLife /\ EndInv /\ OneAtATime /\ LostOnlyAfterTrouble /\ [NextLife]_lifeVars
        => LostOnlyAfterTrouble'
  BY LostStep
<1>4. QED
  BY <1>1, <1>2, <1>3, LifeInvariant, EndInvariant, PTL DEF SpecLife

\* And when all of them have ended by their destructors nothing of theirs is
\* left, neither an event nor a mapping.
THEOREM LoneClientsLeaveNothing == SpecLife /\ []OneAtATime => []NothingLeft
<1>1. LostOnlyAfterTrouble /\ (AllEnded => Existing = lost /\ ~left /\ \A u \in Users : mem[u] = {})
        => NothingLeft
  BY DEF LostOnlyAfterTrouble, AllEnded, Clean, NothingLeft
<1>2. QED
  BY <1>1, OnlyLostIsLeft, LoneClientsLoseNothing, PTL

-----------------------------------------------------------------------------
(* That isr_thread finds its events.                                       *)

\* From acquireEvent on until isr_thread has opened its events.
Preparing == {"create", "sync", "open", "stuck"}

\* The events a client that prepares them has created are still in the table, and
\* isr_thread misses an event only where fewer were granted than it opens.
EventsReady(u) ==
  /\ client[u].at = "create" => \A v \in Vectors : v < client[u].i => v \in eventHandle
  /\ client[u].at \in {"sync", "open"} =>
       \A v \in Vectors : v < client[u].num => v \in eventHandle
  /\ client[u].at = "open" => client[u].i <= MaxVectors
  /\ client[u].at = "stuck" => client[u].num < MaxVectors

PrepareInv == \A u \in Users \ disturbed : EventsReady(u)

\* Only a client on its way into the end of its life, or a stop, takes events
\* out of the table while nobody dies.
LEMMA HandlesGrow ==
  ASSUME TypeOKLife, NextLife
  PROVE  \/ eventHandle \subseteq eventHandle' \/ StopDevice
         \/ \E u \in Users : client'[u].at \in {"end_events", "end_pool"}
<1>1. ClientTyped
  BY DEF TypeOKLife, ClientTyped, ClientRecord
<1>2. ASSUME NEW u \in Users, AcquireEvent(u)
      PROVE  eventHandle \subseteq eventHandle' \/ client'[u].at = "end_events"
  BY <1>1, <1>2, MovesOne
  DEF AcquireEvent, CreateEvent, CreateEventAstray, tableVars
<1>3. ASSUME NEW u \in Users, ReleaseEvent(u) PROVE client'[u].at = "end_pool"
  BY <1>1, <1>3, MovesOne DEF ReleaseEvent
<1>4. \/ eventHandle' = eventHandle \/ StopDevice
      \/ \E u \in Users : AcquireEvent(u) \/ ReleaseEvent(u)
  BY DEF NextLife, Construct, InitStep, InitDevice, MapPciReg, MapNVMeReg, MapReg,
         InitAdminQ, Dies, CloseProcess, InitCtrl, InitThread, OpenEvents, OpenEvent,
         Call, Completes, MessageArrives, DpcPulse, DpcCall, Destruct, EndStep,
         FreePool, UnmapNVMeReg, Release, UnmapPciReg, Kill, PnpStep, BeginStart,
         GetAdapter, ConnectFails, StartDevice, ConnectInterrupt, tableVars
<1> QED
  BY <1>2, <1>3, <1>4

\* A client comes to prepare its events, and goes on with it, by its own steps.
LEMMA PreparingMoves ==
  ASSUME TypeOKLife, NextLife, NEW w \in Users, client'[w].at \in Preparing
  PROVE  \/ client'[w] = client[w]
         \/ InitCtrl(w) \/ AcquireEvent(w) \/ InitThread(w) \/ OpenEvents(w)
<1>0. ClientTyped
  BY DEF TypeOKLife, ClientTyped, ClientRecord
<1>1. ASSUME NEW u \in Users, NEW place, place \notin Preparing,
             Goes(u, place) \/ Begins(u, place)
      PROVE  client'[w] = client[w]
  BY <1>0, <1>1, MovesOne
<1>2. ASSUME NEW u \in Users, client' = [client EXCEPT ![u] = Out]
      PROVE  client'[w] = client[w]
  BY <1>0, <1>2, MovesOne DEF Preparing
<1>3. ASSUME NEW u \in Users, u # w,
             InitCtrl(u) \/ AcquireEvent(u) \/ InitThread(u) \/ OpenEvents(u)
      PROVE  client'[w] = client[w]
  BY <1>0, <1>3, MovesOne
  DEF InitCtrl, Dies, AcquireEvent, InitThread, OpenEvents, ClientTyped
<1>4. ASSUME NEW u \in Users,
             InitDevice(u) \/ MapPciReg(u) \/ MapNVMeReg(u) \/ InitAdminQ(u)
      PROVE  client'[w] = client[w]
  <2>1. CASE InitAdminQ(u) /\ Turn(u)
    BY <1>0, <2>1, MovesOne DEF InitAdminQ, At, Preparing
  <2> QED
    BY <1>1, <1>2, <1>4, <2>1
    DEF InitDevice, MapPciReg, MapNVMeReg, MapReg, InitAdminQ, Dies, Preparing
<1>5. ASSUME NEW u \in Users, Call(u) PROVE client'[w] = client[w]
  <2>1. ASSUME NEW v, client' = [client EXCEPT ![u].at = "command", ![u].vec = v]
        PROVE  client'[w] = client[w]
    BY <1>0, <2>1 DEF ClientTyped, ClientRecord, Preparing
  <2> QED
    BY <1>2, <1>5, <2>1 DEF Call, Dies
<1>6. ASSUME NEW u \in Users, NEW v \in Vectors, Completes(u, v)
      PROVE  client'[w] = client[w]
  BY <1>1, <1>6 DEF Completes, Preparing
<1>7. CASE DpcPulse
  BY <1>0, <1>7, PulseMoves DEF Preparing
<1>8. ASSUME NEW u \in Users, Construct(u) PROVE client'[w] = client[w]
  <2>1. [Out EXCEPT !.at = "device"].at = "device"
    BY DEF Out
  <2> QED
    BY <1>0, <1>8, <2>1 DEF Construct, ClientTyped, Preparing
<1>9. ASSUME NEW u \in Users, Destruct(u) \/ EndStep(u) \/ Kill(u)
      PROVE  client'[w] = client[w]
  BY <1>1, <1>2, <1>9
  DEF Destruct, EndStep, ReleaseEvent, FreePool, UnmapNVMeReg, Release,
      UnmapPciReg, Kill, Dies, Preparing
<1>10. CASE PnpStep
  BY <1>10 DEF PnpStep, BeginStart, GetAdapter, ConnectFails, StartDevice, StopDevice,
               clientVars
<1> QED
  BY <1>3, <1>4, <1>5, <1>6, <1>7, <1>8, <1>9, <1>10 DEF NextLife, InitStep

\* A client that is alone keeps, step by step, what it prepares.
LEMMA PrepareStep ==
  ASSUME TypeOKLife, OneAtATime, OneAtATime', PrepareInv, NextLife
  PROVE  PrepareInv'
<1> SUFFICES ASSUME NEW w \in Users, w \notin disturbed', client'[w].at \in Preparing
             PROVE  EventsReady(w)'
  BY DEF PrepareInv, EventsReady, Preparing
<1>0. ClientTyped
  BY DEF TypeOKLife, ClientTyped, ClientRecord
<1>1. EventsReady(w)
  BY DisturbedStays DEF PrepareInv, Preparing
<1>2. eventHandle \subseteq eventHandle' \/ StopDevice
  <2>1. ASSUME NEW u \in Users, client'[u].at \in {"end_events", "end_pool"} PROVE FALSE
    <3>1. u = w
      BY <2>1 DEF OneAtATime, Preparing
    <3> QED
      BY <2>1, <3>1 DEF Preparing
  <2> QED
    BY <2>1, HandlesGrow
<1>3. CASE client'[w] = client[w]
  <2>1. CASE client[w].at = "stuck"
    BY <1>1, <1>3, <2>1 DEF EventsReady
  <2>2. CASE client[w].at # "stuck"
    <3>1. ~StopDevice
      BY <1>3, <2>2 DEF StopDevice, Preparing, InitPlaces
    <3> QED
      BY <1>1, <1>2, <1>3, <3>1 DEF EventsReady
  <2> QED
    BY <2>1, <2>2
<1>4. CASE InitCtrl(w)
  <2>1. Begins(w, "create")
    BY <1>0, <1>4, MovesOne DEF InitCtrl, Dies, Preparing
  <2>2. client'[w].at = "create" /\ client'[w].i = 0
    BY <1>0, <2>1 DEF Begins, ClientTyped, ClientRecord
  <2> QED
    BY <2>2, VectorsAreNat DEF EventsReady, Vectors
<1>5. CASE AcquireEvent(w) /\ client'[w] # client[w]
  <2>0. client[w].at = "create" /\ client[w].i \in 0 .. Messages
    BY <1>0, <1>5 DEF AcquireEvent, At, ClientTyped, ClientRecord
  <2>1. CASE CreateEvent(client[w].i) /\ Turn(w)
    <3>1. client'[w].at = "create" /\ client'[w].i = client[w].i + 1
      BY <1>0, <2>0, <2>1, MovesOne
    <3>2. eventHandle' = eventHandle \cup {client[w].i}
      BY <2>1 DEF CreateEvent
    <3> QED
      BY <1>1, <2>0, <3>1, <3>2, VectorsAreNat DEF EventsReady, Vectors
  <2>2. CASE LastCreated(w) /\ client' = [client EXCEPT ![w].at = "sync", ![w].num = granted]
             /\ UNCHANGED tableVars
    <3>1. client'[w].at = "sync" /\ client'[w].num = granted /\ eventHandle' = eventHandle
      BY <1>0, <2>2 DEF ClientTyped, ClientRecord, tableVars
    <3>2. ASSUME NEW v \in Vectors, v < granted PROVE v \in eventHandle
      <4>1. granted <= client[w].i /\ granted \in Nat /\ v \in Nat
        BY <2>2, VectorsAreNat DEF LastCreated, TypeOKLife, TypeOKTable, Vectors
      <4>2. v < client[w].i
        BY <2>0, <3>2, <4>1
      <4> QED
        BY <1>1, <2>0, <4>2 DEF EventsReady
    <3> QED
      BY <3>1, <3>2 DEF EventsReady
  <2>3. ~Goes(w, "end_events") /\ ~Begins(w, "end_events")
    BY <1>0, MovesOne DEF Preparing
  <2> QED
    BY <1>5, <2>1, <2>2, <2>3 DEF AcquireEvent
<1>6. CASE InitThread(w)
  <2>1. Begins(w, "open") /\ client[w].at = "sync" /\ eventHandle' = eventHandle
    BY <1>0, <1>6, MovesOne DEF InitThread, At, Preparing, tableVars
  <2>2. client'[w].at = "open" /\ client'[w].i = 0 /\ client'[w].num = client[w].num
    BY <1>0, <2>1 DEF Begins, ClientTyped, ClientRecord
  <2> QED
    BY <1>1, <2>1, <2>2, VectorsAreNat DEF EventsReady
<1>7. CASE OpenEvents(w)
  <2>1. /\ client[w].at = "open" /\ client[w].i \in 0 .. Messages /\ client[w].i <= MaxVectors
        /\ client[w].num \in 0 .. Messages /\ eventHandle' = eventHandle
        /\ \A v \in Vectors : v < client[w].num => v \in eventHandle
    BY <1>0, <1>1, <1>7
    DEF OpenEvents, OpenEvent, At, EventsReady, ClientTyped, ClientRecord, tableVars
  <2>2. CASE ~LastOpened(w) /\ Turn(w)
    <3>1. /\ client'[w].at = "open" /\ client'[w].i = client[w].i + 1
          /\ client'[w].num = client[w].num
      BY <1>0, <2>1, <2>2, MovesOne
    <3>2. client[w].i + 1 <= MaxVectors
      BY <2>1, <2>2, VectorsAreNat DEF LastOpened
    <3> QED
      BY <2>1, <3>1, <3>2 DEF EventsReady
  <2>3. CASE ~LastOpened(w) /\ client[w].i \notin Existing /\ Goes(w, "stuck")
    <3>1. client'[w].at = "stuck" /\ client'[w].num = client[w].num
      BY <1>0, <2>3, MovesOne
    <3>2. ~(client[w].i < client[w].num)
      BY <2>1, <2>3, VectorsAreNat, ExistingMembers DEF Vectors
    <3>3. client[w].num < MaxVectors
      BY <2>1, <2>3, <3>2, VectorsAreNat DEF LastOpened
    <3> QED
      BY <3>1, <3>3 DEF EventsReady
  <2>4. ~Goes(w, "running")
    BY <1>0, MovesOne DEF Preparing
  <2> QED
    BY <1>7, <2>2, <2>3, <2>4 DEF OpenEvents
<1> QED
  BY <1>3, <1>4, <1>5, <1>6, <1>7, PreparingMoves

\* isr_thread returns, and leaves init waiting for ever, only where the device was
\* granted fewer messages than it opens events, or where the client found it not
\* started or has seen a stop.
StuckHasReason ==
  \A u \in Users : client[u].at = "stuck" =>
    client[u].num < MaxVectors \/ u \in disturbed

\* Where clients come one after the other, on a device that is granted any number
\* of messages, isr_thread finds every event it opens that there is a message for,
\* after any number of deaths, failed inits and restarts of the device.  The wait
\* for ghThreadStart is infinite: this is what InitReturns says of the states in
\* which init stops, with CreateFindsItsInterrupt and DpcFindsItsEvent.
THEOREM LoneClientsAreNotStuck == SpecLife /\ []OneAtATime => []StuckHasReason
<1>1. InitLife => PrepareInv
  BY DEF InitLife, Out, PrepareInv, EventsReady
<1>2. TypeOKLife /\ OneAtATime /\ OneAtATime' /\ PrepareInv /\ [NextLife]_lifeVars
        => PrepareInv'
  <2>1. UNCHANGED lifeVars /\ PrepareInv => PrepareInv'
    BY DEF lifeVars, clientVars, tableVars, PrepareInv, EventsReady
  <2> QED
    BY <2>1, PrepareStep
<1>3. PrepareInv => StuckHasReason
  BY DEF PrepareInv, EventsReady, StuckHasReason
<1>4. LifeInv => TypeOKLife
  BY DEF LifeInv
<1> QED
  BY <1>1, <1>2, <1>3, <1>4, LifeInvariant, PTL DEF SpecLife

-----------------------------------------------------------------------------
(* That a client that is alone works with the driver's events even after   *)
(* a CREATE_EVENT has failed: it has created them anew since.              *)

\* No pointer is null of an event a client has created since its init began.
CreatedIsNotNull(u) ==
  /\ client[u].at = "create" => \A v \in Vectors : v < client[u].i => pEvent[v] # "null"
  /\ client[u].at \in {"sync", "open"} \cup Driven =>
       \A v \in Vectors : v < client[u].num => pEvent[v] # "null"

\* Only a CREATE_EVENT that fails, and ends its client's init, makes one null.
LEMMA NullByFailure ==
  ASSUME TypeOKLife, NextLife, NEW v \in Vectors, pEvent'[v] = "null"
  PROVE  pEvent[v] = "null" \/ \E u \in Users : client'[u].at = "end_events"
<1>1. ClientTyped /\ TypeOKTable
  BY DEF TypeOKLife, ClientTyped, ClientRecord
<1>2. CASE \E u \in Users : Begins(u, "end_events")
  BY <1>1, <1>2, MovesOne
<1>3. CASE [NextUnfailing]_tableVars
  BY <1>1, <1>3
  DEF NextUnfailing, CreateEvent, MessageArrives, CreateEventAstray, DeleteEvents,
      FreeUnheld, ConnectInterrupt, ReleaseInterruptAndEvents, DpcCall, CloseProcess,
      OpenEvent, tableVars, TypeOKTable
<1>4. ASSUME NEW u \in Users, AcquireEvent(u)
      PROVE  [NextUnfailing]_tableVars \/ Begins(u, "end_events")
  <2>1. CASE ~LastCreated(u) /\ CreateEvent(client[u].i)
    BY <2>1, CountsAreVectors DEF NextUnfailing
  <2>2. CASE CreateEventAstray
    BY <2>2 DEF NextUnfailing
  <2>3. CASE Begins(u, "end_events") \/ UNCHANGED tableVars
    BY <2>3
  <2> QED
    BY <1>4, <2>1, <2>2, <2>3 DEF AcquireEvent
<1>5. ASSUME NEW u \in Users, InitStep(u), ~AcquireEvent(u) PROVE [NextUnfailing]_tableVars
  <2>1. CASE OpenEvents(u)
    BY <1>1, <2>1
    DEF OpenEvents, OpenEvent, NextUnfailing, Existing, TypeOKTable
  <2>2. CASE Dies(u)
    BY <2>2 DEF Dies, NextUnfailing
  <2> QED
    BY <1>5, <2>1, <2>2
    DEF InitStep, InitDevice, MapPciReg, MapNVMeReg, MapReg, InitAdminQ, InitCtrl,
        InitThread
<1>6. ASSUME NEW u \in Users, EndStep(u) \/ Construct(u) \/ Call(u) \/ Destruct(u) \/ Kill(u)
      PROVE  [NextUnfailing]_tableVars
  BY <1>6
  DEF EndStep, ReleaseEvent, FreePool, UnmapNVMeReg, Release, UnmapPciReg, Construct,
      Call, Destruct, Kill, Dies, NextUnfailing
<1>7. CASE \/ \E u \in Users, x \in Vectors : Completes(u, x)
           \/ DpcPulse \/ PnpStep
  <2>1. ASSUME NEW u \in Users, NEW x \in Vectors, Completes(u, x) PROVE NextUnfailing
    BY <2>1, VectorsAreNat DEF Completes, Vectors, NextUnfailing
  <2>2. CASE DpcPulse \/ PnpStep
    BY <1>3, <2>2 DEF DpcPulse, PnpStep, BeginStart, GetAdapter, ConnectFails,
                      StartDevice, StopDevice, NextUnfailing
  <2> QED
    BY <1>3, <1>7, <2>1, <2>2
<1> QED
  BY <1>2, <1>3, <1>4, <1>5, <1>6, <1>7 DEF NextLife

\* A client comes to work from the opening of its events alone, and its eventnum
\* stays as it is.
LEMMA DrivenMoves ==
  ASSUME TypeOKLife, NextLife, NEW w \in Users, client'[w].at \in Driven
  PROVE  client[w].at \in {"open"} \cup Driven /\ client'[w].num = client[w].num
<1> DEFINE Worked == client[w].at \in Driven /\ client'[w].num = client[w].num
<1>0. ClientTyped
  BY DEF TypeOKLife, ClientTyped, ClientRecord
<1>1. ASSUME NEW u \in Users, NEW place, place \notin Driven,
             Goes(u, place) \/ Begins(u, place)
      PROVE  Worked
  BY <1>0, <1>1, MovesOne
<1>2. ASSUME NEW u \in Users,
             client' = [client EXCEPT ![u] = Out] \/ Turn(u) \/ UNCHANGED client
      PROVE  Worked
  BY <1>0, <1>2, MovesOne DEF Driven
<1>3. ASSUME NEW u \in Users, OpenEvents(u)
      PROVE  client[w].at \in {"open"} \cup Driven /\ client'[w].num = client[w].num
  <2>1. CASE u = w
    BY <1>0, <1>3, <2>1, MovesOne DEF OpenEvents, At
  <2>2. CASE u # w
    BY <1>0, <1>3, <2>2, MovesOne DEF OpenEvents
  <2> QED
    BY <2>1, <2>2
<1>4. ASSUME NEW u \in Users,
             InitDevice(u) \/ MapPciReg(u) \/ MapNVMeReg(u) \/ InitAdminQ(u) \/ InitCtrl(u)
             \/ InitThread(u)
      PROVE  Worked
  BY <1>1, <1>2, <1>4
  DEF InitDevice, MapPciReg, MapNVMeReg, MapReg, InitAdminQ, Dies, InitCtrl, InitThread,
      Driven
<1>5. ASSUME NEW u \in Users, AcquireEvent(u) PROVE Worked
  <2>1. CASE client' = [client EXCEPT ![u].at = "sync", ![u].num = granted]
    <3>1. CASE u = w
      BY <1>0, <2>1, <3>1 DEF ClientTyped, ClientRecord, Driven
    <3>2. CASE u # w
      BY <1>0, <2>1, <3>2 DEF ClientTyped
    <3> QED
      BY <3>1, <3>2
  <2> QED
    BY <1>1, <1>2, <1>5, <2>1 DEF AcquireEvent, Driven
<1>6. ASSUME NEW u \in Users, Call(u) PROVE Worked
  <2>1. ASSUME NEW v, At(u, "running"),
               client' = [client EXCEPT ![u].at = "command", ![u].vec = v]
        PROVE  Worked
    <3>1. CASE u = w
      BY <1>0, <2>1, <3>1 DEF ClientTyped, ClientRecord, At, Driven
    <3>2. CASE u # w
      BY <1>0, <2>1, <3>2 DEF ClientTyped
    <3> QED
      BY <3>1, <3>2
  <2> QED
    BY <1>2, <1>6, <2>1 DEF Call, Dies
<1>7. ASSUME NEW u \in Users, NEW v \in Vectors, Completes(u, v) PROVE Worked
  <2>1. CASE At(u, "command") /\ Goes(u, "waiting")
    BY <1>0, <2>1, MovesOne DEF At, Driven
  <2> QED
    BY <1>2, <1>7, <2>1 DEF Completes
<1>8. CASE DpcPulse
  BY <1>0, <1>8, PulseMoves DEF Driven
<1>9. ASSUME NEW u \in Users, Construct(u) PROVE Worked
  <2>1. [Out EXCEPT !.at = "device"].at = "device"
    BY DEF Out
  <2> QED
    BY <1>0, <1>9, <2>1 DEF Construct, ClientTyped, Driven
<1>10. ASSUME NEW u \in Users, Destruct(u) \/ EndStep(u) \/ Kill(u) PROVE Worked
  BY <1>1, <1>2, <1>10
  DEF Destruct, EndStep, ReleaseEvent, FreePool, UnmapNVMeReg, Release,
      UnmapPciReg, Kill, Dies, Driven
<1>11. CASE PnpStep
  BY <1>11 DEF PnpStep, BeginStart, GetAdapter, ConnectFails, StartDevice, StopDevice,
               clientVars
<1> QED
  BY <1>3, <1>4, <1>5, <1>6, <1>7, <1>8, <1>9, <1>10, <1>11 DEF NextLife, InitStep

LEMMA CreatedStep ==
  ASSUME TypeOKLife, OneAtATime', \A u \in Users : CreatedIsNotNull(u), NextLife,
         NEW w \in Users
  PROVE  CreatedIsNotNull(w)'
<1> SUFFICES ASSUME client'[w].at \in {"create", "sync", "open"} \cup Driven
             PROVE  CreatedIsNotNull(w)'
  BY DEF CreatedIsNotNull
<1>0. ClientTyped /\ TypeOKTable
  BY DEF TypeOKLife, ClientTyped, ClientRecord
<1>1. ASSUME NEW v \in Vectors, pEvent[v] # "null" PROVE pEvent'[v] # "null"
  <2>1. ASSUME NEW u \in Users, client'[u].at = "end_events" PROVE FALSE
    <3>1. u = w
      BY <2>1 DEF OneAtATime, Driven
    <3> QED
      BY <2>1, <3>1 DEF Driven
  <2> QED
    BY <1>1, <2>1, NullByFailure
<1>2. CASE client'[w].at \in Driven \/ client'[w] = client[w]
  <2>1. CASE client'[w].at \in Driven
    <3>1. client[w].at \in {"open"} \cup Driven /\ client'[w].num = client[w].num
      BY <2>1, DrivenMoves
    <3>2. \A v \in Vectors : v < client'[w].num => pEvent'[v] # "null"
      BY <1>1, <3>1 DEF CreatedIsNotNull
    <3> QED
      BY <2>1, <3>2 DEF CreatedIsNotNull, Driven
  <2>2. CASE client'[w] = client[w]
    BY <1>1, <2>2 DEF CreatedIsNotNull
  <2> QED
    BY <1>2, <2>1, <2>2
<1>3. CASE InitCtrl(w) /\ client'[w].at \notin Driven
  <2>1. Begins(w, "create")
    BY <1>0, <1>3, MovesOne DEF InitCtrl, Dies, Driven
  <2>2. client'[w].at = "create" /\ client'[w].i = 0
    BY <1>0, <2>1 DEF Begins, ClientTyped, ClientRecord
  <2> QED
    BY <2>2, VectorsAreNat DEF CreatedIsNotNull, Vectors, Driven
<1>4. CASE AcquireEvent(w) /\ client'[w] # client[w]
  <2>0. client[w].at = "create" /\ client[w].i \in 0 .. Messages
    BY <1>0, <1>4 DEF AcquireEvent, At, ClientTyped, ClientRecord
  <2>1. CASE CreateEvent(client[w].i) /\ Turn(w)
    <3>1. client'[w].at = "create" /\ client'[w].i = client[w].i + 1
      BY <1>0, <2>0, <2>1, MovesOne
    <3>2. client[w].i \in Vectors => pEvent'[client[w].i] = "live"
      BY <1>0, <2>1 DEF CreateEvent, TypeOKTable
    <3>3. ASSUME NEW v \in Vectors, v < client[w].i + 1 PROVE pEvent'[v] # "null"
      <4>1. v < client[w].i \/ v = client[w].i
        BY <2>0, <3>3, VectorsAreNat DEF Vectors
      <4> QED
        BY <1>1, <2>0, <3>2, <4>1 DEF CreatedIsNotNull
    <3> QED
      BY <3>1, <3>3 DEF CreatedIsNotNull, Driven
  <2>2. CASE LastCreated(w) /\ client' = [client EXCEPT ![w].at = "sync", ![w].num = granted]
    <3>1. client'[w].at = "sync" /\ client'[w].num = granted
      BY <1>0, <2>2 DEF ClientTyped, ClientRecord
    <3>2. ASSUME NEW v \in Vectors, v < granted PROVE pEvent[v] # "null"
      <4>1. granted <= client[w].i /\ granted \in Nat /\ v \in Nat
        BY <2>2, VectorsAreNat DEF LastCreated, TypeOKLife, TypeOKTable, Vectors
      <4>2. v < client[w].i
        BY <2>0, <3>2, <4>1
      <4> QED
        BY <2>0, <4>2 DEF CreatedIsNotNull
    <3> QED
      BY <1>1, <3>1, <3>2 DEF CreatedIsNotNull
  <2>3. ~Goes(w, "end_events") /\ ~Begins(w, "end_events")
    BY <1>0, MovesOne DEF Driven
  <2> QED
    BY <1>4, <2>1, <2>2, <2>3 DEF AcquireEvent
<1>5. CASE InitThread(w) \/ OpenEvents(w)
  <2>1. client[w].at \in {"sync", "open"}
    BY <1>5 DEF InitThread, OpenEvents, At
  <2>2. client'[w].at # "create" /\ client'[w].num = client[w].num
    BY <1>0, <1>5, <2>1, MovesOne DEF InitThread, OpenEvents, At
  <2> QED
    BY <1>1, <2>1, <2>2 DEF CreatedIsNotNull
<1> QED
  BY <1>2, <1>3, <1>4, <1>5, PreparingMoves DEF Preparing

\* Where clients come one after the other, a working client waits for the very
\* events the driver pulses, also after any number of failed CREATE_EVENTs.
THEOREM LoneChannelsAreDrivers == SpecLife /\ []OneAtATime => []ChannelIsDrivers
<1> DEFINE Created == \A u \in Users : CreatedIsNotNull(u)
<1>1. InitLife => Created
  BY DEF InitLife, Out, CreatedIsNotNull, Driven
<1>2. TypeOKLife /\ OneAtATime' /\ Created /\ [NextLife]_lifeVars => Created'
  <2>1. UNCHANGED lifeVars /\ Created => Created'
    BY DEF lifeVars, clientVars, tableVars, CreatedIsNotNull
  <2> QED
    BY <2>1, CreatedStep
<1>3. LifeInv /\ Created => ChannelIsDrivers
  <2> SUFFICES ASSUME LifeInv, Created, NEW u \in Users,
                      client[u].at \in {"running", "command", "waiting"},
                      NEW v \in Vectors, v < MaxVectors, v < client[u].num
               PROVE  pEvent[v] = "live"
    BY DEF ChannelIsDrivers
  <2>1. v \in Existing
    BY ExistingMembers DEF LifeInv, ClientHolds, Driven
  <2>2. pEvent[v] \in {"null", "live", "freed"} /\ pEvent[v] # "null"
    BY DEF LifeInv, TypeOKLife, TypeOKTable, CreatedIsNotNull, Driven
  <2> QED
    BY <2>1, <2>2 DEF LifeInv, FreedIsGone
<1>4. LifeInv => TypeOKLife
  BY DEF LifeInv
<1> QED
  BY <1>1, <1>2, <1>3, <1>4, LifeInvariant, PTL DEF SpecLife

\* So the DPC of a driver whose clients come one after the other finds the event
\* it was asked for, unless a process dies with a command or the DPC under way,
\* or goes into its destructor before the DPC is through.
THEOREM LoneClientsDpcFindsEvent == SpecLife /\ []OneAtATime => []DpcFindsEvent
<1> DEFINE Inv == Calm => DpcInv
<1>1. InitLife => Inv
  BY DEF InitLife, InitTable, DpcInv
<1>2. LifeInv /\ ChannelIsDrivers /\ Inv /\ [NextLife]_lifeVars => Inv'
  BY DpcInvStep
<1>3. Inv => DpcFindsEvent
  BY DEF Calm, DpcInv, DpcFindsEvent
<1> QED
  BY <1>1, <1>2, <1>3, LifeInvariant, LoneChannelsAreDrivers, PTL DEF SpecLife
=============================================================================
