------------------------- MODULE ConfigAccessProofs -------------------------
(***************************************************************************)
(* Proofs about ConfigAccess, for any processes, devices and addresses.    *)
(***************************************************************************)
EXTENDS ConfigAccess, FiniteSetTheorems, TLAPS

\* Every step of NextConfig is one of these, and none follows a crash.
LEMMA ConfigSteps ==
  ASSUME [NextConfig]_confVars
  PROVE  \/ /\ crashed = Null
            /\ \/ \E c \in Callers :
                    \/ \E a \in Addresses : StartLookup(c, a) \/ LookupFails(c, a)
                    \/ ListDevices(c) \/ StoreMatch(c) \/ ReleaseList(c)
                    \/ \E d \in {Own, secondary} : StartAccess(c, d)
                    \/ SendRequest(c) \/ BusCompletes(c) \/ CallDriverReturns(c)
                    \/ WaitForRequest(c) \/ EndAccess(c)
               \/ \E d \in Devices : DeviceArrives(d) \/ DeviceGoes(d) \/ DriverAttaches(d)
         \/ UNCHANGED confVars
  BY DEF NextConfig, CallerStep, AccessOwn, AccessSecondary

LEMMA PresentIsCounted ==
  ASSUME TypeOKConfig PROVE Present \subseteq Devices /\ Cardinality(Present) \in Nat
<1>1. Present \subseteq Devices
  BY DEF Present
<1>2. IsFiniteSet(Present)
  BY <1>1, DevicesFinite, FS_Subset
<1> QED
  BY <1>1, <1>2, FS_CardinalityType

\* The configuration IOCTLs keep the types.
THEOREM ConfigTypeCorrect == SpecConfig => []TypeOKConfig
<1> USE DevicesFinite DEF TypeOKConfig, LookupSteps, AccessSteps, NtSuccess, NoIrp
<1>1. InitConfig => TypeOKConfig
  <2> SUFFICES ASSUME InitConfig PROVE TypeOKConfig
    OBVIOUS
  <2>1. irp \in [Callers -> [at : {"none", "bus", "done"}, status : {"success", "error"},
                            signalled : BOOLEAN, moved : BOOLEAN]]
    BY DEF InitConfig
  <2>2. life \in [Devices -> {"new", "present", "gone"}]
    BY DEF InitConfig
  <2> QED
    BY <2>1, <2>2 DEF InitConfig
<1>2. TypeOKConfig /\ [NextConfig]_confVars => TypeOKConfig'
  <2> SUFFICES ASSUME TypeOKConfig, [NextConfig]_confVars PROVE TypeOKConfig'
    OBVIOUS
  <2> USE DEF histVars
  <2>1. ASSUME NEW c \in Callers, NEW a \in Addresses, StartLookup(c, a) \/ LookupFails(c, a)
        PROVE  TypeOKConfig'
    BY <2>1, PresentIsCounted DEF StartLookup, LookupFails
  <2>2. ASSUME NEW c \in Callers, ListDevices(c) PROVE TypeOKConfig'
    <3>1. PICK D \in SUBSET Devices : held' = [held EXCEPT ![c] = D]
      BY <2>2, PresentIsCounted DEF ListDevices
    <3>2. \E p \in {"examine", "overrun"} : at' = [at EXCEPT ![c] = p]
      BY <2>2 DEF ListDevices
    <3>3. /\ held' \in [Callers -> SUBSET Devices]
          /\ at' \in [Callers -> {"idle"} \cup LookupSteps \cup AccessSteps]
      BY <3>1, <3>2
    <3>4. /\ UNCHANGED <<bdf, life, attached, secondary, asked, room, target, irp, result>>
          /\ UNCHANGED <<disturbed, hotplug, crashed>>
      BY <2>2 DEF ListDevices
    <3> QED
      BY <3>3, <3>4
  <2>3. ASSUME NEW c \in Callers, StoreMatch(c) PROVE TypeOKConfig'
    <3>1. Matching(c) \subseteq Devices
      BY DEF Matching
    <3>2. secondary' \in Devices \cup {Null} /\ disturbed' \in [Callers -> BOOLEAN]
      BY <2>3, <3>1 DEF StoreMatch
    <3>3. /\ at' \in [Callers -> {"idle"} \cup LookupSteps \cup AccessSteps]
          /\ UNCHANGED <<bdf, life, attached, asked, room, target, held, irp, result, hotplug, crashed>>
      BY <2>3 DEF StoreMatch
    <3> QED
      BY <3>2, <3>3
  <2>4. ASSUME NEW c \in Callers, ReleaseList(c) PROVE TypeOKConfig'
    BY <2>4 DEF ReleaseList
  <2>5. ASSUME NEW c \in Callers, NEW d \in {Own, secondary}, StartAccess(c, d)
        PROVE  TypeOKConfig'
    <3>1. CASE d # Null /\ Exists(d)
      <4>1. d \in Devices /\ held' = [held EXCEPT ![c] = {d}] /\ crashed' = crashed
        BY <2>5, <3>1 DEF StartAccess
      <4> QED
        BY <2>5, <4>1 DEF StartAccess
    <3>2. CASE ~(d # Null /\ Exists(d))
      <4>1. held' = held /\ crashed' = c
        BY <2>5, <3>2 DEF StartAccess
      <4> QED
        BY <2>5, <4>1 DEF StartAccess
    <3> QED
      BY <3>1, <3>2
  <2>6. ASSUME NEW c \in Callers, SendRequest(c) PROVE TypeOKConfig'
    <3>1. StatusAtBus(target[c]) \subseteq {"success", "error"}
      BY DEF StatusAtBus
    <3>2. irp' \in [Callers -> [at : {"none", "bus", "done"}, status : {"success", "error"},
                               signalled : BOOLEAN, moved : BOOLEAN]]
      <4> DEFINE r(x) == [at |-> "bus", status |-> x, signalled |-> FALSE, moved |-> FALSE]
      <4>1. ASSUME NEW x \in StatusAtBus(target[c])
            PROVE  r(x) \in [at : {"none", "bus", "done"}, status : {"success", "error"},
                             signalled : BOOLEAN, moved : BOOLEAN]
        BY <3>1
      <4>2. (\E x \in StatusAtBus(target[c]) : irp' = [irp EXCEPT ![c] = r(x)]) \/ irp' = irp
        BY <2>6 DEF SendRequest
      <4> HIDE DEF r
      <4> QED
        BY <4>1, <4>2
    <3>3. at' \in [Callers -> {"idle"} \cup LookupSteps \cup AccessSteps]
          /\ result' \in [Callers -> {"error"} \cup NtSuccess]
      BY <2>6 DEF SendRequest
    <3> QED
      BY <2>6, <3>2, <3>3 DEF SendRequest
  <2>7. ASSUME NEW c \in Callers, BusCompletes(c) PROVE TypeOKConfig'
    <3>1. PICK s \in {"success", "error", irp[c].status}, m \in BOOLEAN :
            irp' = [irp EXCEPT ![c] =
              [at |-> "done", status |-> s, signalled |-> TRUE, moved |-> m]]
      BY <2>7 DEF BusCompletes
    <3>2. s \in {"success", "error"}
      OBVIOUS
    <3> QED
      BY <2>7, <3>1, <3>2 DEF BusCompletes
  <2>8. ASSUME NEW c \in Callers, CallDriverReturns(c) PROVE TypeOKConfig'
    <3>1. irp[c].status \in {"success", "error"}
      OBVIOUS
    <3>2. \E p \in {"end", "wait"}, r \in {"success", "error", "pending"} :
            at' = [at EXCEPT ![c] = p] /\ result' = [result EXCEPT ![c] = r]
      BY <2>8, <3>1 DEF CallDriverReturns
    <3>3. /\ at' \in [Callers -> {"idle"} \cup LookupSteps \cup AccessSteps]
          /\ result' \in [Callers -> {"error"} \cup NtSuccess]
      BY <3>2
    <3> QED
      BY <2>8, <3>3 DEF CallDriverReturns
  <2>9. ASSUME NEW c \in Callers, WaitForRequest(c) PROVE TypeOKConfig'
    BY <2>9 DEF WaitForRequest
  <2>10. ASSUME NEW c \in Callers, EndAccess(c) PROVE TypeOKConfig'
    BY <2>10 DEF EndAccess
  <2>11. ASSUME NEW d \in Devices, DeviceArrives(d) \/ DeviceGoes(d) \/ DriverAttaches(d)
         PROVE  TypeOKConfig'
    BY <2>11 DEF DeviceArrives, DeviceGoes, DriverAttaches
  <2>12. CASE UNCHANGED confVars
    BY <2>12 DEF confVars
  <2> QED
    BY <2>1, <2>2, <2>3, <2>4, <2>5, <2>6, <2>7, <2>8, <2>9, <2>10, <2>11, <2>12, ConfigSteps
<1> QED
  BY <1>1, <1>2, PTL DEF SpecConfig

-----------------------------------------------------------------------------
(* One access: what its request is at each of its steps.                   *)

\* A request exists from its sending to the end of the access, an access holds
\* its target unless it was its own undoing, and success needs moved data
\* or this driver in the target's stack.
AccessInv ==
  \A c \in Callers :
    /\ at[c] \in AccessSteps => target[c] \in held[c] \/ (at[c] = "build" /\ crashed # Null)
    /\ at[c] = "idle" => held[c] = {}
    /\ at[c] \in {"calling", "wait"} => irp[c].at \in {"bus", "done"}
    /\ at[c] \notin {"calling", "wait", "end"} => irp[c].at = "none"
    /\ at[c] = "end" => irp[c].at # "bus"
    /\ irp[c].signalled <=> irp[c].at = "done"
    /\ irp[c].moved => irp[c].at = "done"
    /\ irp[c].at # "none" /\ irp[c].status = "success" => irp[c].moved \/ target[c] \in attached
    /\ at[c] = "end" /\ result[c] \in NtSuccess =>
         irp[c].at = "done" /\ irp[c].status = "success"

LEMMA AccessStep ==
  ASSUME TypeOKConfig, AccessInv, [NextConfig]_confVars PROVE AccessInv'
<1> USE DEF TypeOKConfig, AccessInv, LookupSteps, AccessSteps, NtSuccess, NoIrp, histVars
<1>1. ASSUME NEW c \in Callers, NEW a \in Addresses, StartLookup(c, a) \/ LookupFails(c, a)
        PROVE  AccessInv'
  BY <1>1 DEF StartLookup, LookupFails
<1>2. ASSUME NEW c \in Callers, ListDevices(c) PROVE AccessInv'
  BY <1>2 DEF ListDevices
<1>3. ASSUME NEW c \in Callers, StoreMatch(c) PROVE AccessInv'
  BY <1>3 DEF StoreMatch
<1>4. ASSUME NEW c \in Callers, crashed = Null, ReleaseList(c) PROVE AccessInv'
  BY <1>4 DEF ReleaseList
<1>5. ASSUME NEW c \in Callers, NEW d \in {Own, secondary}, StartAccess(c, d) PROVE AccessInv'
  <2>1. crashed' = crashed \/ (crashed' = c /\ crashed' # Null)
    <3>1. c # Null
      BY NullIsApart
    <3>2. crashed' = crashed \/ crashed' = c
      BY <1>5 DEF StartAccess
    <3> QED
      BY <3>1, <3>2
  <2>2. /\ at'[c] = "build" /\ at[c] = "idle" /\ target'[c] = d
        /\ UNCHANGED <<irp, result, attached>>
        /\ held'[c] = {d} \/ crashed' # Null
        /\ \A x \in Callers \ {c} : at'[x] = at[x] /\ target'[x] = target[x] /\ held'[x] = held[x]
    <3>1. /\ at'[c] = "build" /\ at[c] = "idle" /\ target'[c] = d
          /\ UNCHANGED <<irp, result, attached>>
          /\ \A x \in Callers \ {c} : at'[x] = at[x] /\ target'[x] = target[x]
      BY <1>5 DEF StartAccess
    <3>2. CASE d # Null /\ Exists(d)
      BY <1>5, <3>1, <3>2 DEF StartAccess
    <3>3. CASE ~(d # Null /\ Exists(d))
      <4>1. crashed' = c /\ held' = held
        BY <1>5, <3>3 DEF StartAccess
      <4> QED
        BY <3>1, <4>1, NullIsApart
    <3> QED
      BY <3>2, <3>3
  <2>3. crashed # Null => crashed' # Null
    BY <2>1
  <2> QED
    BY <2>2, <2>3
<1>6. ASSUME NEW c \in Callers, crashed = Null, SendRequest(c) PROVE AccessInv'
  <2>1. CASE irp' = irp /\ at' = [at EXCEPT ![c] = "end"] /\ result' = [result EXCEPT ![c] = "error"]
    BY <1>6, <2>1 DEF SendRequest
  <2>2. ASSUME NEW x \in StatusAtBus(target[c]),
               irp' = [irp EXCEPT ![c] = [at |-> "bus", status |-> x,
                                          signalled |-> FALSE, moved |-> FALSE]],
               at' = [at EXCEPT ![c] = "calling"], UNCHANGED result
        PROVE  AccessInv'
    <3>1. x = "success" => target[c] \in attached
      BY DEF StatusAtBus
    <3> QED
      BY <1>6, <2>2, <3>1 DEF SendRequest
  <2> QED
    BY <1>6, <2>1, <2>2 DEF SendRequest
<1>7. ASSUME NEW c \in Callers, BusCompletes(c) PROVE AccessInv'
  <2>1. PICK s \in {"success", "error", irp[c].status}, m \in BOOLEAN :
          /\ m => s = "success"
          /\ s = "success" /\ ~m => irp[c].status = "success"
          /\ irp' = [irp EXCEPT ![c] =
               [at |-> "done", status |-> s, signalled |-> TRUE, moved |-> m]]
    BY <1>7 DEF BusCompletes
  <2>2. irp'[c].at = "done" /\ irp'[c].signalled /\ irp'[c].status = s /\ irp'[c].moved = m
    BY <2>1
  <2>3. \A x \in Callers \ {c} : irp'[x] = irp[x]
    BY <2>1
  <2>4. irp[c].at = "bus" /\ UNCHANGED <<at, target, held, result, crashed, attached>>
    BY <1>7 DEF BusCompletes
  <2>5. at[c] \in {"calling", "wait"}
    BY <2>4
  <2>6. s = "success" => m \/ target[c] \in attached
    BY <2>1, <2>4
  <2> QED
    BY <2>2, <2>3, <2>4, <2>5, <2>6
<1>8. ASSUME NEW c \in Callers, crashed = Null, CallDriverReturns(c) PROVE AccessInv'
  BY <1>8 DEF CallDriverReturns
<1>9. ASSUME NEW c \in Callers, crashed = Null, WaitForRequest(c) PROVE AccessInv'
  BY <1>9 DEF WaitForRequest
<1>10. ASSUME NEW c \in Callers, crashed = Null, EndAccess(c) PROVE AccessInv'
  BY <1>10 DEF EndAccess
<1>11. ASSUME NEW d \in Devices, DeviceArrives(d) \/ DeviceGoes(d) \/ DriverAttaches(d)
       PROVE  AccessInv'
  BY <1>11 DEF DeviceArrives, DeviceGoes, DriverAttaches
<1>12. CASE UNCHANGED confVars
  BY <1>12 DEF confVars
<1> QED
  BY <1>1, <1>2, <1>3, <1>4, <1>5, <1>6, <1>7, <1>8, <1>9, <1>10, <1>11, <1>12, ConfigSteps

LEMMA AccessInvariant == SpecConfig => []AccessInv
<1>1. InitConfig => AccessInv
  BY DEF InitConfig, AccessInv, LookupSteps, AccessSteps, NoIrp
<1> QED
  BY <1>1, AccessStep, ConfigTypeCorrect, PTL DEF SpecConfig

\* The bus driver never works on a request whose caller has gone on, and calls
\* that are over hold no device.
THEOREM RequestsAreCovered == SpecConfig => []RequestIsCovered
<1>1. TypeOKConfig /\ AccessInv => RequestIsCovered
  BY DEF TypeOKConfig, AccessInv, RequestIsCovered, LookupSteps, AccessSteps
<1> QED
  BY <1>1, AccessInvariant, ConfigTypeCorrect, PTL

\* The success of an access means that its data was moved, for any devices, unless
\* this driver is in the stack of the target.
THEOREM StatusesAreFromBus == SpecConfig => []StatusIsFromBus
<1>1. AccessInv => StatusIsFromBus
  BY DEF AccessInv, StatusIsFromBus
<1> QED
  BY <1>1, AccessInvariant, PTL

\* A thread in KeWaitForSingleObject whose event is not set has its request with
\* the bus driver: no completion comes before the wait and is lost to it.
WaitIsAnswered ==
  \A c \in Callers : at[c] = "wait" /\ ~irp[c].signalled => irp[c].at = "bus"

\* The wait is infinite and the only step of a call that another has to make
\* possible, so this is what CallsComplete says of the states in which it stops.
THEOREM WaitsAreAnswered == SpecConfig => []WaitIsAnswered
<1>1. AccessInv => WaitIsAnswered
  BY DEF AccessInv, WaitIsAnswered
<1> QED
  BY <1>1, AccessInvariant, PTL

-----------------------------------------------------------------------------
(* The lookup and the pointer it leaves.                                   *)

\* Without hotplug a lookup has room for all devices, what is listed or stored
\* is present, and an undisturbed process has its device behind the pointer.
LookupInv ==
  /\ life[Own] = "present"
  /\ ~hotplug => /\ secondary # Null => secondary \in Present
                 /\ \A c \in Callers :
                      /\ at[c] = "sized" => room[c] = Cardinality(Present)
                      /\ at[c] = "examine" => held[c] \subseteq Present
                      /\ at[c] # "overrun"
                 /\ crashed # Null => disturbed[crashed] /\ at[crashed] = "build"
  /\ \A c \in Callers :
       ~disturbed[c] =>
         /\ at[c] \notin {"sized", "examine", "overrun"} /\ crashed # c =>
              secondary \in Devices /\ bdf[secondary] = asked[c]
         /\ at[c] \in AccessSteps /\ target[c] # Own =>
              target[c] = secondary /\ secondary \in Devices /\ bdf[secondary] = asked[c]

LEMMA LookupStep ==
  ASSUME TypeOKConfig, LookupInv, [NextConfig]_confVars PROVE LookupInv'
<1> USE DevicesFinite, NullIsApart
    DEF TypeOKConfig, LookupInv, LookupSteps, AccessSteps, histVars
<1>p. /\ life' = life => Present' = Present
      /\ \A d \in Devices : d \in Present <=> life[d] = "present"
  BY DEF Present
<1>1. ASSUME NEW c \in Callers, NEW a \in Addresses, crashed = Null,
             StartLookup(c, a) \/ LookupFails(c, a)
      PROVE  LookupInv'
  <2>1. CASE StartLookup(c, a)
    BY <1>1, <1>p, <2>1 DEF StartLookup
  <2>2. CASE LookupFails(c, a)
    BY <1>1, <1>p, <2>2 DEF LookupFails
  <2> QED
    BY <1>1, <2>1, <2>2
<1>2. ASSUME NEW c \in Callers, crashed = Null, ListDevices(c) PROVE LookupInv'
  BY <1>2, <1>p, PresentIsCounted DEF ListDevices
<1>3. ASSUME NEW c \in Callers, crashed = Null, StoreMatch(c) PROVE LookupInv'
  <2>1. /\ UNCHANGED <<bdf, life, attached, asked, room, target, held, hotplug, crashed>>
        /\ at[c] = "examine" /\ at'[c] = "release" /\ Present' = Present
        /\ \A x \in Callers \ {c} : at'[x] = at[x]
    BY <1>3, <1>p DEF StoreMatch
  <2>2. CASE \E d \in Matching(c) : secondary' = d /\ disturbed' = [x \in Callers |-> x # c]
    <3>1. PICK d \in Matching(c) : secondary' = d /\ disturbed' = [x \in Callers |-> x # c]
      BY <2>2
    <3>2. d \in held[c] /\ d \in Devices /\ bdf[d] = asked[c] /\ d # Null
      BY NullIsApart DEF Matching
    <3>3. ~disturbed'[c] /\ \A x \in Callers \ {c} : disturbed'[x]
      BY <3>1
    <3>4. ~hotplug => d \in Present
      BY <2>1, <3>2
    <3> QED
      BY <1>3, <2>1, <3>1, <3>2, <3>3, <3>4
  <2>3. CASE disturbed' = [disturbed EXCEPT ![c] = TRUE] /\ secondary' = secondary
    BY <1>3, <2>1, <2>3
  <2> QED
    BY <1>3, <2>2, <2>3 DEF StoreMatch
<1>4. ASSUME NEW c \in Callers, crashed = Null, ReleaseList(c) PROVE LookupInv'
  BY <1>4, <1>p DEF ReleaseList
<1>5. ASSUME NEW c \in Callers, NEW d \in {Own, secondary}, crashed = Null, StartAccess(c, d)
      PROVE  LookupInv'
  <2>1. /\ UNCHANGED <<bdf, life, secondary, asked, room, disturbed, hotplug>>
        /\ Present' = Present
        /\ at[c] = "idle" /\ at'[c] = "build" /\ target'[c] = d
        /\ \A x \in Callers \ {c} : at'[x] = at[x] /\ target'[x] = target[x]
    BY <1>5, <1>p DEF StartAccess
  <2>2. \A x \in Callers \ {c} : held'[x] = held[x]
    BY <1>5 DEF StartAccess
  <2>3. crashed' = Null \/ (crashed' = c /\ ~(d # Null /\ Exists(d)))
    BY <1>5 DEF StartAccess
  <2>4. ~hotplug /\ crashed' # Null => disturbed[c]
    BY <1>5, <1>p, <2>1, <2>3 DEF Exists
  <2>5. ~hotplug' => /\ secondary' # Null => secondary' \in Present'
                     /\ \A x \in Callers :
                          /\ at'[x] = "sized" => room'[x] = Cardinality(Present')
                          /\ at'[x] = "examine" => held'[x] \subseteq Present'
                          /\ at'[x] # "overrun"
                     /\ crashed' # Null => disturbed'[crashed'] /\ at'[crashed'] = "build"
    BY <2>1, <2>2, <2>3, <2>4
  <2>6. \A x \in Callers :
          ~disturbed'[x] =>
            /\ at'[x] \notin {"sized", "examine", "overrun"} /\ crashed' # x =>
                 secondary' \in Devices /\ bdf'[secondary'] = asked'[x]
            /\ at'[x] \in AccessSteps /\ target'[x] # Own =>
                 target'[x] = secondary' /\ secondary' \in Devices
                   /\ bdf'[secondary'] = asked'[x]
    <3> SUFFICES ASSUME NEW x \in Callers, ~disturbed'[x]
                 PROVE  /\ at'[x] \notin {"sized", "examine", "overrun"} /\ crashed' # x =>
                             secondary' \in Devices /\ bdf'[secondary'] = asked'[x]
                        /\ at'[x] \in AccessSteps /\ target'[x] # Own =>
                             target'[x] = secondary' /\ secondary' \in Devices
                               /\ bdf'[secondary'] = asked'[x]
      OBVIOUS
    <3>1. CASE x = c
      <4>1. secondary \in Devices /\ bdf[secondary] = asked[c]
        BY <1>5, <2>1, <3>1
      <4> QED
        BY <1>5, <2>1, <3>1, <4>1
    <3>2. CASE x # c
      BY <1>5, <2>1, <3>2
    <3> QED
      BY <3>1, <3>2
  <2>7. life'[Own] = "present"
    BY <2>1
  <2> QED
    BY <2>5, <2>6, <2>7 DEF LookupInv
<1>6. ASSUME NEW c \in Callers, crashed = Null, SendRequest(c) PROVE LookupInv'
  <2>1. /\ UNCHANGED <<bdf, life, attached, secondary, asked, room, target, held, disturbed>>
        /\ UNCHANGED <<hotplug, crashed>>
        /\ at[c] = "build" /\ at'[c] \in {"calling", "end"} /\ Present' = Present
        /\ \A x \in Callers \ {c} : at'[x] = at[x]
    BY <1>6, <1>p DEF SendRequest
  <2> QED
    BY <1>6, <2>1
<1>7. ASSUME NEW c \in Callers, crashed = Null, BusCompletes(c) PROVE LookupInv'
  BY <1>7, <1>p DEF BusCompletes
<1>8. ASSUME NEW c \in Callers, crashed = Null, CallDriverReturns(c) PROVE LookupInv'
  <2>1. /\ UNCHANGED <<bdf, life, attached, secondary, asked, room, target, held, disturbed>>
        /\ UNCHANGED <<hotplug, crashed>>
        /\ at[c] = "calling" /\ at'[c] \in {"wait", "end"} /\ Present' = Present
        /\ \A x \in Callers \ {c} : at'[x] = at[x]
    BY <1>8, <1>p DEF CallDriverReturns
  <2> QED
    BY <1>8, <2>1
<1>9. ASSUME NEW c \in Callers, crashed = Null, WaitForRequest(c) PROVE LookupInv'
  BY <1>9, <1>p DEF WaitForRequest
<1>10. ASSUME NEW c \in Callers, crashed = Null, EndAccess(c) PROVE LookupInv'
  BY <1>10, <1>p DEF EndAccess
<1>11. ASSUME NEW d \in Devices, crashed = Null, DeviceArrives(d) PROVE LookupInv'
  <2>1. /\ UNCHANGED <<bdf, attached, secondary, at, asked, room, target, held, disturbed, crashed>>
        /\ ~hotplug' => ~hotplug /\ \A c \in Callers : at[c] # "sized"
        /\ Present \subseteq Present' /\ life'[Own] = "present"
    BY <1>11 DEF DeviceArrives, Present
  <2> QED
    BY <1>11, <2>1
<1>12. ASSUME NEW d \in Devices, crashed = Null, DeviceGoes(d) PROVE LookupInv'
  <2>1. /\ UNCHANGED <<bdf, attached, secondary, at, asked, room, target, held, disturbed, crashed>>
        /\ hotplug' /\ life'[Own] = "present"
    BY <1>12 DEF DeviceGoes
  <2> QED
    BY <1>12, <2>1
<1>13. ASSUME NEW d \in Devices, DriverAttaches(d) PROVE LookupInv'
  BY <1>13, <1>p DEF DriverAttaches
<1>14. CASE UNCHANGED confVars
  BY <1>14, <1>p DEF confVars
<1> QED
  BY <1>1, <1>2, <1>3, <1>4, <1>5, <1>6, <1>7, <1>8, <1>9, <1>10, <1>11, <1>12, <1>13,
     <1>14, ConfigSteps

\* However lookups and accesses of any number of processes interleave, an
\* access reaches the device looked up, and only hotplug or an access after a
\* disturbed lookup does harm.
THEOREM LookupsServe == SpecConfig => []LookupServes
<1>1. InitConfig => LookupInv
  BY NullIsApart, DevicesFinite DEF InitConfig, LookupInv, AccessSteps
<1>2. LookupInv => LookupServes
  BY DEF LookupInv, LookupServes
<1> QED
  BY <1>1, <1>2, LookupStep, ConfigTypeCorrect, PTL DEF SpecConfig
=============================================================================
