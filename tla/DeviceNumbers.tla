--------------------------- MODULE DeviceNumbers ---------------------------
(***************************************************************************)
(* How the driver names the devices it is given: AddDevice takes the       *)
(* lowest free number of gbDeviceNumber, creates the device object and the *)
(* symbolic link of that number, and RemoveDevice undoes this and gives    *)
(* the number back.  Adding and removing different devices may overlap.    *)
(* With every number taken AddDevice goes on with number 0, and an         *)
(* AddDevice that fails later keeps its number and its device object.      *)
(***************************************************************************)
EXTENDS Naturals

CONSTANTS
  Devices,        \* the devices on the bus (their PDOs)
  MaxDevices,     \* MAX_DEVICE_COUNT
  ScanLimit       \* how many numbers CNVMe::initDevice tries

None == "none"
ASSUME DevicesAssumption == None \notin Devices
ASSUME NumbersAssumption == MaxDevices \in Nat \ {0} /\ ScanLimit \in 0 .. MaxDevices

Numbers == 0 .. MaxDevices - 1

VARIABLES
  taken,      \* the numbers n with gbDeviceNumber[n] set
  object,     \* object[n]: the device whose object is \Device\WINPCIn
  link,       \* link[n]: where \DosDevices\WINPCIn leads
  dev,        \* dev[d]: how far adding or removing d has come, its number
  exhausted   \* history: some AddDevice found every number taken

numVars == <<taken, object, link, dev, exhausted>>

Places == {"absent", "numbered", "created", "attached", "added", "refused",
           "unlinked", "deleted"}

TypeOKNumbers ==
  /\ taken \subseteq Numbers
  /\ object \in [Numbers -> Devices \cup {None}]
  /\ link \in [Numbers -> Devices \cup {None}]
  /\ dev \in [Devices -> [at : Places, num : Numbers]]
  /\ exhausted \in BOOLEAN

InitNumbers ==
  /\ taken = {}
  /\ object = [n \in Numbers |-> None]
  /\ link = [n \in Numbers |-> None]
  /\ dev = [d \in Devices |-> [at |-> "absent", num |-> 0]]
  /\ exhausted = FALSE

Goes(d, place) == dev' = [dev EXCEPT ![d].at = place]
Absent(d) == dev' = [dev EXCEPT ![d] = [at |-> "absent", num |-> 0]]

-----------------------------------------------------------------------------
(* WINPCIAddDevice.                                                        *)

\* Fault: without a free number the loop's last count is used.
PickNumberPastEnd(d) ==
  /\ dev[d].at = "absent"
  /\ \E n \in Numbers \cup {MaxDevices} :
       /\ n \notin taken /\ \A m \in Numbers \ taken : n <= m
       /\ taken' = taken \cup {n}
       /\ dev' = [dev EXCEPT ![d] = [at |-> "numbered", num |-> n]]
  /\ UNCHANGED <<object, link, exhausted>>

\* The scan of gbDeviceNumber, under gDeviceCountLocker.
PickNumber(d) ==
  /\ dev[d].at = "absent"
  /\ \/ \E n \in Numbers \ taken :
          /\ \A m \in Numbers \ taken : n <= m
          /\ taken' = taken \cup {n}
          /\ dev' = [dev EXCEPT ![d] = [at |-> "numbered", num |-> n]]
          /\ UNCHANGED exhausted
     \/ /\ taken = Numbers
        /\ dev' = [dev EXCEPT ![d] = [at |-> "numbered", num |-> 0]]
        /\ exhausted' = TRUE
        /\ UNCHANGED taken
  /\ UNCHANGED <<object, link>>

\* IoCreateDevice refuses a name that exists, and may fail anyway.
CreateDevice(d) ==
  LET n == dev[d].num IN
  /\ dev[d].at = "numbered"
  /\ \/ object[n] = None /\ object' = [object EXCEPT ![n] = d] /\ Goes(d, "created")
     \/ Absent(d) /\ UNCHANGED object
  /\ UNCHANGED <<taken, link, exhausted>>

\* IoAttachDeviceToDeviceStackSafe; on failure the object stays behind.
AttachDevice(d) ==
  /\ dev[d].at = "created"
  /\ Goes(d, "attached") \/ Absent(d)
  /\ UNCHANGED <<taken, object, link, exhausted>>

\* IoCreateSymbolicLink; on failure the link of that name is deleted and the
\* creation tried once more.  A device refused now is in its stack already, so
\* a remove still reaches it.
CreateLink(d) ==
  LET n == dev[d].num IN
  /\ dev[d].at = "attached"
  /\ \/ link' = [link EXCEPT ![n] = d] /\ Goes(d, "added")
     \/ link' = [link EXCEPT ![n] = None] /\ Goes(d, "refused")
  /\ UNCHANGED <<taken, object, exhausted>>

-----------------------------------------------------------------------------
(* HandleRemoveDevice.                                                     *)

\* IoDeleteSymbolicLink deletes the link of that name.
DeleteLink(d) ==
  /\ dev[d].at \in {"added", "refused"}
  /\ link' = [link EXCEPT ![dev[d].num] = None]
  /\ Goes(d, "unlinked")
  /\ UNCHANGED <<taken, object, exhausted>>

\* Fault: the device object is not deleted.
KeepsObject(d) ==
  /\ dev[d].at = "unlinked"
  /\ Goes(d, "deleted")
  /\ UNCHANGED <<taken, object, link, exhausted>>

\* IoDetachDevice and IoDeleteDevice.
DeleteDevice(d) ==
  /\ dev[d].at = "unlinked"
  /\ object' = [object EXCEPT ![dev[d].num] = None]
  /\ Goes(d, "deleted")
  /\ UNCHANGED <<taken, link, exhausted>>

\* Fault: the link is deleted again, after the device object.
DeletesForeignLink(d) ==
  LET n == dev[d].num IN
  /\ dev[d].at = "deleted"
  /\ taken' = taken \ {n}
  /\ link' = [link EXCEPT ![n] = None]
  /\ Absent(d)
  /\ UNCHANGED <<object, exhausted>>

\* gbDeviceNumber[devCounter] = FALSE, under gDeviceCountLocker.
FreeNumber(d) ==
  /\ dev[d].at = "deleted"
  /\ taken' = taken \ {dev[d].num}
  /\ Absent(d)
  /\ UNCHANGED <<object, link, exhausted>>

\* CNVMe::initDevice opens one number after the other and asks for its address.
FoundByInitDevice(d) == \E i \in 0 .. ScanLimit - 1 : link[i] = d

NextNumbers ==
  \E d \in Devices : \/ PickNumber(d) \/ CreateDevice(d) \/ AttachDevice(d) \/ CreateLink(d)
                     \/ DeleteLink(d) \/ DeleteDevice(d) \/ FreeNumber(d)

SpecNumbers == InitNumbers /\ [][NextNumbers]_numVars

-----------------------------------------------------------------------------
\* Opening a device by its link reaches that device and no other, also when
\* number 0 is used beyond the limit.
LinkLeadsToDevice ==
  \A d \in Devices : dev[d].at = "added" =>
    link[dev[d].num] = d /\ object[dev[d].num] = d

\* A number given back leaves no name behind, so AddDevice never meets a name
\* that exists, as long as the numbers last.
FreeNumberIsUnused ==
  ~exhausted => \A n \in Numbers \ taken : object[n] = None /\ link[n] = None

\* initDevice finds every device that was added.
ReachableByBdf == \A d \in Devices : dev[d].at = "added" => FoundByInitDevice(d)
=============================================================================
