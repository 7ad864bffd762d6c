------------------------ MODULE DeviceNumbersProofs ------------------------
(***************************************************************************)
(* Proofs about DeviceNumbers, for any devices and any limit on numbers.   *)
(***************************************************************************)
EXTENDS DeviceNumbers, TLAPS

\* Number 0, which AddDevice falls back to, is within the table.
LEMMA ZeroIsANumber == 0 \in Numbers
  BY NumbersAssumption DEF Numbers

\* AddDevice and RemoveDevice keep the types of the tables.
THEOREM NumbersTypeCorrect == SpecNumbers => []TypeOKNumbers
<1> USE DevicesAssumption, ZeroIsANumber DEF TypeOKNumbers
<1>1. InitNumbers => TypeOKNumbers
  <2> SUFFICES ASSUME InitNumbers PROVE TypeOKNumbers
    OBVIOUS
  <2> USE DEF InitNumbers
  <2>1. [at |-> "absent", num |-> 0] \in [at : Places, num : Numbers]
    BY DEF Places
  <2>2. dev \in [Devices -> [at : Places, num : Numbers]]
    BY <2>1
  <2>3. object \in [Numbers -> Devices \cup {None}] /\ link \in [Numbers -> Devices \cup {None}]
    OBVIOUS
  <2> QED
    BY <2>2, <2>3
<1>2. TypeOKNumbers /\ [NextNumbers]_numVars => TypeOKNumbers'
  <2> SUFFICES ASSUME TypeOKNumbers, [NextNumbers]_numVars PROVE TypeOKNumbers'
    OBVIOUS
  <2> USE DEF Goes, Absent, Places
  <2>1. ASSUME NEW d \in Devices, PickNumber(d) PROVE TypeOKNumbers'
    <3>1. \A n \in Numbers : [at |-> "numbered", num |-> n] \in [at : Places, num : Numbers]
      OBVIOUS
    <3>2. PICK n \in Numbers : dev' = [dev EXCEPT ![d] = [at |-> "numbered", num |-> n]]
      BY <2>1 DEF PickNumber
    <3>3. dev' \in [Devices -> [at : Places, num : Numbers]]
      BY <3>1, <3>2
    <3>4. taken' \subseteq Numbers /\ exhausted' \in BOOLEAN
      BY <2>1 DEF PickNumber
    <3> QED
      BY <2>1, <3>3, <3>4 DEF PickNumber
  <2>2. ASSUME NEW d \in Devices, CreateDevice(d) PROVE TypeOKNumbers'
    BY <2>2 DEF CreateDevice
  <2>3. ASSUME NEW d \in Devices, AttachDevice(d) PROVE TypeOKNumbers'
    BY <2>3 DEF AttachDevice
  <2>4. ASSUME NEW d \in Devices, CreateLink(d) PROVE TypeOKNumbers'
    BY <2>4 DEF CreateLink
  <2>5. ASSUME NEW d \in Devices, DeleteLink(d) PROVE TypeOKNumbers'
    BY <2>5 DEF DeleteLink
  <2>6. ASSUME NEW d \in Devices, DeleteDevice(d) PROVE TypeOKNumbers'
    BY <2>6 DEF DeleteDevice
  <2>7. ASSUME NEW d \in Devices, FreeNumber(d) PROVE TypeOKNumbers'
    BY <2>7 DEF FreeNumber
  <2>8. ASSUME UNCHANGED numVars PROVE TypeOKNumbers'
    BY <2>8 DEF numVars
  <2> QED
    BY <2>1, <2>2, <2>3, <2>4, <2>5, <2>6, <2>7, <2>8 DEF NextNumbers
<1> QED
  BY <1>1, <1>2, PTL DEF SpecNumbers

-----------------------------------------------------------------------------
\* A device between its creation and its deletion has the object of its number,
\* so no two such devices share one.
OwnsObject ==
  \A d \in Devices :
    dev[d].at \in {"created", "attached", "added", "refused", "unlinked"} =>
      object[dev[d].num] = d

OwnsLink == \A d \in Devices : dev[d].at = "added" => link[dev[d].num] = d

LinkInv == OwnsObject /\ OwnsLink

\* Opening a device by its link reaches it, with any number of devices, also
\* after number 0 was used twice.
THEOREM LinksAreRight == SpecNumbers => []LinkLeadsToDevice
<1> USE DevicesAssumption, NumbersAssumption
<1>1. InitNumbers => LinkInv
  BY DEF InitNumbers, LinkInv, OwnsObject, OwnsLink
<1>2. TypeOKNumbers /\ LinkInv /\ [NextNumbers]_numVars => LinkInv'
  <2> SUFFICES ASSUME TypeOKNumbers, LinkInv, [NextNumbers]_numVars PROVE LinkInv'
    OBVIOUS
  <2> USE DEF TypeOKNumbers, LinkInv, OwnsObject, OwnsLink, Goes, Absent, Places
  <2>1. ASSUME NEW d \in Devices, PickNumber(d) PROVE LinkInv'
    BY <2>1 DEF PickNumber
  <2>2. ASSUME NEW d \in Devices, CreateDevice(d) PROVE LinkInv'
    BY <2>2 DEF CreateDevice
  <2>3. ASSUME NEW d \in Devices, AttachDevice(d) PROVE LinkInv'
    BY <2>3 DEF AttachDevice
  <2>4. ASSUME NEW d \in Devices, CreateLink(d) PROVE LinkInv'
    BY <2>4 DEF CreateLink
  <2>5. ASSUME NEW d \in Devices, DeleteLink(d) PROVE LinkInv'
    BY <2>5 DEF DeleteLink
  <2>6. ASSUME NEW d \in Devices, DeleteDevice(d) PROVE LinkInv'
    BY <2>6 DEF DeleteDevice
  <2>7. ASSUME NEW d \in Devices, FreeNumber(d) PROVE LinkInv'
    BY <2>7 DEF FreeNumber
  <2>8. ASSUME UNCHANGED numVars PROVE LinkInv'
    BY <2>8 DEF numVars
  <2> QED
    BY <2>1, <2>2, <2>3, <2>4, <2>5, <2>6, <2>7, <2>8 DEF NextNumbers
<1>3. LinkInv => LinkLeadsToDevice
  BY DEF LinkInv, OwnsObject, OwnsLink, LinkLeadsToDevice
<1> QED
  BY <1>1, <1>2, <1>3, NumbersTypeCorrect, PTL DEF SpecNumbers

-----------------------------------------------------------------------------
\* While the numbers last: a device under way holds its number alone,
NumbersAreHeld ==
  /\ \A d \in Devices : dev[d].at # "absent" => dev[d].num \in taken
  /\ \A d, e \in Devices :
       d # e /\ dev[d].at # "absent" /\ dev[e].at # "absent" => dev[d].num # dev[e].num

\* and the names of its number are gone again when the number is given back.
NamesAreGone ==
  /\ \A n \in Numbers \ taken : object[n] = None /\ link[n] = None
  /\ \A d \in Devices :
       /\ dev[d].at = "deleted" => object[dev[d].num] = None
       /\ dev[d].at \in {"unlinked", "deleted"} => link[dev[d].num] = None

FreeInv == ~exhausted => NumbersAreHeld /\ NamesAreGone

\* Until the numbers run out, no free number has a name left over.
THEOREM FreeNumbersAreUnused == SpecNumbers => []FreeNumberIsUnused
<1> USE DevicesAssumption, NumbersAssumption
<1>1. InitNumbers => FreeInv
  BY DEF InitNumbers, FreeInv, NumbersAreHeld, NamesAreGone
<1>2. TypeOKNumbers /\ FreeInv /\ [NextNumbers]_numVars => FreeInv'
  <2> SUFFICES ASSUME TypeOKNumbers, FreeInv, [NextNumbers]_numVars, ~exhausted'
               PROVE  (NumbersAreHeld /\ NamesAreGone)'
    BY DEF FreeInv
  <2>0. ~exhausted /\ NumbersAreHeld /\ NamesAreGone
    BY DEF NextNumbers, PickNumber, CreateDevice, AttachDevice, CreateLink,
           DeleteLink, DeleteDevice, FreeNumber, numVars, FreeInv
  <2> USE <2>0 DEF TypeOKNumbers, NumbersAreHeld, NamesAreGone, Goes, Absent, Places
  <2>1. ASSUME NEW d \in Devices, PickNumber(d) PROVE (NumbersAreHeld /\ NamesAreGone)'
    <3>1. PICK n \in Numbers \ taken :
            /\ taken' = taken \cup {n}
            /\ dev' = [dev EXCEPT ![d] = [at |-> "numbered", num |-> n]]
      BY <2>1 DEF PickNumber
    <3>2. \A e \in Devices : dev'[e] = IF e = d THEN [at |-> "numbered", num |-> n]
                                               ELSE dev[e]
      BY <3>1
    <3>3. NumbersAreHeld'
      BY <2>1, <3>1, <3>2 DEF PickNumber
    <3>4. NamesAreGone'
      BY <2>1, <3>1, <3>2 DEF PickNumber
    <3> QED
      BY <3>3, <3>4
  <2>2. ASSUME NEW d \in Devices, CreateDevice(d) PROVE (NumbersAreHeld /\ NamesAreGone)'
    BY <2>2 DEF CreateDevice
  <2>3. ASSUME NEW d \in Devices, AttachDevice(d) PROVE (NumbersAreHeld /\ NamesAreGone)'
    <3>1. CASE Goes(d, "attached")
      <4>1. \A e \in Devices : /\ dev'[e].num = dev[e].num
                               /\ dev'[e].at = IF e = d THEN "attached" ELSE dev[e].at
        BY <3>1
      <4> QED
        BY <2>3, <4>1 DEF AttachDevice
    <3>2. CASE Absent(d)
      <4>1. \A e \in Devices : dev'[e] = IF e = d THEN [at |-> "absent", num |-> 0]
                                                 ELSE dev[e]
        BY <3>2
      <4> QED
        BY <2>3, <4>1 DEF AttachDevice
    <3> QED
      BY <2>3, <3>1, <3>2 DEF AttachDevice
  <2>4. ASSUME NEW d \in Devices, CreateLink(d) PROVE (NumbersAreHeld /\ NamesAreGone)'
    <3>1. \A e \in Devices : /\ dev'[e].num = dev[e].num
                             /\ e # d => dev'[e].at = dev[e].at
      BY <2>4 DEF CreateLink
    <3>2. dev[d].at = "attached" /\ dev'[d].at \in {"added", "refused"}
      BY <2>4 DEF CreateLink
    <3>3. NumbersAreHeld'
      <4>1. \A e \in Devices : dev'[e].at # "absent" => dev[e].at # "absent"
        BY <3>1, <3>2
      <4> QED
        BY <2>4, <3>1, <4>1 DEF CreateLink
    <3>4. NamesAreGone'
      <4>1. /\ dev[d].num \in taken
            /\ \A n \in Numbers : n # dev[d].num => link'[n] = link[n]
            /\ object' = object /\ taken' = taken
        BY <2>4 DEF CreateLink
      <4>2. \A e \in Devices : dev'[e].at \in {"unlinked", "deleted"} =>
              e # d /\ dev[e].num # dev[d].num
        BY <3>1, <3>2
      <4> QED
        BY <3>1, <3>2, <4>1, <4>2
    <3> QED
      BY <3>3, <3>4
  <2>5. ASSUME NEW d \in Devices, DeleteLink(d) PROVE (NumbersAreHeld /\ NamesAreGone)'
    BY <2>5 DEF DeleteLink
  <2>6. ASSUME NEW d \in Devices, DeleteDevice(d) PROVE (NumbersAreHeld /\ NamesAreGone)'
    BY <2>6 DEF DeleteDevice
  <2>7. ASSUME NEW d \in Devices, FreeNumber(d) PROVE (NumbersAreHeld /\ NamesAreGone)'
    BY <2>7 DEF FreeNumber
  <2>8. ASSUME UNCHANGED numVars PROVE (NumbersAreHeld /\ NamesAreGone)'
    BY <2>8 DEF numVars
  <2> QED
    BY <2>1, <2>2, <2>3, <2>4, <2>5, <2>6, <2>7, <2>8 DEF NextNumbers
<1>3. FreeInv => FreeNumberIsUnused
  BY DEF FreeInv, NamesAreGone, FreeNumberIsUnused
<1> QED
  BY <1>1, <1>2, <1>3, NumbersTypeCorrect, PTL DEF SpecNumbers
=============================================================================
