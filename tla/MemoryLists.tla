---------------------------- MODULE MemoryLists ----------------------------
(***************************************************************************)
(* The memory a device hands to user space: the four IOCTLs that map       *)
(* physical memory or allocate a DMA buffer, list it in the device         *)
(* extension and take it back, and the release of both lists when the      *)
(* device is stopped or removed.                                           *)
(*                                                                         *)
(* A map or allocate increments controlCount and then reads it twice, once *)
(* for the list entry and once for the reply; an unmap looks for the index *)
(* and address it is given, walking the list without its mutex.  The PnP   *)
(* release takes no notice of IOCTLs in progress, and the dispatch of the  *)
(* IOCTLs takes none of the state of the device.                           *)
(***************************************************************************)
EXTENDS Naturals, FiniteSets

CONSTANTS
  Handles,   \* open file handles, one process each; its calls are synchronous
  Pvus,      \* user-space addresses; processes have the same ones
  MaxCount   \* bound on controlCount: the mappings ever made

ASSUME MemoryAssumption == IsFiniteSet(Handles) /\ MaxCount \in Nat

VARIABLES
  controlCount,  \* DEVICE_EXTENSION.controlCount
  adapter,       \* dmaAdapter is not null
  list,          \* list[k]: the entries of the list of kind k
  live,          \* memory that exists, by the number its increment produced
  handler,       \* handler[h]: the IOCTL running on handle h
  tokens,        \* tokens[h]: the replies the process has and may give back
  torn,          \* handles whose walk may stand on an entry freed meanwhile
  device,        \* what the PnP manager knows of the device
  pnp,           \* the PnP thread in releaseResource
  overlapped,    \* history: a handler or a release began while another ran
  crashed        \* memory was released twice or without its adapter

memVars == <<controlCount, adapter, list, live, handler, tokens, torn, device, pnp,
             overlapped, crashed>>

Kinds == {"mmap", "dma"}

\* What an entry and a reply hold, numbered up to the counter.  The id is a
\* history of the model: the code discards the value its increment produces.
Memory == [kind : Kinds, id : 0 .. controlCount, index : 0 .. controlCount,
           pvu : Pvus, owner : Handles]
Idle == [at |-> "idle"]
Busy == [at : {"allocate", "count", "record", "insert", "reply", "walk", "release",
               "unlink"},
         mem : Memory]

TypeOKMemory ==
  /\ controlCount \in Nat
  /\ adapter \in BOOLEAN /\ overlapped \in BOOLEAN /\ crashed \in BOOLEAN
  /\ list \in [Kinds -> SUBSET Memory]
  /\ live \subseteq 1 .. controlCount
  /\ handler \in [Handles -> Busy \cup {Idle}]
  /\ tokens \in [Handles -> SUBSET Memory]
  /\ torn \subseteq Handles
  /\ device \in {"stopped", "started", "failed", "removed"}
  /\ pnp \in {"idle", "dma", "mmap", "adapter"}

\* AddDevice has emptied the lists; the device has its name and can be opened
\* before it is started.
InitMemory ==
  /\ controlCount = 0
  /\ adapter = FALSE
  /\ list = [k \in Kinds |-> {}]
  /\ live = {}
  /\ handler = [h \in Handles |-> Idle]
  /\ tokens = [h \in Handles |-> {}]
  /\ torn = {}
  /\ device = "stopped"
  /\ pnp = "idle"
  /\ overlapped = FALSE
  /\ crashed = FALSE

Listed == list["mmap"] \cup list["dma"]

\* A handler or a release begins, alone or while another is running.
Begins ==
  overlapped' = (overlapped \/ pnp # "idle" \/ \E h \in Handles : handler[h] # Idle)

Making == {"allocate", "count"}

-----------------------------------------------------------------------------
(* IOCTL_WINPCI_MAP_MEMORY and IOCTL_WINPCI_ALLOCATE_DMA_MEMORY.           *)

\* Fault: dmaAdapter is not tested.
RequestUntested(h, k) ==
  /\ handler[h] = Idle
  /\ controlCount + Cardinality({g \in Handles : handler[g].at \in Making}) < MaxCount
  /\ \E p \in Pvus : handler' = [handler EXCEPT ![h] =
       [at |-> "allocate", mem |-> [kind |-> k, id |-> 0, index |-> 0, pvu |-> p, owner |-> h]]]
  /\ Begins
  /\ UNCHANGED <<controlCount, adapter, list, live, tokens, torn, device, pnp, crashed>>

\* The call for a DMA buffer goes on if there is an adapter.  The address p is
\* the one its memory will be mapped at.
RequestMemory(h, k) ==
  /\ handler[h] = Idle
  /\ controlCount + Cardinality({g \in Handles : handler[g].at \in Making}) < MaxCount
  /\ k = "dma" => adapter
  /\ \E p \in Pvus : handler' = [handler EXCEPT ![h] =
       [at |-> "allocate", mem |-> [kind |-> k, id |-> 0, index |-> 0, pvu |-> p, owner |-> h]]]
  /\ Begins
  /\ UNCHANGED <<controlCount, adapter, list, live, tokens, torn, device, pnp, crashed>>

\* Memory is obtained and mapped at a free address of the caller's process;
\* when a step of that fails the ones before it are undone.  A buffer is
\* allocated, and given back, through the adapter.
ObtainMemory(h) ==
  LET m == handler[h].mem IN
  /\ handler[h].at = "allocate"
  /\ crashed' = (crashed \/ (m.kind = "dma" /\ ~adapter))
  /\ \/ /\ \A e \in Listed : e.owner = h => e.pvu # m.pvu
        /\ handler' = [handler EXCEPT ![h].at = "count"]
     \/ handler' = [handler EXCEPT ![h] = Idle]
  /\ UNCHANGED <<controlCount, adapter, list, live, tokens, torn, device, pnp, overlapped>>

\* InterlockedIncrement(&controlCount).
CountMemory(h) ==
  LET n == controlCount + 1 IN
  /\ handler[h].at = "count"
  /\ controlCount' = n
  /\ live' = live \cup {n}
  /\ handler' = [handler EXCEPT ![h].at = "record", ![h].mem.id = n]
  /\ UNCHANGED <<adapter, list, tokens, torn, device, pnp,
                 overlapped, crashed>>

\* Fault: the entry gets the number after the counter's.
RecordNextIndex(h) ==
  /\ handler[h].at = "record"
  /\ handler' = [handler EXCEPT ![h].at = "insert", ![h].mem.index = controlCount + 1]
  /\ UNCHANGED <<controlCount, adapter, list, live, tokens, torn, device, pnp,
                 overlapped, crashed>>

\* pMapInfo->index = pdx->controlCount.
RecordIndex(h) ==
  /\ handler[h].at = "record"
  /\ handler' = [handler EXCEPT ![h].at = "insert", ![h].mem.index = controlCount]
  /\ UNCHANGED <<controlCount, adapter, list, live, tokens, torn, device, pnp,
                 overlapped, crashed>>

\* Fault: without the mutex an insertion overwrites the one before it.
InsertOverwrites(h) ==
  LET m == handler[h].mem IN
  /\ handler[h].at = "insert"
  /\ list' = [list EXCEPT ![m.kind] = {m}]
  /\ handler' = [handler EXCEPT ![h].at = "reply"]
  /\ UNCHANGED <<controlCount, adapter, live, tokens, torn, device, pnp,
                 overlapped, crashed>>

\* InsertHeadList, under the list's mutex, which the release of the list holds.
InsertEntry(h) ==
  LET m == handler[h].mem IN
  /\ handler[h].at = "insert"
  /\ pnp # m.kind
  /\ list' = [list EXCEPT ![m.kind] = @ \cup {m}]
  /\ handler' = [handler EXCEPT ![h].at = "reply"]
  /\ UNCHANGED <<controlCount, adapter, live, tokens, torn, device, pnp,
                 overlapped, crashed>>

\* mem.index = pdx->controlCount, and the request completes.
Reply(h) ==
  /\ handler[h].at = "reply"
  /\ tokens' = [tokens EXCEPT ![h] = @ \cup {[handler[h].mem EXCEPT !.index = controlCount]}]
  /\ handler' = [handler EXCEPT ![h] = Idle]
  /\ UNCHANGED <<controlCount, adapter, list, live, torn, device, pnp,
                 overlapped, crashed>>

-----------------------------------------------------------------------------
(* IOCTL_WINPCI_UNMAP_MEMORY and IOCTL_WINPCI_UNALLOCATE_DMA_MEMORY.       *)

\* Fault: the index is not compared.
MatchesByAddress(t) == {m \in list[t.kind] : m.pvu = t.pvu}

\* The entries an unmap may act on: it takes the first of them.
Matches(t) == {m \in list[t.kind] : m.index = t.index /\ m.pvu = t.pvu}

\* The walks over the list of kind k.
Walkers(k) == {h \in Handles : handler[h].at = "walk" /\ handler[h].mem.kind = k}

\* The walk starts at the head of the list and does not take its mutex.
BeginWalk(h, t) ==
  /\ handler[h] = Idle
  /\ t \in tokens[h]
  /\ tokens' = [tokens EXCEPT ![h] = @ \ {t}]
  /\ handler' = [handler EXCEPT ![h] = [at |-> "walk", mem |-> t]]
  /\ Begins
  /\ UNCHANGED <<controlCount, adapter, list, live, torn, device, pnp, crashed>>

\* It finds an entry, or the request fails and changes nothing.  After an entry
\* was freed under it, it may miss the others or read what is not memory.
FindEntry(h) ==
  LET t == handler[h].mem IN
  /\ handler[h].at = "walk"
  /\ \/ \E m \in Matches(t) :
          handler' = [handler EXCEPT ![h] = [at |-> "release", mem |-> m]]
     \/ /\ Matches(t) = {} \/ h \in torn
        /\ handler' = [handler EXCEPT ![h] = Idle]
  /\ crashed' \in {crashed, crashed \/ h \in torn}
  /\ torn' = torn \ {h}
  /\ UNCHANGED <<controlCount, adapter, list, live, tokens, device, pnp, overlapped>>

\* Releasing memory m is fatal when it is gone, or when it is a DMA buffer and
\* the adapter is gone.
Fatal(m) == m.id \notin live \/ (m.kind = "dma" /\ ~adapter)

ReleaseMemory(h) ==
  LET m == handler[h].mem IN
  /\ handler[h].at = "release"
  /\ crashed' = (crashed \/ Fatal(m))
  /\ live' = live \ {m.id}
  /\ handler' = [handler EXCEPT ![h].at = "unlink"]
  /\ UNCHANGED <<controlCount, adapter, list, tokens, torn, device, pnp, overlapped>>

\* Fault: the entry stays in its list.
UnlinkForgotten(h) ==
  /\ handler[h].at = "unlink"
  /\ handler' = [handler EXCEPT ![h] = Idle]
  /\ UNCHANGED <<controlCount, adapter, list, live, tokens, torn, device, pnp,
                 overlapped, crashed>>

\* RemoveEntryList, under the list's mutex, and ExFreePool.
UnlinkEntry(h) ==
  LET m == handler[h].mem IN
  /\ handler[h].at = "unlink"
  /\ pnp # m.kind
  /\ crashed' = (crashed \/ m \notin list[m.kind])
  /\ list' = [list EXCEPT ![m.kind] = @ \ {m}]
  /\ handler' = [handler EXCEPT ![h] = Idle]
  /\ torn' = torn \cup Walkers(m.kind)
  /\ UNCHANGED <<controlCount, adapter, live, tokens, device, pnp, overlapped>>

-----------------------------------------------------------------------------
(* HandleStopDevice, HandleRemoveDevice and HandleStartDevice, one PnP      *)
(* request at a time.  Processes keep their handles throughout.             *)

\* Fault: the adapter is put back before the DMA list is emptied.
ReleasePutsAdapterFirst ==
  /\ pnp = "idle"
  /\ \/ device = "started" /\ device' = "stopped"
     \/ device # "removed" /\ device' = "removed"
  /\ pnp' = "dma"
  /\ adapter' = FALSE
  /\ Begins
  /\ UNCHANGED <<controlCount, list, live, handler, tokens, torn, crashed>>

\* A stop or a removal begins releaseResource; a device that is stopped or
\* failed to start is removed too.
ReleaseDevice ==
  /\ pnp = "idle"
  /\ \/ device = "started" /\ device' = "stopped"
     \/ device # "removed" /\ device' = "removed"
  /\ pnp' = "dma"
  /\ Begins
  /\ UNCHANGED <<controlCount, adapter, list, live, handler, tokens, torn, crashed>>

\* One turn of the loop over the list of kind k, or its end; the loop holds
\* the mutex of the list throughout.
DrainList(k, next) ==
  /\ pnp = k
  /\ \/ \E m \in list[k] :
          /\ crashed' = (crashed \/ Fatal(m))
          /\ live' = live \ {m.id}
          /\ list' = [list EXCEPT ![k] = @ \ {m}]
          /\ torn' = torn \cup Walkers(k)
          /\ UNCHANGED pnp
     \/ /\ list[k] = {}
        /\ pnp' = next
        /\ UNCHANGED <<list, live, torn, crashed>>
  /\ UNCHANGED <<controlCount, adapter, handler, tokens, device, overlapped>>

\* PutDmaAdapter, if there is one.
PutAdapter ==
  /\ pnp = "adapter"
  /\ adapter' = FALSE
  /\ pnp' = "idle"
  /\ UNCHANGED <<controlCount, list, live, handler, tokens, torn, device,
                 overlapped, crashed>>

\* IoGetDmaAdapter unless there is an adapter; a start that fails before it,
\* or gets none, leaves things alone, and one that cannot connect its
\* interrupt keeps the adapter.
StartDevice ==
  /\ pnp = "idle"
  /\ device = "stopped"
  /\ \/ device' = "started" /\ adapter' = TRUE
     \/ device' = "failed" /\ adapter' \in {adapter, TRUE}
  /\ UNCHANGED <<controlCount, list, live, handler, tokens, torn, pnp,
                 overlapped, crashed>>

NextMemory ==
  /\ ~crashed
  /\ \/ \E h \in Handles :
          \/ \E k \in Kinds : RequestMemory(h, k)
          \/ \E t \in tokens[h] : BeginWalk(h, t)
          \/ ObtainMemory(h) \/ CountMemory(h) \/ RecordIndex(h) \/ InsertEntry(h) \/ Reply(h)
          \/ FindEntry(h) \/ ReleaseMemory(h) \/ UnlinkEntry(h)
     \/ ReleaseDevice
     \/ DrainList("dma", "mmap") \/ DrainList("mmap", "adapter")
     \/ PutAdapter
     \/ StartDevice

SpecMemory == InitMemory /\ [][NextMemory]_memVars

-----------------------------------------------------------------------------
\* As long as calls and releases do not overlap, a reply names the memory it
\* was given for and no other: unmapping with it acts on that memory while it
\* is listed, and on nothing once it is gone, even when its address is in use
\* again.
TokenNamesItsMemory ==
  ~overlapped =>
    \A h \in Handles : \A t \in tokens[h] :
      /\ \A m \in Matches(t) : m.id = t.id
      /\ t.id \in live => Matches(t) # {}

\* As long as calls and releases do not overlap, no memory is released twice,
\* no DMA buffer is allocated or released without the adapter, and no entry is
\* unlinked twice, whether the device is started, stopped, failed or removed.
NeverCrashes == ~overlapped => ~crashed

\* Memory that exists can be released by an unmap or a stop: it is listed, or
\* the handler that made it is about to list it.
LiveIsAccountedFor ==
  \A n \in live : \/ \E m \in Listed : m.id = n
                  \/ \E h \in Handles : /\ handler[h].at \in {"record", "insert"}
                                        /\ handler[h].mem.id = n

\* Common buffers never outlive the DMA adapter they came from, as long as
\* calls and releases do not overlap.
BuffersHaveAdapter ==
  ~overlapped /\ ~adapter => \A m \in list["dma"] : m.id \notin live

\* The address a map replies with is good for the unmap.
PvuIsForUnmap ==
  \A h \in Handles : \A t \in tokens[h] :
    (\E m \in Listed : m.id = t.id) => Matches(t) # {}
=============================================================================
