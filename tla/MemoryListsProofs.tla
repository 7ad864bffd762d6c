------------------------- MODULE MemoryListsProofs -------------------------
(***************************************************************************)
(* Proofs about MemoryLists, for any handles, addresses and number of      *)
(* mappings.                                                               *)
(***************************************************************************)
EXTENDS MemoryLists, TLAPS

\* Every step of NextMemory is one of these.
LEMMA MemorySteps ==
  ASSUME [NextMemory]_memVars
  PROVE  \/ \E h \in Handles :
              \/ \E k \in Kinds : RequestMemory(h, k)
              \/ ObtainMemory(h) \/ CountMemory(h) \/ RecordIndex(h) \/ InsertEntry(h) \/ Reply(h)
              \/ \E t \in tokens[h] : BeginWalk(h, t)
              \/ FindEntry(h) \/ ReleaseMemory(h) \/ UnlinkEntry(h)
         \/ ReleaseDevice \/ PutAdapter \/ StartDevice
         \/ \E k \in Kinds, next \in {"mmap", "adapter"} :
              (k = "mmap" <=> next = "adapter") /\ DrainList(k, next)
         \/ UNCHANGED memVars
  BY DEF NextMemory, Kinds

\* The IOCTLs and the release of a stopped device keep the types.
THEOREM MemoryTypeCorrect == SpecMemory => []TypeOKMemory
<1> USE MemoryAssumption DEF TypeOKMemory
<1>1. InitMemory => TypeOKMemory
  <2> SUFFICES ASSUME InitMemory PROVE TypeOKMemory
    OBVIOUS
  <2>1. handler \in [Handles -> Busy \cup {Idle}]
    BY DEF InitMemory
  <2>2. list \in [Kinds -> SUBSET Memory] /\ tokens \in [Handles -> SUBSET Memory]
    BY DEF InitMemory
  <2> QED
    BY <2>1, <2>2 DEF InitMemory
<1>2. TypeOKMemory /\ [NextMemory]_memVars => TypeOKMemory'
  <2> SUFFICES ASSUME TypeOKMemory, [NextMemory]_memVars PROVE TypeOKMemory'
    OBVIOUS
  <2> USE DEF Busy, Idle, Memory
  <2>1. ASSUME NEW h \in Handles, NEW k \in Kinds, RequestMemory(h, k) PROVE TypeOKMemory'
    <3>1. Memory' = Memory /\ Busy' = Busy
      BY <2>1 DEF RequestMemory
    <3>2. PICK p \in Pvus : handler' = [handler EXCEPT ![h] = [at |-> "allocate",
            mem |-> [kind |-> k, id |-> 0, index |-> 0, pvu |-> p, owner |-> h]]]
      BY <2>1 DEF RequestMemory
    <3>3. [at |-> "allocate",
           mem |-> [kind |-> k, id |-> 0, index |-> 0, pvu |-> p, owner |-> h]] \in Busy
      OBVIOUS
    <3>4. handler' \in [Handles -> Busy \cup {Idle}]
      BY <3>2, <3>3
    <3>5. overlapped' \in BOOLEAN
      BY <2>1 DEF RequestMemory, Begins
    <3> QED
      BY <2>1, <3>1, <3>4, <3>5 DEF RequestMemory
  <2>12. ASSUME NEW h \in Handles, ObtainMemory(h) PROVE TypeOKMemory'
    <3>1. Memory' = Memory /\ Busy' = Busy /\ crashed' \in BOOLEAN
      BY <2>12 DEF ObtainMemory
    <3>2. [handler[h] EXCEPT !.at = "count"] \in Busy
      BY <2>12 DEF ObtainMemory
    <3>3. handler' \in [Handles -> Busy \cup {Idle}]
      BY <2>12, <3>2 DEF ObtainMemory
    <3> QED
      BY <2>12, <3>1, <3>3 DEF ObtainMemory
  <2>2. ASSUME NEW h \in Handles, CountMemory(h) PROVE TypeOKMemory'
    BY <2>2 DEF CountMemory
  <2>3. ASSUME NEW h \in Handles, RecordIndex(h) PROVE TypeOKMemory'
    <3>1. handler[h] \in Busy
      BY <2>3 DEF RecordIndex
    <3>2. controlCount \in 0 .. controlCount
      OBVIOUS
    <3>3. [handler[h] EXCEPT !.at = "insert", !.mem.index = controlCount] \in Busy
      BY <3>1, <3>2
    <3>4. handler' = [handler EXCEPT ![h] =
                        [handler[h] EXCEPT !.at = "insert", !.mem.index = controlCount]]
      BY <2>3 DEF RecordIndex
    <3>5. handler' \in [Handles -> Busy \cup {Idle}]
      BY <3>3, <3>4
    <3> QED
      BY <2>3, <3>5 DEF RecordIndex
  <2>4. ASSUME NEW h \in Handles, InsertEntry(h) PROVE TypeOKMemory'
    BY <2>4 DEF InsertEntry
  <2>5. ASSUME NEW h \in Handles, Reply(h) PROVE TypeOKMemory'
    BY <2>5 DEF Reply
  <2>6. ASSUME NEW h \in Handles, NEW t \in tokens[h], BeginWalk(h, t) PROVE TypeOKMemory'
    <3>1. [at |-> "walk", mem |-> t] \in Busy
      OBVIOUS
    <3>2. overlapped' \in BOOLEAN
      BY <2>6 DEF BeginWalk, Begins
    <3> QED
      BY <2>6, <3>1, <3>2 DEF BeginWalk
  <2>13. ASSUME NEW h \in Handles, FindEntry(h) PROVE TypeOKMemory'
    <3> DEFINE t == handler[h].mem
    <3>1. t.kind \in Kinds
      BY <2>13 DEF FindEntry
    <3>2. ASSUME NEW m \in Matches(t) PROVE [at |-> "release", mem |-> m] \in Busy
      BY <3>1 DEF Matches
    <3>3. \/ \E m \in Matches(t) : handler' = [handler EXCEPT ![h] = [at |-> "release", mem |-> m]]
          \/ handler' = [handler EXCEPT ![h] = Idle]
      BY <2>13 DEF FindEntry
    <3>4. handler' \in [Handles -> Busy \cup {Idle}]
      <4> HIDE DEF t, Busy, Idle
      <4> QED
        BY <3>2, <3>3
    <3>5. torn' \subseteq Handles /\ crashed' \in BOOLEAN
      BY <2>13 DEF FindEntry
    <3> QED
      BY <2>13, <3>4, <3>5 DEF FindEntry
  <2>7. ASSUME NEW h \in Handles, ReleaseMemory(h) PROVE TypeOKMemory'
    BY <2>7 DEF ReleaseMemory
  <2>8. ASSUME NEW h \in Handles, UnlinkEntry(h) PROVE TypeOKMemory'
    BY <2>8 DEF UnlinkEntry, Walkers
  <2>9. CASE ReleaseDevice \/ PutAdapter \/ StartDevice
    BY <2>9 DEF ReleaseDevice, PutAdapter, StartDevice, Begins
  <2>10. ASSUME NEW k \in Kinds, NEW next \in {"mmap", "adapter"}, DrainList(k, next)
         PROVE  TypeOKMemory'
    <3>1. /\ live' \subseteq live /\ torn' \subseteq Handles
          /\ list' \in [Kinds -> SUBSET Memory]
      BY <2>10 DEF DrainList, Walkers
    <3>2. pnp' \in {"idle", "dma", "mmap", "adapter"} /\ crashed' \in BOOLEAN
      BY <2>10 DEF DrainList
    <3>3. UNCHANGED <<controlCount, adapter, handler, tokens, device, overlapped>>
      BY <2>10 DEF DrainList
    <3> QED
      BY <3>1, <3>2, <3>3
  <2>11. CASE UNCHANGED memVars
    BY <2>11 DEF memVars
  <2> QED
    BY <2>1, <2>2, <2>3, <2>4, <2>5, <2>6, <2>7, <2>8, <2>9, <2>10, <2>11, <2>12,
       <2>13, MemorySteps
<1> QED
  BY <1>1, <1>2, PTL DEF SpecMemory

-----------------------------------------------------------------------------
\* An unmap unlinks only what it has released.
UnlinkedIsGone ==
  \A h \in Handles : handler[h].at = "unlink" => handler[h].mem.id \notin live

AccountInv == LiveIsAccountedFor /\ UnlinkedIsGone

\* However calls and stops overlap, memory that exists is listed or about to be.
THEOREM LiveMemoryIsAccountedFor == SpecMemory => []LiveIsAccountedFor
<1> USE MemoryAssumption
<1>1. InitMemory => AccountInv
  BY DEF InitMemory, AccountInv, LiveIsAccountedFor, UnlinkedIsGone, Idle
<1>2. TypeOKMemory /\ AccountInv /\ [NextMemory]_memVars => AccountInv'
  <2> SUFFICES ASSUME TypeOKMemory, AccountInv, [NextMemory]_memVars PROVE AccountInv'
    OBVIOUS
  <2> USE DEF TypeOKMemory, AccountInv, LiveIsAccountedFor, UnlinkedIsGone, Listed, Kinds
  <2>0. \A h \in Handles : handler[h].at \notin {"idle"} =>
          handler[h].mem.id \in 0 .. controlCount /\ handler[h].mem.kind \in Kinds
    BY DEF Busy, Idle, Memory
  <2>1. ASSUME NEW h \in Handles, NEW k \in Kinds, RequestMemory(h, k) PROVE AccountInv'
    BY <2>1 DEF RequestMemory, Idle
  <2>12. ASSUME NEW h \in Handles, ObtainMemory(h) PROVE AccountInv'
    <3>1. /\ handler'[h].at \in {"count", "idle"} /\ handler[h].at = "allocate"
          /\ \A g \in Handles \ {h} : handler'[g] = handler[g]
      BY <2>12 DEF ObtainMemory, Busy, Idle
    <3> QED
      BY <2>12, <3>1 DEF ObtainMemory
  <2>2. ASSUME NEW h \in Handles, CountMemory(h) PROVE AccountInv'
    BY <2>0, <2>2 DEF CountMemory, Busy, Idle, Memory
  <2>3. ASSUME NEW h \in Handles, RecordIndex(h) PROVE AccountInv'
    <3>1. /\ handler'[h].at = "insert" /\ handler'[h].mem.id = handler[h].mem.id
          /\ \A g \in Handles \ {h} : handler'[g] = handler[g]
      BY <2>3 DEF RecordIndex, Busy, Idle, Memory
    <3> QED
      BY <2>3, <3>1 DEF RecordIndex
  <2>4. ASSUME NEW h \in Handles, InsertEntry(h) PROVE AccountInv'
    <3>1. /\ handler'[h].at = "reply" /\ handler[h].at = "insert"
          /\ \A g \in Handles \ {h} : handler'[g] = handler[g]
      BY <2>4 DEF InsertEntry, Busy, Idle
    <3>2. handler[h].mem.kind \in Kinds
      BY <2>0, <3>1
    <3>3. Listed' = Listed \cup {handler[h].mem}
      BY <2>4, <3>2 DEF InsertEntry
    <3> QED
      BY <2>4, <3>1, <3>3 DEF InsertEntry
  <2>5. ASSUME NEW h \in Handles, Reply(h) PROVE AccountInv'
    BY <2>5 DEF Reply, Idle
  <2>6. ASSUME NEW h \in Handles, NEW t \in tokens[h], BeginWalk(h, t) PROVE AccountInv'
    <3>1. /\ handler'[h].at = "walk" /\ handler[h].at = "idle"
          /\ \A g \in Handles \ {h} : handler'[g] = handler[g]
      BY <2>6 DEF BeginWalk, Idle
    <3> QED
      BY <2>6, <3>1 DEF BeginWalk
  <2>13. ASSUME NEW h \in Handles, FindEntry(h) PROVE AccountInv'
    <3>1. /\ handler'[h].at \in {"idle", "release"} /\ handler[h].at = "walk"
          /\ \A g \in Handles \ {h} : handler'[g] = handler[g]
      BY <2>13 DEF FindEntry, Busy, Idle
    <3> QED
      BY <2>13, <3>1 DEF FindEntry
  <2>7. ASSUME NEW h \in Handles, ReleaseMemory(h) PROVE AccountInv'
    <3>1. /\ handler'[h].at = "unlink" /\ handler'[h].mem = handler[h].mem
          /\ handler[h].at = "release"
          /\ \A g \in Handles \ {h} : handler'[g] = handler[g]
          /\ live' = live \ {handler[h].mem.id} /\ Listed' = Listed
      BY <2>7 DEF ReleaseMemory, Busy, Idle
    <3>2. LiveIsAccountedFor'
      BY <3>1
    <3>3. UnlinkedIsGone'
      BY <3>1
    <3> QED
      BY <3>2, <3>3
  <2>8. ASSUME NEW h \in Handles, UnlinkEntry(h) PROVE AccountInv'
    <3>1. /\ handler'[h].at = "idle" /\ handler[h].at = "unlink"
          /\ \A g \in Handles \ {h} : handler'[g] = handler[g]
          /\ live' = live
      BY <2>8 DEF UnlinkEntry, Idle
    <3>2. handler[h].mem.kind \in Kinds
      BY <2>0, <3>1
    <3>3. \A m \in Listed : m = handler[h].mem \/ m \in Listed'
      BY <2>8, <3>2 DEF UnlinkEntry
    <3> QED
      BY <3>1, <3>3
  <2>9. CASE ReleaseDevice \/ PutAdapter \/ StartDevice
    BY <2>9 DEF ReleaseDevice, PutAdapter, StartDevice
  <2>10. ASSUME NEW k \in Kinds, NEW next \in {"mmap", "adapter"}, DrainList(k, next)
         PROVE  AccountInv'
    <3>1. CASE \E m \in list[k] : live' = live \ {m.id} /\ list' = [list EXCEPT ![k] = @ \ {m}]
      <4>1. PICK m \in list[k] : live' = live \ {m.id} /\ list' = [list EXCEPT ![k] = @ \ {m}]
        BY <3>1
      <4>2. \A e \in Listed : e = m \/ e \in Listed'
        BY <4>1
      <4>3. handler' = handler
        BY <2>10 DEF DrainList
      <4> QED
        BY <4>1, <4>2, <4>3
    <3>2. CASE UNCHANGED <<list, live>>
      BY <2>10, <3>2 DEF DrainList
    <3> QED
      BY <2>10, <3>1, <3>2 DEF DrainList
  <2>11. CASE UNCHANGED memVars
    BY <2>11 DEF memVars
  <2> QED
    BY <2>1, <2>2, <2>3, <2>4, <2>5, <2>6, <2>7, <2>8, <2>9, <2>10, <2>11, <2>12,
       <2>13, MemorySteps
<1>3. AccountInv => LiveIsAccountedFor
  BY DEF AccountInv
<1> QED
  BY <1>1, <1>2, <1>3, MemoryTypeCorrect, PTL DEF SpecMemory

-----------------------------------------------------------------------------
(* While calls and releases have not overlapped.                           *)

OneAtATime ==
  /\ \A g, h \in Handles : handler[g].at # "idle" /\ handler[h].at # "idle" => g = h
  /\ pnp # "idle" => \A h \in Handles : handler[h].at = "idle"

\* An entry has the number of its memory, and its memory exists until the
\* handler that released it unlinks the entry.
EntriesAreLive ==
  /\ \A k \in Kinds : \A m \in list[k] :
       /\ m.kind = k /\ m.index = m.id
       /\ m.id \in live \/ \E h \in Handles : handler[h].at = "unlink" /\ handler[h].mem = m
  /\ \A m, n \in Listed : m.id = n.id => m = n

\* What a handler holds at each of its stages.
HandlerHolds ==
  \A h \in Handles :
    LET m == handler[h].mem IN
    /\ handler[h].at \in {"record", "insert"} =>
         m.id = controlCount /\ \A e \in Listed : e.id # m.id
    /\ handler[h].at \in {"insert", "reply"} => m.index = m.id
    /\ handler[h].at = "reply" => m.id = controlCount
    /\ handler[h].at \in {"reply", "release", "unlink"} => m \in list[m.kind]
    /\ handler[h].at \in {"record", "insert", "release"} => m.id \in live
    /\ handler[h].at \notin {"idle", "walk"} /\ m.kind = "dma" => adapter

\* The DMA list is empty from its release to the next start.
AdapterCovers ==
  /\ list["dma"] # {} => adapter
  /\ pnp \in {"mmap", "adapter"} => list["dma"] = {}

TokensMatch ==
  \A h \in Handles : \A t \in tokens[h] :
    /\ t.index = t.id
    /\ t.id \in live => t \in list[t.kind]
    /\ \A g \in Handles : handler[g].at \in {"record", "insert"} => t.id # controlCount

\* And no entry is freed under a walk.
Unharmed == ~crashed /\ torn = {}

SerialInv ==
  /\ OneAtATime /\ EntriesAreLive /\ HandlerHolds /\ AdapterCovers
  /\ TokensMatch /\ UnlinkedIsGone /\ Unharmed

\* When a handler acts alone, only its own record changes.
Alone(h) ==
  /\ \A g \in Handles \ {h} : handler[g].at = "idle" /\ handler'[g] = handler[g]
  /\ pnp = "idle" /\ pnp' = pnp /\ adapter' = adapter

LEMMA SerialStep ==
  ASSUME TypeOKMemory, SerialInv, [NextMemory]_memVars, ~overlapped' PROVE SerialInv'
<1> USE DEF TypeOKMemory, SerialInv, Kinds
<1>0. \A h \in Handles :
        /\ handler[h].at = "idle" <=> handler[h] = Idle
        /\ handler[h].at # "idle" => /\ handler[h].mem.id \in 0 .. controlCount
                                    /\ handler[h].mem.kind \in Kinds
  BY DEF Busy, Idle, Memory
<1>t. /\ \A m \in Listed : m.id \in 0 .. controlCount
      /\ \A h \in Handles : \A t \in tokens[h] : t.id \in 0 .. controlCount /\ t.kind \in Kinds
  BY DEF Listed, Memory
<1>1. ASSUME NEW h \in Handles, NEW k \in Kinds, RequestMemory(h, k) PROVE SerialInv'
  <2>1. Alone(h) /\ handler[h].at = "idle"
    BY <1>0, <1>1 DEF RequestMemory, Begins, Alone
  <2>2. /\ handler'[h].at = "allocate" /\ handler'[h].mem.kind = k
        /\ UNCHANGED <<controlCount, adapter, list, live, tokens, torn, pnp, crashed>>
    BY <1>1 DEF RequestMemory
  <2>3. k = "dma" => adapter
    BY <1>1 DEF RequestMemory
  <2>4. OneAtATime' /\ UnlinkedIsGone' /\ Unharmed' /\ AdapterCovers' /\ TokensMatch'
    BY <2>1, <2>2 DEF Alone, OneAtATime, UnlinkedIsGone, Unharmed, AdapterCovers, TokensMatch
  <2>5. EntriesAreLive'
    BY <2>1, <2>2 DEF Alone, EntriesAreLive, Listed
  <2>6. HandlerHolds'
    BY <2>1, <2>2, <2>3 DEF Alone, HandlerHolds, Listed
  <2> QED
    BY <2>4, <2>5, <2>6
<1>12. ASSUME NEW h \in Handles, ObtainMemory(h) PROVE SerialInv'
  <2>1. Alone(h) /\ handler[h].at = "allocate"
    BY <1>0, <1>12 DEF ObtainMemory, OneAtATime, Alone
  <2>2. /\ handler'[h].at \in {"count", "idle"}
        /\ handler'[h].at = "count" => handler'[h].mem.kind = handler[h].mem.kind
        /\ UNCHANGED <<controlCount, adapter, list, live, tokens, torn, pnp>>
    BY <1>12 DEF ObtainMemory, Busy, Idle
  <2>3. Unharmed'
    BY <1>12, <2>1 DEF ObtainMemory, HandlerHolds, Unharmed
  <2>4. OneAtATime' /\ UnlinkedIsGone' /\ AdapterCovers' /\ TokensMatch'
    BY <2>1, <2>2 DEF Alone, OneAtATime, UnlinkedIsGone, AdapterCovers, TokensMatch
  <2>5. EntriesAreLive'
    BY <2>1, <2>2 DEF Alone, EntriesAreLive, Listed
  <2>6. HandlerHolds'
    BY <2>1, <2>2 DEF Alone, HandlerHolds, Listed
  <2> QED
    BY <2>3, <2>4, <2>5, <2>6
<1>2. ASSUME NEW h \in Handles, CountMemory(h) PROVE SerialInv'
  <2>1. Alone(h) /\ handler[h].at = "count"
    BY <1>0, <1>2 DEF CountMemory, OneAtATime, Alone
  <2>2. /\ handler'[h].at = "record" /\ handler'[h].mem.id = controlCount + 1
        /\ handler'[h].mem.kind = handler[h].mem.kind
        /\ controlCount' = controlCount + 1 /\ live' = live \cup {controlCount + 1}
        /\ UNCHANGED <<adapter, list, tokens, torn, pnp, crashed>>
    BY <1>2 DEF CountMemory, Busy, Idle, Memory
  <2>4. OneAtATime' /\ UnlinkedIsGone' /\ Unharmed' /\ AdapterCovers'
    BY <2>1, <2>2 DEF Alone, OneAtATime, UnlinkedIsGone, Unharmed, AdapterCovers
  <2>5. EntriesAreLive'
    BY <2>1, <2>2 DEF Alone, EntriesAreLive, Listed
  <2>6. HandlerHolds'
    BY <1>t, <2>1, <2>2 DEF Alone, HandlerHolds, Listed
  <2>7. TokensMatch'
    BY <1>t, <2>1, <2>2 DEF Alone, TokensMatch
  <2> QED
    BY <2>4, <2>5, <2>6, <2>7
<1>3. ASSUME NEW h \in Handles, RecordIndex(h) PROVE SerialInv'
  <2>1. Alone(h) /\ handler[h].at = "record"
    BY <1>0, <1>3 DEF RecordIndex, OneAtATime, Alone
  <2>2. /\ handler'[h].at = "insert" /\ handler'[h].mem.id = handler[h].mem.id
        /\ handler'[h].mem.index = controlCount
        /\ handler'[h].mem.kind = handler[h].mem.kind
        /\ UNCHANGED <<controlCount, adapter, list, live, tokens, torn, pnp, crashed>>
    BY <1>3 DEF RecordIndex, Busy, Idle, Memory
  <2>4. OneAtATime' /\ UnlinkedIsGone' /\ Unharmed' /\ AdapterCovers'
    BY <2>1, <2>2 DEF Alone, OneAtATime, UnlinkedIsGone, Unharmed, AdapterCovers
  <2>5. EntriesAreLive'
    BY <2>1, <2>2 DEF Alone, EntriesAreLive, Listed
  <2>6. HandlerHolds'
    BY <2>1, <2>2 DEF Alone, HandlerHolds, Listed
  <2>7. TokensMatch'
    BY <2>1, <2>2 DEF Alone, TokensMatch
  <2> QED
    BY <2>4, <2>5, <2>6, <2>7
<1>4. ASSUME NEW h \in Handles, InsertEntry(h) PROVE SerialInv'
  <2> DEFINE m == handler[h].mem
  <2>1. Alone(h) /\ handler[h].at = "insert" /\ m.kind \in Kinds
    BY <1>0, <1>4 DEF InsertEntry, OneAtATime, Alone
  <2>2. /\ handler'[h].at = "reply" /\ handler'[h].mem = m
        /\ UNCHANGED <<controlCount, adapter, live, tokens, torn, pnp, crashed>>
    BY <1>4 DEF InsertEntry, Busy, Idle
  <2>3. /\ m \in list'[m.kind] /\ Listed' = Listed \cup {m}
        /\ \A k \in Kinds : list[k] \subseteq list'[k]
        /\ \A k \in Kinds : \A e \in list'[k] : e \in list[k] \/ (e = m /\ k = m.kind)
    BY <1>4, <2>1 DEF InsertEntry, Listed
  <2>a. m.id = controlCount /\ m.index = m.id /\ m.id \in live
    BY <2>1 DEF HandlerHolds
  <2>4. OneAtATime' /\ UnlinkedIsGone' /\ Unharmed'
    BY <2>1, <2>2 DEF Alone, OneAtATime, UnlinkedIsGone, Unharmed
  <2>5. EntriesAreLive'
    BY <2>1, <2>2, <2>3, <2>a DEF Alone, EntriesAreLive, HandlerHolds, Listed
  <2>6. HandlerHolds'
    BY <2>1, <2>2, <2>3, <2>a DEF Alone, HandlerHolds
  <2>7. TokensMatch'
    BY <1>t, <2>1, <2>2, <2>3 DEF Alone, TokensMatch
  <2>8. AdapterCovers'
    BY <2>1, <2>2, <2>3 DEF Alone, AdapterCovers, HandlerHolds
  <2> QED
    BY <2>4, <2>5, <2>6, <2>7, <2>8
<1>5. ASSUME NEW h \in Handles, Reply(h) PROVE SerialInv'
  <2> DEFINE t == [handler[h].mem EXCEPT !.index = controlCount]
  <2>1. Alone(h) /\ handler[h].at = "reply"
    BY <1>0, <1>5 DEF Reply, OneAtATime, Alone
  <2>2. /\ handler'[h].at = "idle"
        /\ UNCHANGED <<controlCount, adapter, list, live, torn, pnp, crashed>>
    BY <1>5 DEF Reply, Idle
  <2>3. /\ tokens'[h] = tokens[h] \cup {t}
        /\ \A g \in Handles \ {h} : tokens'[g] = tokens[g]
    BY <1>5 DEF Reply
  <2>4. handler[h].mem \in Memory
    BY <2>1 DEF Busy, Idle
  <2>5. t = handler[h].mem /\ t.index = t.id /\ t \in list[t.kind]
    BY <2>1, <2>4 DEF HandlerHolds, Memory
  <2>6. OneAtATime' /\ UnlinkedIsGone' /\ Unharmed' /\ AdapterCovers'
    BY <2>1, <2>2 DEF Alone, OneAtATime, UnlinkedIsGone, Unharmed, AdapterCovers
  <2>7. EntriesAreLive' /\ HandlerHolds'
    BY <2>1, <2>2 DEF Alone, EntriesAreLive, HandlerHolds, Listed
  <2>8. TokensMatch'
    <3>1. \A g \in Handles : handler'[g].at = "idle"
      BY <2>1, <2>2 DEF Alone
    <3>2. ASSUME NEW g \in Handles, NEW u \in tokens'[g]
          PROVE  u.index = u.id /\ (u.id \in live => u \in list[u.kind])
      BY <2>3, <2>5 DEF TokensMatch
    <3> QED
      BY <2>2, <3>1, <3>2 DEF TokensMatch
  <2> QED
    BY <2>6, <2>7, <2>8
<1>6. ASSUME NEW h \in Handles, NEW t \in tokens[h], BeginWalk(h, t) PROVE SerialInv'
  <2>1. Alone(h) /\ handler[h].at = "idle"
    BY <1>0, <1>6 DEF BeginWalk, Begins, Alone
  <2>2. /\ UNCHANGED <<controlCount, adapter, list, live, torn, pnp, crashed>>
        /\ \A g \in Handles : tokens'[g] \subseteq tokens[g]
        /\ handler'[h].at = "walk"
    BY <1>6 DEF BeginWalk
  <2>3. OneAtATime' /\ UnlinkedIsGone' /\ Unharmed' /\ AdapterCovers'
    BY <2>1, <2>2 DEF Alone, OneAtATime, UnlinkedIsGone, Unharmed, AdapterCovers
  <2>4. EntriesAreLive'
    BY <2>1, <2>2 DEF Alone, EntriesAreLive, Listed
  <2>5. HandlerHolds' /\ TokensMatch'
    BY <2>1, <2>2 DEF Alone, HandlerHolds, TokensMatch, Listed
  <2> QED
    BY <2>3, <2>4, <2>5
<1>13. ASSUME NEW h \in Handles, FindEntry(h) PROVE SerialInv'
  <2> DEFINE t == handler[h].mem
  <2>1. Alone(h) /\ handler[h].at = "walk" /\ t.kind \in Kinds
    BY <1>0, <1>13 DEF FindEntry, OneAtATime, Alone
  <2>2. /\ UNCHANGED <<controlCount, adapter, list, live, tokens, torn, pnp, crashed>>
    BY <1>13 DEF FindEntry, Unharmed
  <2>3. \/ handler'[h].at = "idle"
        \/ handler'[h].at = "release" /\ handler'[h].mem \in list[t.kind]
    BY <1>13, <2>1 DEF FindEntry, Matches, Idle
  <2>4. ASSUME NEW m \in list[t.kind]
        PROVE  m \in list[m.kind] /\ m.id \in live /\ (m.kind = "dma" => adapter)
    BY <1>t, <2>1 DEF Alone, EntriesAreLive, AdapterCovers
  <2>5. OneAtATime' /\ UnlinkedIsGone' /\ Unharmed' /\ AdapterCovers'
    BY <2>1, <2>2, <2>3 DEF Alone, OneAtATime, UnlinkedIsGone, Unharmed, AdapterCovers
  <2>6. EntriesAreLive'
    BY <2>1, <2>2 DEF Alone, EntriesAreLive, Listed
  <2>7. HandlerHolds'
    <3>1. ASSUME handler'[h].at = "release"
          PROVE  /\ handler'[h].mem \in list[handler'[h].mem.kind]
                 /\ handler'[h].mem.id \in live
                 /\ handler'[h].mem.kind = "dma" => adapter
      BY <2>3, <2>4, <3>1
    <3>2. \A g \in Handles \ {h} : handler'[g].at = "idle"
      BY <2>1 DEF Alone
    <3> QED
      BY <2>2, <2>3, <3>1, <3>2 DEF HandlerHolds
  <2>8. TokensMatch'
    BY <2>1, <2>2, <2>3 DEF Alone, TokensMatch
  <2> QED
    BY <2>5, <2>6, <2>7, <2>8
<1>7. ASSUME NEW h \in Handles, ReleaseMemory(h) PROVE SerialInv'
  <2> DEFINE m == handler[h].mem
  <2>1. Alone(h) /\ handler[h].at = "release" /\ m.kind \in Kinds
    BY <1>0, <1>7 DEF ReleaseMemory, OneAtATime, Alone
  <2>2. /\ handler'[h].at = "unlink" /\ handler'[h].mem = m
        /\ live' = live \ {m.id}
        /\ UNCHANGED <<controlCount, adapter, list, tokens, torn, pnp>>
    BY <1>7 DEF ReleaseMemory, Busy, Idle
  <2>3. m \in list[m.kind] /\ m \in Listed /\ ~Fatal(m)
    BY <2>1 DEF HandlerHolds, Listed, Fatal
  <2>4. OneAtATime' /\ UnlinkedIsGone' /\ AdapterCovers'
    BY <2>1, <2>2 DEF Alone, OneAtATime, UnlinkedIsGone, AdapterCovers
  <2>5. Unharmed'
    BY <1>7, <2>3 DEF ReleaseMemory, Unharmed
  <2>6. EntriesAreLive'
    BY <2>1, <2>2, <2>3 DEF Alone, EntriesAreLive, Listed
  <2>7. HandlerHolds'
    BY <2>1, <2>2, <2>3 DEF Alone, HandlerHolds
  <2>8. TokensMatch'
    BY <2>1, <2>2 DEF Alone, TokensMatch
  <2> QED
    BY <2>4, <2>5, <2>6, <2>7, <2>8
<1>8. ASSUME NEW h \in Handles, UnlinkEntry(h) PROVE SerialInv'
  <2> DEFINE m == handler[h].mem
  <2>1. Alone(h) /\ handler[h].at = "unlink" /\ m.kind \in Kinds
    BY <1>0, <1>8 DEF UnlinkEntry, OneAtATime, Alone
  <2>2. /\ handler'[h].at = "idle"
        /\ UNCHANGED <<controlCount, adapter, live, tokens, pnp>>
    BY <1>8 DEF UnlinkEntry, Idle
  <2>3. /\ \A k \in Kinds : list'[k] \subseteq list[k]
        /\ \A k \in Kinds : \A e \in list[k] : e = m \/ e \in list'[k]
        /\ m \notin list'[m.kind]
    BY <1>8, <2>1 DEF UnlinkEntry
  <2>4. m.id \notin live /\ m \in list[m.kind]
    BY <2>1 DEF UnlinkedIsGone, HandlerHolds
  <2>5. OneAtATime' /\ UnlinkedIsGone' /\ AdapterCovers'
    BY <2>1, <2>2, <2>3 DEF Alone, OneAtATime, UnlinkedIsGone, AdapterCovers
  <2>6. Unharmed'
    BY <1>8, <2>1, <2>4 DEF UnlinkEntry, Unharmed, Alone, Walkers
  <2>7. EntriesAreLive'
    BY <2>1, <2>2, <2>3 DEF Alone, EntriesAreLive, Listed
  <2>8. HandlerHolds' /\ TokensMatch'
    BY <1>t, <2>1, <2>2, <2>3, <2>4 DEF Alone, HandlerHolds, TokensMatch
  <2> QED
    BY <2>5, <2>6, <2>7, <2>8
<1>9. CASE ReleaseDevice \/ PutAdapter \/ StartDevice
  <2>1. /\ UNCHANGED <<controlCount, list, live, handler, tokens, torn, crashed>>
        /\ pnp' # "idle" => \A h \in Handles : handler[h].at = "idle"
        /\ adapter => adapter' \/ \A h \in Handles : handler[h].at = "idle"
    BY <1>0, <1>9 DEF ReleaseDevice, PutAdapter, StartDevice, Begins, OneAtATime
  <2>2. /\ pnp' \notin {"mmap", "adapter"}
        /\ list["dma"] # {} => adapter'
    BY <1>9 DEF ReleaseDevice, PutAdapter, StartDevice, AdapterCovers
  <2>3. OneAtATime' /\ UnlinkedIsGone' /\ AdapterCovers' /\ Unharmed'
    BY <2>1, <2>2 DEF OneAtATime, UnlinkedIsGone, AdapterCovers, Unharmed
  <2>4. EntriesAreLive' /\ HandlerHolds' /\ TokensMatch'
    BY <2>1 DEF EntriesAreLive, HandlerHolds, TokensMatch, Listed
  <2> QED
    BY <2>3, <2>4
<1>10. ASSUME NEW k \in Kinds, NEW next \in {"mmap", "adapter"},
              k = "mmap" <=> next = "adapter", DrainList(k, next)
       PROVE  SerialInv'
  <2>1. /\ UNCHANGED <<controlCount, adapter, handler, tokens>>
        /\ pnp = k /\ \A h \in Handles : handler[h].at = "idle"
    BY <1>10 DEF DrainList, OneAtATime
  <2>2. CASE list[k] = {} /\ pnp' = next /\ UNCHANGED <<list, live, torn, crashed>>
    <3>1. OneAtATime' /\ UnlinkedIsGone' /\ AdapterCovers' /\ Unharmed'
      BY <1>10, <2>1, <2>2 DEF OneAtATime, UnlinkedIsGone, AdapterCovers, Unharmed
    <3>2. EntriesAreLive' /\ HandlerHolds' /\ TokensMatch'
      BY <2>1, <2>2 DEF EntriesAreLive, HandlerHolds, TokensMatch, Listed
    <3> QED
      BY <3>1, <3>2
  <2>3. ASSUME NEW m \in list[k], crashed' = (crashed \/ Fatal(m)), live' = live \ {m.id},
               list' = [list EXCEPT ![k] = @ \ {m}], torn' = torn \cup Walkers(k), pnp' = pnp
        PROVE  SerialInv'
    <3>1. /\ m.kind = k /\ m.id \in live /\ m \in Listed
          /\ k = "dma" => adapter
      BY <2>1 DEF EntriesAreLive, AdapterCovers, Listed
    <3>2. /\ \A j \in Kinds : list'[j] \subseteq list[j]
          /\ \A j \in Kinds : \A e \in list[j] : e = m \/ e \in list'[j]
          /\ m \notin list'[k]
      BY <2>3
    <3>3. \A e \in Listed : e # m => e.id # m.id
      BY <3>1 DEF EntriesAreLive
    <3>4. OneAtATime' /\ UnlinkedIsGone' /\ AdapterCovers' /\ Unharmed'
      BY <2>1, <2>3, <3>1, <3>2
         DEF OneAtATime, UnlinkedIsGone, AdapterCovers, Unharmed, Fatal, Walkers
    <3>5. EntriesAreLive'
      BY <2>1, <2>3, <3>1, <3>2, <3>3 DEF EntriesAreLive, Listed
    <3>6. HandlerHolds' /\ TokensMatch'
      BY <1>t, <2>1, <2>3, <3>1, <3>2 DEF HandlerHolds, TokensMatch
    <3> QED
      BY <3>4, <3>5, <3>6
  <2> QED
    BY <1>10, <2>2, <2>3 DEF DrainList
<1>11. CASE UNCHANGED memVars
  BY <1>11 DEF memVars, OneAtATime, EntriesAreLive, HandlerHolds, AdapterCovers,
               TokensMatch, UnlinkedIsGone, Unharmed, Listed
<1> QED
  BY <1>1, <1>2, <1>3, <1>4, <1>5, <1>6, <1>7, <1>8, <1>9, <1>10, <1>11, <1>12,
     <1>13, MemorySteps

LEMMA SerialInvariant == SpecMemory => [](~overlapped => SerialInv)
<1>1. InitMemory => SerialInv
  BY DEF InitMemory, SerialInv, OneAtATime, EntriesAreLive, HandlerHolds, AdapterCovers,
         TokensMatch, UnlinkedIsGone, Unharmed, Listed, Kinds, Idle
<1>2. [NextMemory]_memVars => (overlapped => overlapped')
  BY MemorySteps DEF RequestMemory, ObtainMemory, CountMemory, RecordIndex, InsertEntry, Reply,
     BeginWalk, FindEntry, ReleaseMemory, UnlinkEntry, ReleaseDevice, PutAdapter, StartDevice, DrainList,
     Begins, memVars
<1>3. TypeOKMemory /\ (~overlapped => SerialInv) /\ [NextMemory]_memVars
        => (~overlapped => SerialInv)'
  BY <1>2, SerialStep
<1> QED
  BY <1>1, <1>3, MemoryTypeCorrect, PTL DEF SpecMemory

\* While calls and releases do not overlap no memory is released twice or
\* without its adapter, however maps, unmaps, stops, failed starts and
\* removals follow each other.
THEOREM SerialCallsNeverCrash == SpecMemory => []NeverCrashes
<1>1. (~overlapped => SerialInv) => NeverCrashes
  BY DEF SerialInv, NeverCrashes, Unharmed
<1> QED
  BY <1>1, SerialInvariant, PTL

\* While calls and releases do not overlap every reply names its own memory,
\* even after the memory is gone and its address in use again.
THEOREM SerialTokensAreRight == SpecMemory => []TokenNamesItsMemory
<1>1. TypeOKMemory /\ (~overlapped => SerialInv) => TokenNamesItsMemory
  <2> SUFFICES ASSUME TypeOKMemory, SerialInv, NEW h \in Handles, NEW t \in tokens[h]
               PROVE  /\ \A m \in Matches(t) : m.id = t.id
                      /\ t.id \in live => Matches(t) # {}
    BY DEF TokenNamesItsMemory
  <2>1. t.index = t.id /\ t.kind \in Kinds /\ (t.id \in live => t \in list[t.kind])
    BY DEF SerialInv, TokensMatch, TypeOKMemory, Memory
  <2>2. \A m \in list[t.kind] : m.index = m.id
    BY <2>1 DEF SerialInv, EntriesAreLive
  <2> QED
    BY <2>1, <2>2 DEF Matches
<1> QED
  BY <1>1, SerialInvariant, MemoryTypeCorrect, PTL

\* While calls and releases do not overlap no DMA buffer outlives its adapter.
THEOREM SerialBuffersHaveAdapter == SpecMemory => []BuffersHaveAdapter
<1>1. (~overlapped => SerialInv) => BuffersHaveAdapter
  BY DEF SerialInv, AdapterCovers, BuffersHaveAdapter
<1> QED
  BY <1>1, SerialInvariant, PTL
=============================================================================
