---------------------------- MODULE BufferCache ----------------------------
(***************************************************************************)
(* The block cache between the drivers and the disk and its writeback      *)
(* timer (fs/buffer-cache.ts, classes BufferCache and WritebackTimer),     *)
(* used the way the header of that file prescribes: a driver that misses   *)
(* reads the block from the device and puts it in clean, and a write puts  *)
(* the block in dirty.  A writeback handler may throw.                     *)
(*                                                                         *)
(* `order' is the iteration order of the Map, `lru' the order of lastUsed; *)
(* both hold the cached blocks.  Time is counted up to the flush interval, *)
(* beyond which the code does not tell times apart.                        *)
(***************************************************************************)
EXTENDS Integers, Sequences, FiniteSets, Arrays

CONSTANTS
    Blocks, Devices, DeviceOf,  \* the keys "<devId>:<blockNo>"
    Values,                     \* block contents
    MaxEntries,                 \* maxEntries
    Interval,                   \* intervalTicks
    CanFail                     \* whether a writeback handler may throw

\* What the constants must be.
BoundsOK ==
    /\ DeviceOf \in [Blocks -> Devices]
    /\ Values # {}
    /\ MaxEntries \in Nat \ {0}
    /\ Interval \in Nat \ {0}
    /\ CanFail \in BOOLEAN

VARIABLES
    data, dirty,   \* the fields of the cached entries
    order, lru,
    registered,    \* the devices in writebackFns
    disk,          \* the contents of the devices
    uptime,        \* kernel.getTicks(), up to Interval
    sinceFlush     \* uptime minus lastFlush, up to Interval

entries == <<data, dirty, order, lru>>
timer == <<uptime, sinceFlush>>
vars == <<entries, registered, disk, timer>>

Elements(s) == {s[i] : i \in 1..Len(s)}
Cached == Elements(lru)
Without(s, S) == Filtered(s, {i \in 1..Len(s) : s[i] \notin S})

Init ==
    /\ disk \in [Blocks -> Values]
    /\ data = disk
    /\ dirty = {}
    /\ order = <<>> /\ lru = <<>>
    /\ registered = {}
    /\ uptime = 0 /\ sinceFlush = 0

\* What a driver sees of a block.
View(b) == IF b \in Cached THEN data[b] ELSE disk[b]
-----------------------------------------------------------------------------
RegisterDevice(d) ==
    /\ registered' = registered \cup {d}
    /\ UNCHANGED <<entries, disk, timer>>

\* Entries leave the cache without writeback.  What is kept of their data is
\* of no account; it is reset to the disk's.
Drop(S) ==
    /\ data' = [b \in Blocks |-> IF b \in S THEN disk[b] ELSE data[b]]
    /\ dirty' = dirty \ S
    /\ order' = Without(order, S)
    /\ lru' = Without(lru, S)
    /\ UNCHANGED <<disk, timer>>

UnregisterDevice(d) ==
    /\ registered' = registered \ {d}
    /\ Drop({b \in Cached : DeviceOf[b] = d})

Invalidate(b) ==
    /\ b \in Cached
    /\ Drop({b})
    /\ UNCHANGED registered

InvalidateDevice(d) ==
    /\ Drop({b \in Cached : DeviceOf[b] = d})
    /\ UNCHANGED registered

\* get() on a hit.
Get(b) ==
    /\ b \in Cached
    /\ lru' = Append(Without(lru, {b}), b)
    /\ UNCHANGED <<data, dirty, order, registered, disk, timer>>

MarkDirty(b) ==
    /\ b \in Cached
    /\ dirty' = dirty \cup {b}
    /\ UNCHANGED <<data, order, lru, registered, disk, timer>>
-----------------------------------------------------------------------------
\* put() on a block that is cached.
Update(b, v, d) ==
    /\ b \in Cached
    /\ data' = [data EXCEPT ![b] = v]
    /\ dirty' = IF d THEN dirty \cup {b} ELSE dirty
    /\ lru' = Append(Without(lru, {b}), b)
    /\ UNCHANGED <<order, registered, disk, timer>>

First(S) == CHOOSE b \in S : \E i \in 1..Len(lru) : lru[i] = b /\ \A j \in 1..i - 1 : lru[j] \notin S

\* Mutant: the oldest entry, dirty or not.
VictimAny == First(Cached)

\* _evictLRU: the least recently used clean entry, else the least recently used.
Victim == IF Cached \subseteq dirty THEN First(Cached) ELSE First(Cached \ dirty)

\* Mutant: the victim is deleted unwritten.
EvictedUnwritten(v) == disk

\* The disk after the eviction of v: a dirty block is written if its device is
\* registered.
Evicted(v) ==
    IF v \in dirty /\ DeviceOf[v] \in registered THEN [disk EXCEPT ![v] = data[v]] ELSE disk

Full == Cardinality(Cached) >= MaxEntries

\* put() of a new block, with the eviction that makes room for it.
Insert(b, v, d) ==
    /\ b \notin Cached
    /\ LET out == IF Full THEN {Victim} ELSE {}
       IN  /\ disk' = IF out = {} THEN disk ELSE Evicted(Victim)
           /\ data' = [e \in Blocks |-> IF e = b THEN v ELSE IF e \in out THEN disk'[e] ELSE data[e]]
           /\ dirty' = (dirty \ out) \cup (IF d THEN {b} ELSE {})
           /\ order' = Append(Without(order, out), b)
           /\ lru' = Append(Without(lru, out), b)
    /\ UNCHANGED <<registered, timer>>

\* A write; if the handler throws during the eviction, put() has changed nothing.
Write(b, v) == Update(b, v, TRUE) \/ Insert(b, v, TRUE)

\* A read that misses: the driver reads the device and puts the block clean.
Fill(b) == Insert(b, disk[b], FALSE)
-----------------------------------------------------------------------------
\* Mutant: the loop ends one entry early.
ToFlushShort(devs, n) ==
    {order[i] : i \in {j \in 1..n - 1 : order[j] \in dirty /\ DeviceOf[order[j]] \in devs \cap registered}}

\* The entries flush() comes to for the devices devs, among the first n.
ToFlush(devs, n) ==
    {order[i] : i \in {j \in 1..n : order[j] \in dirty /\ DeviceOf[order[j]] \in devs \cap registered}}

\* Mutant: the flag is cleared whether or not there is a handler.
WriteBackUnchecked(S) ==
    /\ disk' = [b \in Blocks |-> IF b \in S THEN data[b] ELSE disk[b]]
    /\ dirty' = {}

WriteBack(S) ==
    /\ disk' = [b \in Blocks |-> IF b \in S THEN data[b] ELSE disk[b]]
    /\ dirty' = dirty \ S

\* flush(), flush(devId)
Flush(devs) ==
    /\ WriteBack(ToFlush(devs, Len(order)))
    /\ UNCHANGED <<data, order, lru, registered, timer>>

\* The handler of the entry at position n throws: those before it are done.
FlushFails(devs) ==
    /\ CanFail
    /\ \E n \in 1..Len(order) :
        /\ order[n] \in ToFlush(devs, n)
        /\ WriteBack(ToFlush(devs, n - 1))
    /\ UNCHANGED <<data, order, lru, registered, timer>>

Ticked(t) == IF t < Interval THEN t + 1 ELSE Interval

\* One timer tick and the frame that looks at it.
TimerTick ==
    /\ uptime' = Ticked(uptime)
    /\ IF Ticked(sinceFlush) >= Interval
       THEN /\ WriteBack(ToFlush(Devices, Len(order)))
            /\ sinceFlush' = 0
       ELSE /\ sinceFlush' = Ticked(sinceFlush)
            /\ UNCHANGED <<disk, dirty>>
    /\ UNCHANGED <<data, order, lru, registered>>

\* A handler throws during the timer's flush: lastFlush keeps its value.
TimerTickFails ==
    /\ CanFail
    /\ uptime' = Ticked(uptime)
    /\ Ticked(sinceFlush) >= Interval
    /\ sinceFlush' = Interval
    /\ \E n \in 1..Len(order) :
        /\ order[n] \in ToFlush(Devices, n)
        /\ WriteBack(ToFlush(Devices, n - 1))
    /\ UNCHANGED <<data, order, lru, registered>>

\* forceFlush() sets lastFlush to 0.
ForceFlush ==
    /\ WriteBack(ToFlush(Devices, Len(order)))
    /\ sinceFlush' = uptime
    /\ UNCHANGED <<data, order, lru, registered, uptime>>

Next ==
    \/ \E d \in Devices : RegisterDevice(d)
    \/ \E d \in Devices : UnregisterDevice(d)
    \/ \E b \in Blocks : Invalidate(b)
    \/ \E d \in Devices : InvalidateDevice(d)
    \/ \E b \in Blocks : Get(b)
    \/ \E b \in Blocks : MarkDirty(b)
    \/ \E b \in Blocks, v \in Values : Write(b, v)
    \/ \E b \in Blocks : Fill(b)
    \/ \E d \in Devices : Flush({d})
    \/ Flush(Devices)
    \/ \E d \in Devices : FlushFails({d})
    \/ FlushFails(Devices)
    \/ TimerTick
    \/ TimerTickFails
    \/ ForceFlush

Spec == Init /\ [][Next]_vars

\* The timer interrupt keeps counting, the main loop calls tick(), and the handlers
\* do not throw for ever: one block that can never be written would, in the code,
\* keep the timer from the entries after it.
FairSpec == Spec /\ WF_vars(TimerTick)
-----------------------------------------------------------------------------
\* The two orders list the cached blocks once each, and never more of them
\* than the capacity.
TypeOK ==
    /\ data \in [Blocks -> Values] /\ disk \in [Blocks -> Values]
    /\ registered \subseteq Devices
    /\ uptime \in 0..Interval /\ sinceFlush \in 0..Interval
    /\ order \in Seq(Blocks) /\ lru \in Seq(Blocks)
    /\ Elements(order) = Cached
    /\ Len(order) = Cardinality(Cached) /\ Len(lru) = Cardinality(Cached)
    /\ Cardinality(Cached) <= MaxEntries
    /\ dirty \subseteq Cached

\* An entry that is not marked dirty can be thrown away: the disk has its data.
CleanMatchesDisk == \A b \in Cached \ dirty : data[b] = disk[b]

\* What a driver sees of a block of a registered device changes only when the
\* block is written or its entry is dropped on purpose: evictions, flushes and
\* handlers that throw half-way are invisible.
ViewStable ==
    [][\A b \in Blocks :
          DeviceOf[b] \in registered /\ View(b)' # View(b) =>
              \/ \E v \in Values : Write(b, v)
              \/ Invalidate(b)
              \/ InvalidateDevice(DeviceOf[b])
              \/ UnregisterDevice(DeviceOf[b])]_vars

\* put(): "If the cache is full, the clean LRU entry is evicted first."
CleanEvictedFirst ==
    [][\A b \in Blocks \ Cached :
          b \in Cached' /\ ~(Cached \subseteq dirty) => dirty \subseteq dirty']_vars

\* A dirty block of a registered device reaches the disk, or is dropped on
\* purpose: the timer does not forget it.
DirtyIsWritten ==
    \A b \in Blocks :
        b \in dirty ~> b \notin dirty \/ DeviceOf[b] \notin registered
=============================================================================
