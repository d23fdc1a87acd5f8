------------------------------ MODULE MediaCache ------------------------------
(***************************************************************************)
(* The disk cache of media cuts, internal/mediacache/mediacache.go, under  *)
(* its three users: media requests (MediaHandler and GetMedia in           *)
(* internal/server/media.go: the cache first, then Frigate directly, with  *)
(* a spool file when one is free), the warmer (Fill, Evict) and the single *)
(* stitch worker (Contains, then Put).                                     *)
(*                                                                         *)
(* A Fill is one action per critical section and per file operation that   *)
(* another goroutine can come between: join or lead a flight, take a fill  *)
(* slot, download to a part file, rename it, enter it, give the slot back, *)
(* end the flight, wake the waiters.                                       *)
(*                                                                         *)
(* The last-use numbers are abstracted to the order they induce, and a     *)
(* file to its size (0: no file).                                          *)
(***************************************************************************)
EXTENDS Integers, Sequences, FiniteSets, SequencesExt, FiniteSetsExt

CONSTANTS
  ClipKeys,    \* keys of fetched cuts and snapshots, entered by Fill
  StitchKeys,  \* keys of stitched renders, entered by Put
  Sizes,       \* sizes a file may have
  Budget,      \* the budget given to New
  MaxSpools,   \* the capacity of spoolSlots
  MaxFills,    \* maxFills: fills that may download at once
  Callers,     \* goroutines serving requests or warming
  None

Keys == ClipKeys \cup StitchKeys

ASSUME CacheAssumption ==
  /\ ClipKeys \cap StitchKeys = {} /\ IsFiniteSet(Keys)
  /\ None \notin Callers \cup Keys
  /\ Sizes \subseteq Nat \ {0}
  /\ Budget \in Nat /\ MaxFills \in Nat \ {0} /\ MaxSpools \in Nat \ {0}

VARIABLES
  cache,     \* entries, LRU order, size and completed files (below)
  parts,     \* keys with a part file on disk
  inflight,  \* key -> the caller leading its flight, or None
  slots,     \* callers holding a fill slot
  spools,    \* callers holding a spool slot
  call,      \* caller -> its call's state
  stitcher   \* the stitch worker's state

vars == <<cache, parts, inflight, slots, spools, call, stitcher>>

------------------------------------------------------------------------------
(***************************************************************************)
(* The critical sections, as functions of the locked state.                *)
(***************************************************************************)
\* entries: key -> size (0: none); lru: the entered keys, least recently used
\* first; size: the byte counter; files: key -> size of the completed file.
Empty ==
  [entries |-> [k \in Keys |-> 0], lru |-> <<>>, size |-> 0, files |-> [k \in Keys |-> 0]]

Without(s, k) ==
  IF k \in ToSet(s) THEN RemoveAt(s, CHOOSE i \in DOMAIN s : s[i] = k) ELSE s

Used(c, k) == [c EXCEPT !.lru = Append(Without(@, k), k)]

\* A mutant of DropEntry that forgets to uncharge.
DropStillCharged(c, k) ==
  [entries |-> [c.entries EXCEPT ![k] = 0],
   lru     |-> Without(c.lru, k),
   size    |-> c.size,
   files   |-> [c.files EXCEPT ![k] = 0]]

\* drop: remove the file, uncharge, forget.
DropEntry(c, k) ==
  [entries |-> [c.entries EXCEPT ![k] = 0],
   lru     |-> Without(c.lru, k),
   size    |-> c.size - c.entries[k],
   files   |-> [c.files EXCEPT ![k] = 0]]

\* A mutant of Shed that stops one entry early: it spares the newest two.
ShedSparesTwo(c) ==
  LET turn[n \in 0 .. Len(c.lru)] ==
        IF n = 0 THEN c
        ELSE IF turn[n - 1].size > Budget /\ Len(turn[n - 1].lru) > 2
        THEN DropEntry(turn[n - 1], Head(turn[n - 1].lru)) ELSE turn[n - 1]
  IN  turn[Len(c.lru)]

\* shed: evict the least recently used until the budget holds, but never the
\* last entry.  There are at most as many turns as entries.
Shed(c) ==
  LET turn[n \in 0 .. Len(c.lru)] ==
        IF n = 0 THEN c
        ELSE IF turn[n - 1].size > Budget /\ Len(turn[n - 1].lru) > 1
        THEN DropEntry(turn[n - 1], Head(turn[n - 1].lru)) ELSE turn[n - 1]
  IN  turn[Len(c.lru)]

\* k is given an entry of n bytes, and charge is added to the counter.
Noted(c, k, n, charge) ==
  [entries |-> [c.entries EXCEPT ![k] = n],
   lru     |-> c.lru,
   size    |-> c.size + charge,
   files   |-> c.files]

\* os.Rename: a file of n bytes is in k's place.
Renamed(c, k, n) == [c EXCEPT !.files = [@ EXCEPT ![k] = n]]

\* fill's last critical section.
Entered(c, k, n) == Shed(Used(Noted(c, k, n, n), k))

\* Put's critical section: an existing entry is replaced.
Adopted(c, k, n) == Shed(Used(Noted(c, k, n, n - c.entries[k]), k))

------------------------------------------------------------------------------
(***************************************************************************)
(* Get and Fill.                                                           *)
(***************************************************************************)
Idle == [pc |-> "idle", key |-> None, leader |-> None, ok |-> FALSE]

At(c, pc) == call[c].pc = pc
Goto(c, pc) == call' = [call EXCEPT ![c].pc = pc]
Result(c, pc, ok) == call' = [call EXCEPT ![c].pc = pc, ![c].ok = ok]

\* Get (or Fill's first look) finds the cut.
Hit(c, k) ==
  /\ At(c, "idle") /\ cache.entries[k] # 0
  /\ cache' = Used(cache, k)
  /\ call' = [call EXCEPT ![c] = [Idle EXCEPT !.pc = "open", !.key = k, !.ok = TRUE]]
  /\ UNCHANGED <<parts, inflight, slots, spools, stitcher>>

\* Fill finds a flight for the key and waits for it.
Join(c, k) ==
  /\ At(c, "idle") /\ cache.entries[k] = 0 /\ inflight[k] # None
  /\ call' = [call EXCEPT ![c] = [Idle EXCEPT !.pc = "wait", !.key = k, !.leader = inflight[k]]]
  /\ UNCHANGED <<cache, parts, inflight, slots, spools, stitcher>>

\* A mutant of Lead that does not look for a flight.
LeadAnyway(c, k) ==
  /\ At(c, "idle") /\ cache.entries[k] = 0
  /\ inflight' = [inflight EXCEPT ![k] = c]
  /\ call' = [call EXCEPT ![c] = [Idle EXCEPT !.pc = "slot", !.key = k]]
  /\ UNCHANGED <<cache, parts, slots, spools, stitcher>>

\* Fill finds neither and leads a flight of its own.
Lead(c, k) ==
  /\ At(c, "idle") /\ cache.entries[k] = 0 /\ inflight[k] = None
  /\ inflight' = [inflight EXCEPT ![k] = c]
  /\ call' = [call EXCEPT ![c] = [Idle EXCEPT !.pc = "slot", !.key = k]]
  /\ UNCHANGED <<cache, parts, slots, spools, stitcher>>

\* The caller's own context ends while it waits for a flight or for a slot.
Cancelled(c) ==
  /\ \/ At(c, "wait") /\ Result(c, "return", FALSE)
     \/ At(c, "slot") /\ Result(c, "unflight", FALSE)
  /\ UNCHANGED <<cache, parts, inflight, slots, spools, stitcher>>

TakeSlot(c) ==
  /\ At(c, "slot") /\ Cardinality(slots) < MaxFills
  /\ slots' = slots \cup {c}
  /\ Goto(c, "fetch")
  /\ UNCHANGED <<cache, parts, inflight, spools, stitcher>>

\* fetch answers and the part file is created; or either fails.
Fetch(c) ==
  /\ At(c, "fetch")
  /\ \/ parts' = parts \cup {call[c].key} /\ Goto(c, "copy")
     \/ UNCHANGED parts /\ Result(c, "release", FALSE)
  /\ UNCHANGED <<cache, inflight, slots, spools, stitcher>>

\* The body is copied and the part renamed to the cut; or something fails and
\* the part is removed.
Copy(c, n) ==
  /\ At(c, "copy")
  /\ parts' = parts \ {call[c].key}
  /\ \/ /\ cache' = Renamed(cache, call[c].key, n)
        /\ Goto(c, "enter")
     \/ UNCHANGED cache /\ Result(c, "release", FALSE)
  /\ UNCHANGED <<inflight, slots, spools, stitcher>>

Enter(c) ==
  /\ At(c, "enter")
  /\ cache' = Entered(cache, call[c].key, cache.files[call[c].key])
  /\ Result(c, "release", TRUE)
  /\ UNCHANGED <<parts, inflight, slots, spools, stitcher>>

\* A mutant of Release that returns with its token on the error path.
ReleaseOnSuccess(c) ==
  /\ At(c, "release")
  /\ slots' = IF call[c].ok THEN slots \ {c} ELSE slots
  /\ Goto(c, "unflight")
  /\ UNCHANGED <<cache, parts, inflight, spools, stitcher>>

Release(c) ==
  /\ At(c, "release")
  /\ slots' = slots \ {c}
  /\ Goto(c, "unflight")
  /\ UNCHANGED <<cache, parts, inflight, spools, stitcher>>

Unflight(c) ==
  /\ At(c, "unflight")
  /\ inflight' = [inflight EXCEPT ![call[c].key] = None]
  /\ Goto(c, "close")
  /\ UNCHANGED <<cache, parts, slots, spools, stitcher>>

\* close(f.done): whoever waits for this flight has its result.
Close(c) ==
  /\ At(c, "close")
  /\ call' = [d \in Callers |->
       IF d = c THEN [call[c] EXCEPT !.pc = "return"]
       ELSE IF At(d, "wait") /\ call[d].leader = c
       THEN [call[d] EXCEPT !.pc = "return", !.ok = call[c].ok]
       ELSE call[d]]
  /\ UNCHANGED <<cache, parts, inflight, slots, spools, stitcher>>

\* Fill returns: a request opens the path, and goes to Frigate on an error; the
\* warmer is done.
Return(c) ==
  /\ At(c, "return")
  /\ \/ call' = [call EXCEPT ![c] = Idle]
     \/ Goto(c, IF call[c].ok THEN "open" ELSE "direct")
  /\ UNCHANGED <<cache, parts, inflight, slots, spools, stitcher>>

\* serveCached opens the file and serves it; one evicted since the lookup is
\* asked of Frigate.
Open(c) ==
  /\ At(c, "open")
  /\ call' = [call EXCEPT ![c] = IF cache.files[@.key] = 0 THEN [@ EXCEPT !.pc = "direct"]
                                 ELSE Idle]
  /\ UNCHANGED <<cache, parts, inflight, slots, spools, stitcher>>

------------------------------------------------------------------------------
(***************************************************************************)
(* The direct path: GetMedia, and MediaHandler when the cache does not     *)
(* answer.                                                                 *)
(***************************************************************************)
\* GetMedia fetches and streams; it asks no cache and needs no spool.
GetMedia(c) ==
  /\ At(c, "idle")
  /\ Goto(c, "stream")
  /\ UNCHANGED <<cache, parts, inflight, slots, spools, stitcher>>

\* serveCached: a cut that may still change, or has not settled, is not kept.
Unstable(c) ==
  /\ At(c, "idle")
  /\ Goto(c, "direct")
  /\ UNCHANGED <<cache, parts, inflight, slots, spools, stitcher>>

\* fetch: no such media, or no answer; or there is a body to serve.
Direct(c) ==
  /\ At(c, "direct")
  /\ (call' = [call EXCEPT ![c] = Idle] \/ Goto(c, "answer"))
  /\ UNCHANGED <<cache, parts, inflight, slots, spools, stitcher>>

\* MediaHandler: HEAD wants no body; a stable cut is served by ranges, anything
\* else streams.
Answer(c) ==
  /\ At(c, "answer")
  /\ (call' = [call EXCEPT ![c] = Idle] \/ Goto(c, "ranged") \/ Goto(c, "stream"))
  /\ UNCHANGED <<cache, parts, inflight, slots, spools, stitcher>>

\* serveRanged takes a spool slot if one is free, and never queues for one.
TakeSpool(c) ==
  /\ At(c, "ranged")
  /\ \/ /\ Cardinality(spools) < MaxSpools
        /\ spools' = spools \cup {c} /\ Goto(c, "spool")
     \/ /\ Cardinality(spools) >= MaxSpools
        /\ UNCHANGED spools /\ Goto(c, "stream")
  /\ UNCHANGED <<cache, parts, inflight, slots, stitcher>>

\* A mutant of Spool that streams without giving the slot back when no spool
\* file can be made.
SpoolLeaks(c) ==
  /\ At(c, "spool")
  /\ \/ spools' = spools \ {c} /\ call' = [call EXCEPT ![c] = Idle]
     \/ UNCHANGED spools /\ Goto(c, "stream")
  /\ UNCHANGED <<cache, parts, inflight, slots, stitcher>>

\* The body is spooled and served, or breaks off; or no spool file can be made
\* and it streams.  The slot is given back on every way out.
Spool(c) ==
  /\ At(c, "spool")
  /\ spools' = spools \ {c}
  /\ (call' = [call EXCEPT ![c] = Idle] \/ Goto(c, "stream"))
  /\ UNCHANGED <<cache, parts, inflight, slots, stitcher>>

\* The body is copied to the client until one of the two ends.
Stream(c) ==
  /\ At(c, "stream")
  /\ call' = [call EXCEPT ![c] = Idle]
  /\ UNCHANGED <<cache, parts, inflight, slots, spools, stitcher>>

------------------------------------------------------------------------------
(***************************************************************************)
(* Evict (the warmer, of a superseded checkpoint), the stitch worker, and  *)
(* a restart of the process, whose New finds what the crash left on disk.  *)
(***************************************************************************)
Evict(k) ==
  /\ cache.entries[k] # 0
  /\ cache' = DropEntry(cache, k)
  /\ UNCHANGED <<parts, inflight, slots, call, spools, stitcher>>

NoStitch == [pc |-> "idle", key |-> None]

\* stitch: nothing to do when the render is cached; else render into a work
\* directory beside the cuts.
Stitch(k) ==
  /\ stitcher.pc = "idle" /\ cache.entries[k] = 0
  /\ stitcher' = [pc |-> "render", key |-> k]
  /\ UNCHANGED <<cache, parts, inflight, slots, spools, call>>

\* A shot, the concatenation or the rename fails; the worker's own work
\* directory and part file go, as they do when it succeeds.
StitchFails ==
  /\ stitcher.pc = "render"
  /\ stitcher' = NoStitch
  /\ UNCHANGED <<cache, parts, inflight, slots, spools, call>>

\* Put moves the render into place, then takes the lock.
PutRename(n) ==
  /\ stitcher.pc = "render"
  /\ cache' = Renamed(cache, stitcher.key, n)
  /\ stitcher' = [stitcher EXCEPT !.pc = "put"]
  /\ UNCHANGED <<parts, inflight, slots, spools, call>>

Put ==
  /\ stitcher.pc = "put"
  /\ cache' = Adopted(cache, stitcher.key, cache.files[stitcher.key])
  /\ stitcher' = NoStitch
  /\ UNCHANGED <<parts, inflight, slots, spools, call>>

\* New removes every file in the directory, completed or not.  (A crashed
\* render's work directory, which os.Remove leaves, is no file of the cache.)
Restart ==
  /\ cache' = Empty /\ parts' = {}
  /\ inflight' = [k \in Keys |-> None] /\ slots' = {} /\ spools' = {}
  /\ call' = [c \in Callers |-> Idle] /\ stitcher' = NoStitch

------------------------------------------------------------------------------
Init ==
  /\ cache = Empty /\ parts = {}
  /\ inflight = [k \in Keys |-> None] /\ slots = {} /\ spools = {}
  /\ call = [c \in Callers |-> Idle]
  /\ stitcher = NoStitch

Caller(c) ==
  \/ TakeSlot(c) \/ Fetch(c) \/ (\E n \in Sizes : Copy(c, n))
  \/ Enter(c) \/ Release(c) \/ Unflight(c) \/ Close(c) \/ Return(c) \/ Open(c)
  \/ Direct(c) \/ Answer(c) \/ TakeSpool(c) \/ Spool(c) \/ Stream(c)

Next ==
  \/ \E c \in Callers : Caller(c) \/ Cancelled(c) \/ GetMedia(c) \/ Unstable(c)
  \/ \E c \in Callers, k \in Keys : Hit(c, k)
  \/ \E c \in Callers, k \in ClipKeys : Join(c, k) \/ Lead(c, k)
  \/ \E k \in ClipKeys : Evict(k)
  \/ \E k \in StitchKeys : Stitch(k)
  \/ StitchFails \/ (\E n \in Sizes : PutRename(n)) \/ Put
  \/ Restart

Spec == Init /\ [][Next]_vars

\* Goroutines run, and a fetch ends (with an answer, an error or its context).
\* A slot is a channel send: a goroutine blocked on it is served in turn.
Fairness ==
  \A c \in Callers : WF_vars(Caller(c) /\ ~At(c, "slot")) /\ SF_vars(TakeSlot(c))

FairSpec == Spec /\ Fairness

------------------------------------------------------------------------------
(***************************************************************************)
(* Properties.                                                             *)
(***************************************************************************)
Leading == {"slot", "fetch", "copy", "enter", "release", "unflight"}

\* media.go serveRanged: a spool slot is held exactly while a request spools,
\* whatever ended the one before, so that the slots never run out for good.
SpoolsGivenBack ==
  /\ spools = {c \in Callers : At(c, "spool")}
  /\ Cardinality(spools) <= MaxSpools

\* mediacache.go fill, Put, drop: the map, the byte counter, the LRU order and
\* the directory agree.  Every entry has its whole file, no completed file is
\* left without an entry except while the operation that renamed it is about to
\* enter it, and the counter is the sum of the entries.
DiskAccounted ==
  /\ \A k \in Keys : cache.entries[k] # 0 => cache.files[k] = cache.entries[k]
  /\ \A k \in Keys : cache.files[k] # 0 /\ cache.entries[k] = 0 =>
       \/ \E c \in Callers : At(c, "enter") /\ call[c].key = k
       \/ stitcher = [pc |-> "put", key |-> k]
  /\ ToSet(cache.lru) = {k \in Keys : cache.entries[k] # 0}
  /\ Len(cache.lru) = Cardinality(ToSet(cache.lru))
  /\ cache.size = MapThenSumSet(LAMBDA k : cache.entries[k], Keys)

\* mediacache.go shed: outside the critical sections the cache is within its
\* budget, or holds the one newest cut that alone exceeds it.
BudgetOrNewest == cache.size <= Budget \/ Len(cache.lru) = 1

\* mediacache.go Fill: callers of one key share a single fetch, so that no two
\* write the same part file, and no more than maxFills download at once.
SingleFlight ==
  /\ \A c, d \in Callers : c # d /\ call[c].pc \in Leading /\ call[d].pc \in Leading
                           => call[c].key # call[d].key
  /\ \A c \in Callers : call[c].pc \in {"fetch", "copy", "enter"} => c \in slots
  /\ Cardinality(slots) <= MaxFills

\* mediacache.go Fill, media.go MediaHandler: every call returns.  A waiter is
\* woken by its flight whatever became of it, a leader gets its fill slot, and a
\* request that finds no spool slot does not wait for one.
FillReturns == \A c \in Callers : ~At(c, "idle") ~> At(c, "idle")
==============================================================================
