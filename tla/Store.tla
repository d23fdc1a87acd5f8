-------------------------------- MODULE Store --------------------------------
(***************************************************************************)
(* The event store of internal/store/store.go and the WatchEvents stream   *)
(* of internal/server/server.go that reads it.                             *)
(*                                                                         *)
(* The engine's goroutine applies changes; clients watch (a snapshot of    *)
(* what was touched since a time, then every change, through a bounded     *)
(* channel) and page through the list; a timer prunes.  Every operation of *)
(* the store runs under one mutex and is one action; a watcher's receives, *)
(* the end of its stream and the goroutine that drops its subscription are *)
(* steps of their own.                                                     *)
(*                                                                         *)
(* An event's state is abstracted to its list position (start, id), its    *)
(* camera, and rev, the value of the store's applied counter when it was   *)
(* said: two states are the same state exactly when their revs are equal.  *)
(* Ids are naturals, compared as the ids are.                              *)
(***************************************************************************)
EXTENDS Integers, Sequences, FiniteSets, SequencesExt

CONSTANTS
  Ids,         \* event ids: naturals, 0 excluded
  Cameras,     \* cameras an event may name
  Starts,      \* StartedAt values
  Retention,   \* how far back events are kept
  MaxHistory,  \* maxHistory: revisions kept of one event
  WatchBuffer, \* watchBuffer: capacity of a subscription's channel
  PageSize,    \* events a page holds
  Clients,     \* WatchEvents clients
  Pagers,      \* ListEvents clients and house pages, each scanning the list once
  Subs,        \* subscriber identities
  Wants,       \* the camera filters a client may ask for: subsets of Cameras
  Worlds,      \* who and what takes part in a behaviour, and its bounds (below)
  None         \* no entry, no subscription, no cursor

\* A world: the events, their starts and cameras, the clients that take part, how
\* far back a scan may want to look (0: ListEvents, to the end), and the bounds on
\* the changes applied and on the clock.
World ==
  [ids : SUBSET Ids, starts : SUBSET Starts, cameras : SUBSET Cameras,
   clients : SUBSET Clients, pagers : SUBSET Pagers, sinces : SUBSET Nat,
   maxApplied : Nat, maxNow : Nat \ {0}]

\* A stored event.
Entry ==
  [id : Ids, start : Starts, camera : Cameras, rev : Nat, updatedAt : Nat, history : Seq(Nat)]

ASSUME StoreAssumption ==
  /\ Ids \subseteq Nat \ {0} /\ Starts \subseteq Nat
  /\ Retention \in Nat /\ MaxHistory \in Nat \ {0, 1}
  /\ WatchBuffer \in Nat \ {0} /\ PageSize \in Nat \ {0}
  /\ Wants \subseteq SUBSET Cameras
  /\ Worlds \subseteq World
  /\ None \notin Entry /\ None \notin Subs

VARIABLES
  world,     \* the world of this behaviour
  byID,      \* id -> entry, or None
  ordered,   \* the entries, newest first
  cameras,   \* camera names seen
  applied,   \* number of changes applied
  now,       \* the clock: receive times, and Prune's now
  subs,      \* subscriber -> its state
  cur,       \* client -> its open stream's subscriber, or None
  base,      \* client -> the since it watches (again) with; 0: not watching
  want,      \* client -> its camera filter; {}: every camera
  replica,   \* client -> id -> the rev it last received; 0: none
  pager,     \* pager -> its scan
  first      \* history: id -> the rev its stored entry began with

vars == <<world, byID, ordered, cameras, applied, now, subs, cur, base, want, replica, pager, first>>

storeVars == <<world, byID, ordered, cameras, applied, now, first>>
watchVars == <<subs, cur, base, want, replica>>

------------------------------------------------------------------------------
(***************************************************************************)
(* The ordered list.  sort.Search finds the first index at which a         *)
(* predicate holds, the length if it holds nowhere.                        *)
(***************************************************************************)
Cursor(e) == [start |-> e.start, id |-> e.id]

Older(e, c) == IF e.start # c.start THEN e.start < c.start ELSE e.id < c.id
Newer(e, c) == IF e.start # c.start THEN e.start > c.start ELSE e.id > c.id

Search(s, P(_)) ==
  LET i == SelectInSeq(s, P)
  IN  IF i = 0 THEN Len(s) + 1 ELSE i

\* Mutant of InsertEntry: the tie between equal starts is not broken by id.
InsertByStart(s, e) == InsertAt(s, Search(s, LAMBDA x : x.start < e.start), e)

InsertEntry(s, e) == InsertAt(s, Search(s, LAMBDA x : Older(x, Cursor(e))), e)

RemoveEntry(s, e) ==
  LET i == Search(s, LAMBDA x : ~Newer(x, Cursor(e)))
  IN  IF i <= Len(s) /\ s[i] = e THEN RemoveAt(s, i) ELSE s

\* Mutant of Bounded: one revision too many is kept.
BoundedOffByOne(h) ==
  IF Len(h) > MaxHistory
  THEN <<h[1]>> \o SubSeq(h, Len(h) - MaxHistory + 1, Len(h))
  ELSE h

\* Keep the first revision, drop the middle.
Bounded(h) ==
  IF Len(h) > MaxHistory
  THEN <<h[1]>> \o SubSeq(h, Len(h) - MaxHistory + 2, Len(h))
  ELSE h

------------------------------------------------------------------------------
(***************************************************************************)
(* Subscriptions.                                                          *)
(***************************************************************************)
NewSub == [open |-> FALSE, ctxDone |-> FALSE, dead |-> FALSE, closes |-> 0,
           want |-> {}, ch |-> <<>>]

Wanted(w, e) == w = {} \/ e.camera \in w

\* A change carries the event's whole state and is applied as an upsert, so the
\* op that rides along (started, updated, ended) tells a client nothing more.
Change(e) == [id |-> e.id, rev |-> e.rev]

\* Mutant of Offer: a full channel loses the change and the stream goes on.
OfferLossy(sub, e) ==
  IF sub.dead \/ ~Wanted(sub.want, e) \/ Len(sub.ch) >= WatchBuffer THEN sub
  ELSE [sub EXCEPT !.ch = Append(@, Change(e))]

\* offer: deliver without blocking; a full channel ends the subscription.
Offer(sub, e) ==
  IF sub.dead \/ ~Wanted(sub.want, e) THEN sub
  ELSE IF Len(sub.ch) < WatchBuffer
  THEN [sub EXCEPT !.ch = Append(@, Change(e))]
  ELSE [sub EXCEPT !.dead = TRUE, !.closes = @ + 1]

\* Mutant of Snapshot: an event touched exactly at since is left out.
SnapshotAfter(sub, since) ==
  LET turn[n \in 0 .. Len(ordered)] ==
        IF n = 0 THEN sub
        ELSE LET e == ordered[Len(ordered) + 1 - n]
             IN  IF e.updatedAt > since THEN Offer(turn[n - 1], e) ELSE turn[n - 1]
  IN  turn[Len(ordered)]

\* Watch's snapshot: one offer per event touched since, oldest first.
Snapshot(sub, since) ==
  LET turn[n \in 0 .. Len(ordered)] ==
        IF n = 0 THEN sub
        ELSE LET e == ordered[Len(ordered) + 1 - n]
             IN  IF e.updatedAt >= since THEN Offer(turn[n - 1], e) ELSE turn[n - 1]
  IN  turn[Len(ordered)]

------------------------------------------------------------------------------
(***************************************************************************)
(* Writers: the engine's goroutine and the pruning timer.                  *)
(***************************************************************************)
\* An event overtakes a reader when it was yet to come in the list and its new
\* start puts it behind the reader's place.
Overtakes(scan, old, e) ==
  scan.cursor # None /\ old # None /\ Older(old, scan.cursor) /\ ~Older(e, scan.cursor)

Apply(id, start, camera, at) ==
  LET old == byID[id]
      rev == applied + 1
      history == Bounded(Append(IF old = None THEN <<>> ELSE old.history, rev))
      e   == [id |-> id, start |-> start, camera |-> camera,
              rev |-> rev, updatedAt |-> at, history |-> history]
  IN  /\ applied < world.maxApplied
      /\ applied' = rev
      /\ now' = at
      /\ cameras' = cameras \cup {camera}
      /\ byID' = [byID EXCEPT ![id] = e]
      /\ ordered' = InsertEntry(IF old = None THEN ordered ELSE RemoveEntry(ordered, old), e)
      /\ subs' = [s \in Subs |-> IF subs[s].open THEN Offer(subs[s], e) ELSE subs[s]]
      /\ first' = [first EXCEPT ![id] = IF old = None THEN rev ELSE @]
      /\ pager' = [p \in Pagers |->
                     [pager[p] EXCEPT !.owed = IF Overtakes(pager[p], old, e) THEN @ \ {id} ELSE @]]
      /\ UNCHANGED <<world, cur, base, want, replica>>

SawCamera(camera) ==
  /\ cameras' = cameras \cup {camera}
  /\ UNCHANGED <<world, byID, ordered, applied, now, first, pager>> /\ UNCHANGED watchVars

\* The events kept by Prune: it cuts from the old end while they are too old.
Kept(at) ==
  CHOOSE n \in 0..Len(ordered) :
    /\ n > 0 => ordered[n].start >= at - Retention
    /\ \A j \in (n + 1)..Len(ordered) : ordered[j].start < at - Retention

Prune(at) ==
  LET n == Kept(at)
      cut == {ordered[j].id : j \in (n + 1)..Len(ordered)}
  IN  /\ ordered' = SubSeq(ordered, 1, n)
      /\ byID' = [i \in Ids |-> IF i \in cut THEN None ELSE byID[i]]
      /\ now' = at
      /\ pager' = [p \in Pagers |-> [pager[p] EXCEPT !.owed = @ \ cut]]
      /\ UNCHANGED <<world, cameras, applied, first>> /\ UNCHANGED watchVars

------------------------------------------------------------------------------
(***************************************************************************)
(* Watchers: Store.Watch, its dropping goroutine, and WatchEvents.         *)
(***************************************************************************)
\* Watch: snapshot and subscribe under one lock.  A zero since is live only.
Subscribe(c, s, since, w) ==
  /\ cur[c] = None
  /\ ~subs[s].open
  /\ LET sub == [NewSub EXCEPT !.open = TRUE, !.want = w]
     IN  subs' = [subs EXCEPT ![s] = IF since = 0 THEN sub ELSE Snapshot(sub, since)]
  /\ cur' = [cur EXCEPT ![c] = s]
  /\ UNCHANGED storeVars /\ UNCHANGED <<replica, pager>>

\* A client watches for the first time; what it is owed from then on is every
\* event touched since, or, live only, every event touched after this moment.
WatchEvents(c, s, since, w) ==
  /\ base[c] = 0
  /\ since <= now
  /\ Subscribe(c, s, since, w)
  /\ base' = [base EXCEPT ![c] = IF since = 0 THEN now + 1 ELSE since]
  /\ want' = [want EXCEPT ![c] = w]

\* A client that was cut off watches again with its since.
WatchAgain(c, s) ==
  /\ base[c] # 0
  /\ Subscribe(c, s, base[c], want[c])
  /\ UNCHANGED <<base, want>>

\* The stream's loop takes one change from the channel and sends it.
Receive(c) ==
  /\ cur[c] # None
  /\ subs[cur[c]].ch # <<>>
  /\ LET sub == subs[cur[c]]
         m   == Head(sub.ch)
     IN  /\ replica' = [replica EXCEPT ![c] = [@ EXCEPT ![m.id] = m.rev]]
         /\ subs' = [subs EXCEPT ![cur[c]] = [sub EXCEPT !.ch = Tail(sub.ch)]]
  /\ UNCHANGED storeVars /\ UNCHANGED <<cur, base, want, pager>>

\* The channel is closed and drained: ResourceExhausted, and the context ends.
CutOff(c) ==
  /\ cur[c] # None
  /\ subs[cur[c]].dead /\ subs[cur[c]].ch = <<>>
  /\ subs' = [subs EXCEPT ![cur[c]] = [@ EXCEPT !.ctxDone = TRUE]]
  /\ cur' = [cur EXCEPT ![c] = None]
  /\ UNCHANGED storeVars /\ UNCHANGED <<base, want, replica, pager>>

\* The client goes away (or a send to it fails) and forgets what it had.
Leave(c) ==
  /\ cur[c] # None
  /\ subs' = [subs EXCEPT ![cur[c]] = [@ EXCEPT !.ctxDone = TRUE]]
  /\ cur' = [cur EXCEPT ![c] = None]
  /\ base' = [base EXCEPT ![c] = 0]
  /\ want' = [want EXCEPT ![c] = {}]
  /\ replica' = [replica EXCEPT ![c] = [i \in Ids |-> 0]]
  /\ UNCHANGED storeVars /\ UNCHANGED pager

\* Mutant of Dropped: drop does not look at dead.
DroppedAgain(sub) == [sub EXCEPT !.dead = TRUE, !.closes = @ + 1]

\* drop closes the channel unless offer already did.
Dropped(sub) ==
  IF sub.dead THEN sub ELSE [sub EXCEPT !.dead = TRUE, !.closes = @ + 1]

\* The goroutine of Watch: once the context ends, drop.
Drop(s) ==
  /\ subs[s].open /\ subs[s].ctxDone
  /\ subs' = [subs EXCEPT ![s] = [Dropped(@) EXCEPT !.open = FALSE]]
  /\ UNCHANGED storeVars /\ UNCHANGED <<cur, base, want, replica, pager>>

------------------------------------------------------------------------------
(***************************************************************************)
(* Pagers: ListEvents, a page at a time, over every camera; and the house  *)
(* page, which reads such pages until an event that started before its     *)
(* window.                                                                 *)
(***************************************************************************)
NewScan == [phase |-> "idle", since |-> 0, cursor |-> None, listed |-> {}, owed |-> {}]

\* Mutant of Page: the cursor is compared by start alone.
PageByStart(cursor) ==
  LET start == IF cursor = None THEN 1 ELSE Search(ordered, LAMBDA e : e.start < cursor.start)
  IN  SubSeq(ordered, start, IF start + PageSize - 1 < Len(ordered)
                             THEN start + PageSize - 1 ELSE Len(ordered))

Page(cursor) ==
  LET start == IF cursor = None THEN 1 ELSE Search(ordered, LAMBDA e : Older(e, cursor))
  IN  SubSeq(ordered, start, IF start + PageSize - 1 < Len(ordered)
                             THEN start + PageSize - 1 ELSE Len(ordered))

\* The scan owes its reader every event stored when it begins, unless it is
\* pruned, moves out of the window or overtakes the reader before the scan ends;
\* an empty page or an event before the window ends it.
Scan(p, since) ==
  LET scan  == pager[p]
      page  == Page(scan.cursor)
      shown == {e.id : e \in {f \in ToSet(page) : f.start >= since}}
      ends  == page = <<>> \/ Last(page).start < since
      owed  == IF scan.phase = "idle" THEN {e.id : e \in ToSet(ordered)} ELSE scan.owed
  IN  /\ scan.phase # "done" /\ (scan.phase = "scan" => since = scan.since)
      /\ pager' = [pager EXCEPT ![p] =
           [phase  |-> IF ends THEN "done" ELSE "scan",
            since  |-> since,
            cursor |-> IF page = <<>> THEN scan.cursor ELSE Cursor(Last(page)),
            listed |-> scan.listed \cup shown,
            owed   |-> IF ends THEN {i \in owed : byID[i].start >= since} ELSE owed]]
      /\ UNCHANGED storeVars /\ UNCHANGED watchVars

\* A client pages through everything there is.
ListEvents(p) == Scan(p, 0)

\* The house page pages back to the edge of its window, never past retention.
HousePage(p, since) == since > 0 /\ Scan(p, since)

------------------------------------------------------------------------------
Init ==
  /\ world \in Worlds
  /\ byID = [i \in Ids |-> None] /\ ordered = <<>>
  /\ cameras = {} /\ applied = 0 /\ now = 1
  /\ subs = [s \in Subs |-> NewSub]
  /\ cur = [c \in Clients |-> None]
  /\ base = [c \in Clients |-> 0]
  /\ want = [c \in Clients |-> {}]
  /\ replica = [c \in Clients |-> [i \in Ids |-> 0]]
  /\ pager = [p \in Pagers |-> NewScan]
  /\ first = [i \in Ids |-> 0]

\* The clock moves by at most one between two operations that read it.
Later == {now, now + 1} \cap 1..world.maxNow

Next ==
  \/ \E id \in world.ids, start \in world.starts, camera \in world.cameras, at \in Later :
       Apply(id, start, camera, at)
  \/ \E camera \in world.cameras : SawCamera(camera)
  \/ \E at \in Later : Prune(at)
  \/ \E c \in world.clients, s \in Subs, since \in 0..world.maxNow, w \in Wants :
       WatchEvents(c, s, since, w)
  \/ \E c \in Clients, s \in Subs : WatchAgain(c, s)
  \/ \E c \in Clients : Receive(c) \/ CutOff(c) \/ Leave(c)
  \/ \E s \in Subs : Drop(s)
  \/ \E p \in world.pagers : ListEvents(p) \/ (\E since \in world.sinces : HousePage(p, since))

Spec == Init /\ [][Next]_vars

\* The stream loops and the dropping goroutines run; a client that was cut off
\* watches again.
Fairness ==
  /\ \A c \in Clients : /\ WF_vars(Receive(c)) /\ WF_vars(CutOff(c))
                        /\ WF_vars(\E s \in Subs : WatchAgain(c, s))
  /\ \A s \in Subs : WF_vars(Drop(s))

FairSpec == Spec /\ Fairness

------------------------------------------------------------------------------
(***************************************************************************)
(* Properties.                                                             *)
(***************************************************************************)
\* store.go insert, remove, Prune: the list and the map hold the same entries,
\* each once, and the list is in its order (StartedAt desc, then ID desc), which
\* is what every binary search relies on, even as an update moves an event.
IndexConsistent ==
  /\ ToSet(ordered) = {byID[i] : i \in {j \in Ids : byID[j] # None}}
  /\ \A i \in Ids : byID[i] # None => byID[i].id = i
  /\ \A j, k \in DOMAIN ordered : j < k => Older(ordered[k], Cursor(ordered[j]))

\* store.go Apply: an entry's history begins with the state it was first stored
\* in and ends with the newest ones, in order, whatever was dropped between.
HistoryKeepsEnds ==
  \A i \in Ids : byID[i] # None =>
    LET h == byID[i].history
    IN  /\ Len(h) \in 1..MaxHistory
        /\ h[1] = first[i] /\ Last(h) = byID[i].rev
        /\ \A j, k \in DOMAIN h : j < k => h[j] < h[k]

\* What client c will have of event i once it has drained its channel.
Pending(c, i) ==
  LET last == SelectLastInSeq(subs[cur[c]].ch, LAMBDA m : m.id = i)
  IN  IF last # 0 THEN subs[cur[c]].ch[last].rev
      ELSE replica[c][i]

Owed(c, e) == e.updatedAt >= base[c] /\ Wanted(want[c], e)

\* store.go Watch: a stream that is not cut off loses nothing.  What a client
\* holds, with what is still in its channel, is the stored state of every event
\* it is owed, across being cut off and watching again.
NothingSlips ==
  \A c \in Clients : cur[c] # None /\ ~subs[cur[c]].dead =>
    \A i \in Ids : byID[i] # None /\ Owed(c, byID[i]) => Pending(c, i) = byID[i].rev

\* store.go offer, drop: a channel is closed at most once, whichever of the two
\* comes first, and a subscriber no longer offered to has been closed: neither a
\* panic nor a reader that waits forever.
ClosedOnce ==
  \A s \in Subs : /\ subs[s].closes <= 1
                  /\ subs[s].dead <=> subs[s].closes = 1
                  /\ subs[s].ctxDone /\ ~subs[s].open => subs[s].dead

\* store.go List, house.go ServeHTTP: a reader that pages to the edge of
\* retention, or of the window it shows, has been shown every event that was
\* there all along, though updates move events meanwhile; save those that overtook
\* it, which only a later start does: an incident reopened under the same id
\* (incidents.go close, build).
PagingMissesNothing ==
  \A p \in Pagers : pager[p].phase = "done" => pager[p].owed \subseteq pager[p].listed

InSync(c) ==
  \A i \in Ids : byID[i] # None /\ Owed(c, byID[i]) => replica[c][i] = byID[i].rev

\* curtilage.proto WatchEvents: "a client that reconnects misses nothing".  A
\* client that keeps reading, and watches again when it is cut off, comes to
\* hold the stored state of every event it is owed.
CatchesUp == \A c \in Clients : base[c] # 0 ~> InSync(c) \/ base[c] = 0
==============================================================================
