------------------------------- MODULE Pipeline -------------------------------
(***************************************************************************)
(* From the broker to the engine and to disk, and back after a restart:    *)
(* the subscription's handlers (internal/mqtt/client.go), the pump and the *)
(* shutdown (cmdRun in cmd/curtilage/main.go), the recorder                *)
(* (internal/record/record.go), and the rebuild and retention of the       *)
(* recordings (internal/store/rebuild.go). The engine fed is the state     *)
(* engine (module States).                                                 *)
(*                                                                         *)
(* Every goroutine steps by itself: handlers that stamp a message and then *)
(* queue it, the pump, the recorder, the hourly prune, the shutdown. The   *)
(* process may crash at any point, and is started again.                   *)
(*                                                                         *)
(* Time is in seconds, the resolution of a recording's name. A payload is  *)
(* the verdict it carries, or none. A chunk that has not reached the disk  *)
(* is lost in a crash: any prefix of the open recording may survive. The   *)
(* broker's library waits for the running handlers before Disconnect       *)
(* returns.                                                                *)
(***************************************************************************)
EXTENDS States, Sequences, SequencesExt

CONSTANTS
  QueueCap,     \* capacity of records and of toRecorder
  RotateEvery,  \* opts.RotateEvery
  Retention,    \* s.retention
  Traffics,     \* bound: the verdicts the broker may send, a sequence each
  MaxTime,      \* bound: the clock
  MaxLives      \* bound: starts of the process

\* What a payload says of a model, if anything.
Verdicts == {[model |-> None, class |-> None]} \cup [model : Models, class : Classes]

\* A record as a handler stamps it.
Message == [id : Nat, at : Nat, model : Models \cup {None}, class : Classes \cup {None}]

ASSUME PipelineAssumption ==
  /\ None \notin Message
  /\ QueueCap \in Nat \ {0} /\ RotateEvery \in Nat \ {0} /\ Retention \in Nat \ {0}
  /\ Traffics \subseteq Seq(Verdicts) /\ MaxTime \in Nat /\ MaxLives \in Nat \ {0}

VARIABLES
  now,         \* the clock
  reorder,     \* whether handlers may overtake each other (SetOrderMatters)
  traffic,     \* what the broker sends, from Traffics
  sent,        \* messages received so far
  handlers,    \* messages stamped and not queued yet
  records,     \* the channel of that name
  pump,        \* the record the pump is about to hand on, or None
  toRecorder,  \* the channel of that name
  drained,     \* the pump has ended: toRecorder is closed
  recorder,    \* "running", "failed" or "done"
  open,        \* the open recording, or NoFile
  disk,        \* the recordings on disk, the open one left out
  engine,      \* the state engine
  events,      \* the events it has started
  feed,        \* the records fed to it in this life, the rebuild's first
  accepted,    \* records queued in this life
  phase,       \* "up", "stopping", "closed" or "exited"
  whole,       \* this life lost no record it accepted and pruned no recording
  lives        \* starts of the process

inputs == <<sent, handlers, records, accepted>>
writer == <<recorder, open, disk>>
engines == <<engine, events, feed>>
vars == <<now, reorder, traffic, sent, handlers, records, pump, toRecorder, drained, recorder, open, disk,
          engine, events, feed, accepted, phase, whole, lives>>

NoFile == [sec |-> None, n |-> 0, linked |-> FALSE, torn |-> FALSE, msgs |-> <<>>]

Init ==
  /\ now = 0 /\ reorder \in BOOLEAN /\ traffic \in Traffics /\ sent = 0
  /\ handlers = {} /\ records = <<>> /\ pump = None /\ toRecorder = <<>> /\ drained = FALSE
  /\ recorder = "running" /\ open = NoFile /\ disk = {}
  /\ engine = Fresh /\ events = {} /\ feed = <<>> /\ accepted = {}
  /\ phase = "up" /\ whole = TRUE /\ lives = 1

------------------------------------------------------------------------------
(***************************************************************************)
(* The broker's handlers.                                                  *)
(***************************************************************************)
\* A handler stamps its message. Handlers run side by side (SetOrderMatters(
\* false)); a behaviour with reorder FALSE is one where none is overtaken.
Receive ==
  /\ phase = "up" /\ sent < Len(traffic)
  /\ reorder \/ handlers = {}
  /\ sent' = sent + 1
  /\ handlers' = handlers \cup
       {[id |-> sent + 1, at |-> now, model |-> traffic[sent + 1].model,
         class |-> traffic[sent + 1].class]}
  /\ UNCHANGED <<now, reorder, traffic, drained, records, pump, toRecorder, writer, engines, accepted, phase,
                 whole, lives>>

\* It queues it, or counts it as dropped when the queue is full.
Queue(m) ==
  /\ m \in handlers
  /\ handlers' = handlers \ {m}
  /\ IF Len(records) < QueueCap
     THEN records' = Append(records, m) /\ accepted' = accepted \cup {m}
     ELSE UNCHANGED <<records, accepted>>
  /\ UNCHANGED <<now, reorder, traffic, drained, sent, pump, toRecorder, writer, engines, phase, whole, lives>>

------------------------------------------------------------------------------
(***************************************************************************)
(* The pump.                                                               *)
(***************************************************************************)
\* Feed, of one record, then the send that may block.
PumpFeeds ==
  /\ pump = None /\ records # <<>>
  /\ records' = Tail(records)
  /\ pump' = Head(records)
  /\ engine' = Observed(engine, Head(records))
  /\ events' = events \cup Events(engine, Head(records))
  /\ feed' = Append(feed, Head(records))
  /\ UNCHANGED <<now, reorder, traffic, drained, sent, handlers, toRecorder, writer, accepted, phase, whole, lives>>

PumpSends ==
  /\ pump # None /\ Len(toRecorder) < QueueCap
  /\ toRecorder' = Append(toRecorder, pump)
  /\ pump' = None
  /\ UNCHANGED <<now, reorder, traffic, drained, inputs, writer, engines, phase, whole, lives>>

\* records is closed and drained: close(toRecorder).
PumpEnds ==
  /\ pump = None /\ records = <<>> /\ phase = "closed" /\ ~drained
  /\ drained' = TRUE
  /\ UNCHANGED <<now, reorder, traffic, inputs, pump, toRecorder, writer, engines, phase, whole, lives>>

------------------------------------------------------------------------------
(***************************************************************************)
(* The recorder.                                                           *)
(***************************************************************************)
OverAge == open # NoFile /\ now - open.sec >= RotateEvery

\* A recording closed, whole unless torn; one deleted while open is gone.
OnDisk(f, torn) == IF f.linked THEN {[f EXCEPT !.torn = torn]} ELSE {}

\* FileName with open's suffix: the first one free, which no more names than there
\* are recordings come before. O_EXCL sees every name.
Suffix ==
  CHOOSE n \in 0 .. Cardinality(disk) + 1 :
    /\ \A f \in disk \cup {open} : ~(f.sec = now /\ f.n = n /\ f.linked)
    /\ \A k \in 0 .. n - 1 : \E f \in disk \cup {open} : f.sec = now /\ f.n = k /\ f.linked

NewFile == [sec |-> now, n |-> Suffix, linked |-> TRUE, torn |-> FALSE, msgs |-> <<>>]

\* A record arrives: an over-age file is closed first, a missing one opened. A
\* record that cannot be marshalled is counted and skipped.
RecorderWrites(written) ==
  /\ recorder = "running" /\ toRecorder # <<>>
  /\ toRecorder' = Tail(toRecorder)
  /\ LET f == IF open = NoFile \/ OverAge THEN NewFile ELSE open
     IN open' = IF written THEN [f EXCEPT !.msgs = Append(@, Head(toRecorder))] ELSE f
  /\ disk' = IF OverAge THEN disk \cup OnDisk(open, FALSE) ELSE disk
  /\ whole' = (whole /\ written)
  /\ UNCHANGED <<now, reorder, traffic, drained, inputs, pump, recorder, engines, phase, lives>>

\* The new file cannot be opened: Write returns, and nobody drains toRecorder.
RecorderFails ==
  /\ recorder = "running" /\ toRecorder # <<>>
  /\ open = NoFile \/ OverAge
  /\ recorder' = "failed"
  /\ toRecorder' = Tail(toRecorder)
  /\ disk' = IF OverAge THEN disk \cup OnDisk(open, FALSE) ELSE disk
  /\ open' = NoFile
  /\ whole' = FALSE
  /\ UNCHANGED <<now, reorder, traffic, drained, inputs, pump, engines, phase, lives>>

\* What may be on disk of a recording that was never finished.
TornFrom(f) == {OnDisk([f EXCEPT !.msgs = SubSeq(@, 1, k)], TRUE) : k \in 0 .. Len(f.msgs)}

\* The open file cannot be finished, whatever it is closed for: Write returns,
\* with the record in hand if that is what made it rotate.
RecorderCloseFails ==
  /\ recorder = "running" /\ open # NoFile
  /\ recorder' = "failed"
  /\ toRecorder' \in {toRecorder} \cup
       (IF OverAge /\ toRecorder # <<>> THEN {Tail(toRecorder)} ELSE {})
  /\ \E torn \in TornFrom(open) : disk' = disk \cup torn
  /\ open' = NoFile
  /\ whole' = FALSE
  /\ UNCHANGED <<now, reorder, traffic, drained, inputs, pump, engines, phase, lives>>

\* The idle check closes an over-age file, and a rotation request any file.
RecorderRotates ==
  /\ recorder = "running" /\ open # NoFile
  /\ disk' = disk \cup OnDisk(open, FALSE)
  /\ open' = NoFile
  /\ UNCHANGED <<now, reorder, traffic, drained, inputs, pump, toRecorder, recorder, engines, phase, whole, lives>>

\* A mutant of RecorderEnds that stops at the close, whatever is left.
RecorderEndsAtOnce ==
  /\ recorder = "running" /\ drained
  /\ recorder' = "done"
  /\ disk' = disk \cup OnDisk(open, FALSE)
  /\ open' = NoFile
  /\ UNCHANGED <<now, reorder, traffic, drained, inputs, pump, toRecorder, engines, phase, whole,
                 lives>>

\* toRecorder is closed and drained.
RecorderEnds ==
  /\ recorder = "running" /\ drained /\ toRecorder = <<>>
  /\ recorder' = "done"
  /\ disk' = disk \cup OnDisk(open, FALSE)
  /\ open' = NoFile
  /\ UNCHANGED <<now, reorder, traffic, drained, inputs, pump, toRecorder, engines, phase, whole, lives>>

------------------------------------------------------------------------------
(***************************************************************************)
(* Retention, shutdown, crash and restart.                                 *)
(***************************************************************************)
Old(f) == f.sec < now - Retention

\* PruneFiles: by the name alone, so the open recording goes too. One under way
\* when the signal comes may end after it.
PruneFiles ==
  /\ \E f \in disk \cup ({open} \ {NoFile}) : f.linked /\ Old(f)
  /\ disk' = {f \in disk : ~Old(f)}
  /\ open' = IF open # NoFile /\ Old(open) THEN [open EXCEPT !.linked = FALSE] ELSE open
  /\ whole' = FALSE
  /\ UNCHANGED <<now, reorder, traffic, drained, inputs, pump, toRecorder, recorder, engines, phase, lives>>

\* The signal: no handler starts any more.
Stop ==
  /\ phase = "up"
  /\ phase' = "stopping"
  /\ UNCHANGED <<now, reorder, traffic, drained, inputs, pump, toRecorder, writer, engines, whole, lives>>

\* mqtt.Run returns: close(records).
CloseRecords ==
  /\ phase = "stopping" /\ handlers = {}
  /\ phase' = "closed"
  /\ UNCHANGED <<now, reorder, traffic, drained, inputs, pump, toRecorder, writer, engines, whole, lives>>

\* The broker refuses the session for good: mqtt.Run returns before any message
\* of this life, and closes records on its way out.
Refused ==
  /\ phase = "up" /\ handlers = {} /\ accepted = {}
  /\ phase' = "closed"
  /\ UNCHANGED <<now, reorder, traffic, drained, inputs, pump, toRecorder, writer, engines, whole, lives>>

\* A mutant of Exit that hears only of a recorder that finished.
ExitWhenDone ==
  /\ phase = "closed" /\ recorder = "done"
  /\ phase' = "exited"
  /\ UNCHANGED <<now, reorder, traffic, drained, inputs, pump, toRecorder, writer, engines,
                 whole, lives>>

\* <-recErr: the recorder's verdict, which may have been there for long.
Exit ==
  /\ phase = "closed" /\ recorder # "running"
  /\ phase' = "exited"
  /\ UNCHANGED <<now, reorder, traffic, drained, inputs, pump, toRecorder, writer, engines, whole, lives>>

Crash ==
  /\ phase' = "exited" /\ whole' = FALSE
  /\ handlers' = {} /\ records' = <<>> /\ pump' = None /\ toRecorder' = <<>> /\ accepted' = {}
  /\ drained' = FALSE
  /\ \E torn \in TornFrom(open) : disk' = disk \cup torn
  /\ open' = NoFile
  /\ UNCHANGED <<now, reorder, traffic, sent, recorder, engines, lives>>

\* recordings' order, by name: within a second "-1" comes before ".mcap".
NameBefore(f, g) ==
  \/ f.sec < g.sec
  \/ f.sec = g.sec /\ f.n # 0 /\ (g.n = 0 \/ f.n < g.n)

\* Read: a whole file in log-time order, a torn one as it was written.
ReadFile(f) ==
  LET Earlier(k, i) == f.msgs[k].at < f.msgs[i].at \/ (f.msgs[k].at = f.msgs[i].at /\ k < i)
      Turn(i) == 1 + Cardinality({k \in DOMAIN f.msgs : Earlier(k, i)})
  IN IF f.torn THEN f.msgs
     ELSE [n \in DOMAIN f.msgs |-> f.msgs[CHOOSE i \in DOMAIN f.msgs : Turn(i) = n]]

\* Rebuild: recordings past retention are deleted.
Kept == {f \in disk : ~Old(f)}

Orders == [1 .. Cardinality(Kept) -> Kept]

\* A mutant of ByName: directory order, here the newest first.
ByNameNewestFirst ==
  {order \in Orders : \A i, j \in DOMAIN order : i < j => NameBefore(order[j], order[i])}

\* The others in the order of their names, which no two share.
ByName ==
  {order \in Orders : \A i, j \in DOMAIN order : i < j => NameBefore(order[i], order[j])}

\* They are replayed in that order.
Replayed(order) == FlattenSeq([i \in DOMAIN order |-> ReadFile(order[i])])

\* Feed, of one record; the engine and its events after the rebuild.
Fed(b, r) ==
  [engine |-> Observed(b.engine, r), events |-> b.events \cup Events(b.engine, r)]

Rebuilt(recs) ==
  LET after[n \in 0 .. Len(recs)] ==
        IF n = 0 THEN [engine |-> Fresh, events |-> {}] ELSE Fed(after[n - 1], recs[n])
  IN after[Len(recs)]

Restart ==
  /\ phase = "exited" /\ lives < MaxLives
  /\ lives' = lives + 1 /\ phase' = "up" /\ whole' = TRUE
  /\ disk' = Kept
  /\ \E order \in ByName :
       LET recs == Replayed(order)
           b    == Rebuilt(recs)
       IN feed' = recs /\ engine' = b.engine /\ events' = b.events
  /\ handlers' = {} /\ records' = <<>> /\ accepted' = {}
  /\ pump' = None /\ toRecorder' = <<>> /\ drained' = FALSE
  /\ recorder' = "running" /\ open' = NoFile
  /\ UNCHANGED <<now, reorder, traffic, sent>>

Advance ==
  /\ now < MaxTime
  /\ now' = now + 1
  /\ UNCHANGED <<reorder, traffic, drained, inputs, pump, toRecorder, writer, engines, phase, whole, lives>>

Alive == phase # "exited"
Handlers == Alive /\ \E m \in handlers : Queue(m)
Pump == Alive /\ (PumpFeeds \/ PumpSends \/ PumpEnds)
Recorder ==
  Alive /\ ((\E written \in BOOLEAN : RecorderWrites(written)) \/ RecorderFails \/ RecorderEnds)

Next ==
  \/ Receive
  \/ Handlers \/ Pump \/ Recorder
  \/ Alive /\ (RecorderRotates \/ RecorderCloseFails \/ PruneFiles \/ Stop \/ CloseRecords \/ Refused
             \/ Exit \/ Crash)
  \/ Restart \/ Advance

Spec == Init /\ [][Next]_vars

\* Goroutines run when they can; nothing makes messages come, time pass or the
\* operator stop the process.
FairSpec ==
  /\ Spec
  /\ WF_vars(Handlers) /\ WF_vars(Pump) /\ WF_vars(Recorder)
  /\ WF_vars(CloseRecords) /\ WF_vars(Exit)

------------------------------------------------------------------------------
(***************************************************************************)
(* Properties.                                                             *)
(***************************************************************************)
\* Every event is earned by what the engine was fed, the rebuild included: a
\* change by a verdict at the time it bears, nothing contrary fed until a
\* message Hold later; an alarm by one AlarmAfter into such a belief (Observe
\* and tick, states.go, whatever the order the handlers queued in).
EventsEarned ==
  \A e \in events : \E i, j \in 1 .. Len(feed) :
    /\ i <= j /\ feed[i].model = e.model /\ feed[i].class = e.class /\ feed[i].at = e.from
    /\ CASE e.kind = "change" ->
              /\ feed[j].at - e.from >= Hold[e.model]
              /\ \A k \in i .. j : feed[k].model = e.model => feed[k].class = e.class
         [] e.kind = "alarm" -> feed[j].at = e.at /\ e.at - e.from >= AlarmAfter[e.model]

\* A shutdown the recorder finished loses nothing: every record queued has
\* been fed to the engine and is in a closed recording (the close chain of
\* cmdRun: Run, pump, Write, recErr).
CleanExitKeepsAll ==
  phase = "exited" /\ recorder = "done" /\ whole =>
    \A m \in accepted :
      /\ \E i \in 1 .. Len(feed) : feed[i] = m
      /\ \E f \in disk : ~f.torn /\ \E i \in 1 .. Len(f.msgs) : f.msgs[i] = m

\* One name is one file, and messages are stamped in the order they are fed.
Orderly == ~reorder /\ \A f, g \in disk : f.sec = g.sec => f = g

\* s is t with some of its places taken out.
LeftOf(s, t) ==
  \E p \in [DOMAIN s -> DOMAIN t] :
    \A i, j \in DOMAIN s : s[i] = t[p[i]] /\ (i < j => p[i] < p[j])

\* A restart feeds the engine what the process before it was fed, in that
\* order, less what was lost; when nothing was, all of it but what is past
\* retention (Rebuild over crashes, rotation, pruning and a failed recorder).
RebuildRemembers ==
  [][phase = "exited" /\ phase' = "up" /\ Orderly =>
       /\ LeftOf(feed', feed)
       /\ whole => IsSuffix(feed', feed)
       /\ whole /\ Kept = disk => feed' = feed]_vars

\* What is queued reaches the engine and the recorder, unless the recorder has
\* failed or the process ended; and a shutdown ends, even with a failed
\* recorder and a blocked pump.
PipelineDrains ==
  /\ []<>((records \o toRecorder = <<>> /\ pump = None) \/ recorder = "failed" \/ ~Alive)
  /\ phase = "stopping" ~> ~Alive
==============================================================================
