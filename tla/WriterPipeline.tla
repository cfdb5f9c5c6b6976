---------------------------- MODULE WriterPipeline ----------------------------
(***************************************************************************)
(* From a received event to a recorded chunk: ingest.py, queue.py and      *)
(* writer.py of the collector, and the parts of service.py that drive them *)
(* (the formal start, the midnight boundary and the stop).                 *)
(*                                                                         *)
(* All of it runs on one event loop, but every await lets other tasks in:  *)
(* a source may be held at the closed admission, a writer hands its disk   *)
(* work to a thread, and a stop cancels whoever happens to be waiting.     *)
(* One midnight falls in the life of the model.                            *)
(***************************************************************************)
EXTENDS Integers, Sequences, FiniteSets, FiniteSetsExt

CONSTANTS
  Groups,        \* writer groups
  Critical,      \* DEPTH and TRADES_MARKET: the ones the watermark is about
  Control,       \* METADATA, the group of the service's own events
  Events,        \* source events
  Slow,          \* those of REST sources: stamped, then put in a later turn
  GroupOf,       \* the group of a source event
  BootMark, DayMark, \* the universe events of the formal start and of midnight
  MaxBytes, ResumeBytes, \* the queue's hard limit and its resume mark
  BatchEvents, MaxEvents, \* ChunkLimits, in events
  DayLength, MaxTime,
  MaxFaults      \* disk errors of writers

Marks == {BootMark, DayMark}
All == Events \cup Marks
Time == 0 .. MaxTime
Days == 0 .. 1

ASSUME PipelineAssumption ==
  /\ Critical \subseteq Groups /\ Control \in Groups
  /\ Slow \subseteq Events /\ GroupOf \in [Events -> Groups]
  /\ BootMark \notin Events /\ DayMark \notin Events /\ BootMark # DayMark
  /\ MaxBytes \in Nat /\ ResumeBytes \in 0 .. MaxBytes
  /\ BatchEvents \in Nat \ {0} /\ MaxEvents \in Nat \ {0}
  /\ DayLength \in Nat \ {0} /\ MaxTime \in DayLength .. 2 * DayLength - 1
  /\ MaxFaults \in Nat

VARIABLES
  now,
  stamp,      \* [All -> app_receive_realtime_ns, -1 before]
  place,      \* [All -> where the event is]
  accepting,  \* IngestCoordinator._accepting
  paused,     \* groups whose source waits until the queue is resumable
  queue,      \* [Groups -> its items]
  used, usedBy,
  pc,         \* [Groups -> where the writer is]
  hand,       \* [Groups -> the item it holds]
  session,    \* [Groups -> its ChunkSession]
  label,      \* [Groups -> the writer's own universe_hash]
  universe,   \* WriterPool._universe_hash
  published,  \* chunks with a manifest in ready/
  journal,    \* chunks recorded in the day index
  sealed,     \* the seal of day 0: "open", "reading" in its thread, "sealed"
  inventory,  \* the chunks the seal lists
  watermark,  \* [Groups -> _durable_through_ns, -1 before]
  svc,        \* where the service is
  target,     \* the universe_hash of the running rotation
  replies,    \* groups whose completion of it is set
  cancelled,  \* the rotation was cancelled with its futures
  outcome,    \* how the service ended: "none", "clean", "failed"
  faults,
  \* History.
  under,      \* [All -> universe in force when the event was admitted]
  overtaken,  \* events admitted behind one of their group with a later stamp
  early       \* a stop cut the grace period short

sourceVars == <<stamp, place, paused>>
queueVars == <<queue, used, usedBy>>
writerVars == <<pc, hand, session, label>>
diskVars == <<published, journal, watermark>>
sealVars == <<sealed, inventory, early>>
serviceVars == <<svc, target, replies, cancelled, outcome>>
historyVars == <<under, overtaken>>
vars == <<now, sourceVars, accepting, queueVars, writerVars, universe, diskVars, sealVars,
          serviceVars, faults, historyVars>>

Group(e) == IF e \in Events THEN GroupOf[e] ELSE Control
Day(t) == t \div DayLength

NoItem == [kind |-> "none"]
EventItem(e) == [kind |-> "event", event |-> e]
RotateItem(u) == [kind |-> "rotate", universe |-> u]
StopItem == [kind |-> "stop"]

NoSession == [day |-> -1, universe |-> 0, batch |-> {}, written |-> {}]
Contents(s) == s.batch \cup s.written

Init ==
  /\ now = 0
  /\ stamp = [e \in All |-> -1] /\ place = [e \in All |-> "none"]
  /\ accepting = TRUE /\ paused = {}
  /\ queue = [g \in Groups |-> <<>>] /\ used = 0 /\ usedBy = [g \in Groups |-> 0]
  /\ pc = [g \in Groups |-> "get"] /\ hand = [g \in Groups |-> NoItem]
  /\ session = [g \in Groups |-> NoSession]
  /\ universe = 1 /\ label = [g \in Groups |-> 1]
  /\ published = {} /\ journal = {} /\ watermark = [g \in Groups |-> -1]
  /\ sealed = "open" /\ inventory = {} /\ early = FALSE
  /\ svc = "boot" /\ target = 1 /\ replies = {} /\ cancelled = FALSE /\ outcome = "none"
  /\ faults = 0
  /\ under = [e \in All |-> 0] /\ overtaken = {}

(***************************************************************************)
(* Admission.  An event's size is one byte.                                *)
(***************************************************************************)

\* queue.put: the hard limit.
Fits == used + 1 <= MaxBytes

\* queue.put of an event with stamp t: admitted, or QueueOverloaded, which
\* ends the connection until the queue has drained.
Put(e, t) ==
  /\ stamp' = [stamp EXCEPT ![e] = t]
  /\ \/ /\ Fits
        /\ place' = [place EXCEPT ![e] = "admitted"]
        /\ queue' = [queue EXCEPT ![Group(e)] = Append(@, EventItem(e))]
        /\ used' = used + 1 /\ usedBy' = [usedBy EXCEPT ![Group(e)] = @ + 1]
        /\ under' = [under EXCEPT ![e] = universe]
        /\ overtaken' = overtaken \cup
             {x \in {e} : \E o \in All : /\ Group(o) = Group(e) /\ place[o] = "admitted"
                                         /\ stamp[o] > t}
        /\ UNCHANGED paused
     \/ /\ ~Fits
        /\ place' = [place EXCEPT ![e] = "rejected"]
        /\ paused' = paused \cup {Group(e)}
        /\ UNCHANGED <<queueVars, historyVars>>

\* ingest.put: hold the event while admission is closed.
Offer(e, t) ==
  \/ accepting /\ Put(e, t)
  \/ /\ ~accepting
     /\ stamp' = [stamp EXCEPT ![e] = t]
     /\ place' = [place EXCEPT ![e] = "held"]
     /\ UNCHANGED <<paused, queueVars, historyVars>>

SourcesRun == svc \notin {"stopping", "draining", "down"}
Others == <<now, accepting, writerVars, universe, diskVars, sealVars, serviceVars, faults>>

\* _receive_loop: a frame is stamped and put without an await in between.
\* A connection receives nothing while its put is held.
Receive(e) ==
  /\ SourcesRun /\ e \in Events \ Slow /\ place[e] = "none"
  /\ Group(e) \notin paused
  /\ \A o \in Events \ Slow : GroupOf[o] = GroupOf[e] => place[o] \notin {"held", "woken"}
  /\ Offer(e, now)
  /\ UNCHANGED Others

\* rest.fetch: the response is stamped before the session is released.
Observe(e) ==
  /\ SourcesRun /\ e \in Slow /\ place[e] = "none"
  /\ Group(e) \notin paused
  /\ stamp' = [stamp EXCEPT ![e] = now]
  /\ place' = [place EXCEPT ![e] = "stamped"]
  /\ UNCHANGED <<paused, queueVars, historyVars, Others>>

PutObserved(e) ==
  /\ SourcesRun /\ place[e] = "stamped"
  /\ Offer(e, stamp[e])
  /\ UNCHANGED Others

\* ingest.put of a held event goes on: it does not look at the admission
\* again, which may have been closed a second time.
ResumePut(e) ==
  /\ place[e] = "woken"
  /\ Put(e, stamp[e])
  /\ UNCHANGED Others

\* wait_until_resumable
Resume(g) ==
  /\ g \in paused
  /\ used <= ResumeBytes
  /\ paused' = paused \ {g}
  /\ UNCHANGED <<stamp, place, queueVars, historyVars, Others>>

Sources == \E e \in Events : Receive(e) \/ Observe(e) \/ PutObserved(e)
Admission == (\E e \in Events : ResumePut(e)) \/ (\E g \in Groups : Resume(g))

(***************************************************************************)
(* WriterPool._run of group g.                                             *)
(***************************************************************************)

Goto(g, where) == pc' = [pc EXCEPT ![g] = where]

Outside == <<now, sourceVars, accepting, universe, sealVars, svc, target, cancelled, outcome,
             historyVars>>

\* should_rotate_before
ShouldRotateBefore(s, e) ==
  \/ Day(stamp[e]) # s.day
  \/ Contents(s) # {} /\ Cardinality(Contents(s)) + 1 > MaxEvents

\* ChunkSession and add of event e; a full batch is flushed, a full or old
\* session finished.
Add(g, s, e) ==
  LET open == IF s # NoSession THEN s
              ELSE [NoSession EXCEPT !.day = Day(stamp[e]), !.universe = label[g]]
      new == [open EXCEPT !.batch = @ \cup {e}]
      full == Cardinality(new.batch) >= BatchEvents
  IN  /\ session' = [session EXCEPT ![g] = new]
      /\ hand' = [hand EXCEPT ![g] = NoItem]
      /\ \/ full /\ Goto(g, "flush")
         \/ ~full /\ Goto(g, "close")
         \/ ~full /\ Cardinality(Contents(new)) < MaxEvents /\ Goto(g, "get")

\* The next item.  The open session may have to be finished first.
Get(g) ==
  /\ pc[g] = "get" /\ queue[g] # <<>>
  /\ LET item == Head(queue[g])
         isEvent == item.kind = "event"
         finish == /\ session[g] # NoSession
                   /\ isEvent => ShouldRotateBefore(session[g], item.event)
     IN  \/ ~finish /\ isEvent /\ Add(g, session[g], item.event)
         \/ /\ finish \/ ~isEvent
            /\ hand' = [hand EXCEPT ![g] = item]
            /\ Goto(g, IF finish THEN "close" ELSE "reply")
            /\ UNCHANGED session
  /\ queue' = [queue EXCEPT ![g] = Tail(@)]
  /\ UNCHANGED <<Outside, used, usedBy, label, diskVars, replies, faults>>

\* Mutant: a session is finished only by its limits, its day or a barrier.
NeverIdle(g) == FALSE

\* No item for a second, and the session is max_seconds old.
IdleFinish(g) ==
  /\ pc[g] = "get" /\ queue[g] = <<>> /\ session[g] # NoSession
  /\ Goto(g, "close")
  /\ UNCHANGED <<Outside, queueVars, hand, session, label, diskVars, replies, faults>>

\* Mutant: a written batch keeps its reservation.
NoRelease(g) == 0

\* flush and release: the bytes of a batch are reserved until it is written.
Released(g) == Cardinality(session[g].batch)

Flush(g) ==
  /\ pc[g] \in {"flush", "close"}
  /\ session' = [session EXCEPT ![g].batch = {}, ![g].written = @ \cup session[g].batch]
  /\ used' = used - Released(g) /\ usedBy' = [usedBy EXCEPT ![g] = @ - Released(g)]
  /\ \/ pc[g] = "close" /\ Goto(g, "publish")
     \/ pc[g] = "flush" /\ Goto(g, "close")
     \/ pc[g] = "flush" /\ Cardinality(Contents(session[g])) < MaxEvents /\ Goto(g, "get")
  /\ UNCHANGED <<Outside, queue, hand, label, diskVars, replies, faults>>

ChunkOf(g) == [group |-> g, day |-> session[g].day, universe |-> session[g].universe,
               events |-> session[g].written]

\* ChunkSession.finish, in its thread: data and manifest are in ready/.
Publish(g) ==
  /\ pc[g] = "publish"
  /\ published' = published \cup {ChunkOf(g)}
  /\ Goto(g, "record")
  /\ UNCHANGED <<Outside, queueVars, hand, session, label, journal, watermark, replies, faults>>

\* The writer's task ends with an exception.  A completion in its hand gets
\* the exception; the futures of a cancelled rotation are gone.
Fails(g) ==
  /\ Goto(g, "failed")
  /\ UNCHANGED <<queueVars, hand, session, label, diskVars, replies>>

DayIsSealed(d) == d = 0 /\ sealed = "sealed"

\* Mutant: the watermark follows the last event of any chunk of the pool.
WatermarkOfPool(g, chunk) ==
  [h \in Groups |-> Max({watermark[h]} \cup {stamp[e] : e \in chunk.events})]

\* The largest stamp of the group's recorded chunks.
Watermark(g, chunk) ==
  [watermark EXCEPT ![g] = Max({@} \cup {stamp[e] : e \in chunk.events})]

\* The lock of the day index is the seal's while someone waits for it.
IndexLocked == sealed = "reading" /\ svc = "seal"

\* day_index.record refuses a sealed day; then the watermark, and on with the
\* item that made the writer finish.
Record(g) ==
  /\ pc[g] = "record" /\ ~IndexLocked
  /\ \/ /\ ~DayIsSealed(session[g].day)
        /\ journal' = journal \cup {ChunkOf(g)}
        /\ watermark' = Watermark(g, ChunkOf(g))
        /\ \/ hand[g].kind = "event" /\ Add(g, NoSession, hand[g].event)
           \/ /\ hand[g].kind # "event"
              /\ session' = [session EXCEPT ![g] = NoSession]
              /\ Goto(g, IF hand[g].kind = "none" THEN "get" ELSE "reply")
              /\ UNCHANGED hand
        /\ UNCHANGED <<queueVars, label, published, replies>>
     \/ DayIsSealed(session[g].day) /\ Fails(g)
  /\ UNCHANGED <<Outside, faults>>

\* Mutant: the barrier is passed with the session open and the old label.
ReplyUnlabelled(g) ==
  /\ pc[g] = "reply"
  /\ replies' = replies \cup {g}
  /\ Goto(g, IF hand[g].kind = "stop" THEN "ended" ELSE "get")
  /\ hand' = [hand EXCEPT ![g] = NoItem]
  /\ UNCHANGED <<Outside, queueVars, session, label, diskVars, faults>>

\* completion.set_result; on the cancelled future of a cancelled rotation it
\* raises, and so does the set_exception that follows.
Reply(g) ==
  /\ pc[g] = "reply"
  /\ \/ /\ hand[g].kind = "rotate" /\ ~cancelled
        /\ label' = [label EXCEPT ![g] = hand[g].universe]
        /\ replies' = replies \cup {g}
        /\ hand' = [hand EXCEPT ![g] = NoItem] /\ Goto(g, "get")
        /\ UNCHANGED <<queueVars, session, diskVars>>
     \/ hand[g].kind = "rotate" /\ cancelled /\ Fails(g)
     \/ /\ hand[g].kind = "stop"
        /\ hand' = [hand EXCEPT ![g] = NoItem] /\ Goto(g, "ended")
        /\ UNCHANGED <<queueVars, session, label, diskVars, replies>>
  /\ UNCHANGED <<Outside, faults>>

\* A disk error in a thread of the writer.
DiskError(g) ==
  /\ pc[g] \in {"flush", "close", "publish", "record"}
  /\ faults < MaxFaults
  /\ faults' = faults + 1
  /\ Fails(g)
  /\ UNCHANGED Outside

Step(g) == \/ Get(g) \/ IdleFinish(g) \/ Flush(g) \/ Publish(g) \/ Record(g)
           \/ Reply(g)

(***************************************************************************)
(* CollectorService.                                                       *)
(***************************************************************************)

\* ingest.rotate and rotate_all: close the admission and queue a control item
\* for every writer, also for one that has failed.
BeginRotation(u) ==
  /\ accepting' = FALSE
  /\ target' = u /\ replies' = {}
  /\ queue' = [g \in Groups |-> Append(queue[g], RotateItem(u))]

\* gather of the completions.
AllReplied == replies = Groups

\* The admission opens; whoever was held is scheduled.
Reopen ==
  /\ accepting' = TRUE
  /\ place' = [e \in All |-> IF place[e] = "held" THEN "woken" ELSE place[e]]

EndRotation(next) ==
  /\ AllReplied
  /\ Reopen
  /\ universe' = target
  /\ svc' = next
  /\ UNCHANGED <<now, stamp, paused, queueVars, writerVars, diskVars, sealVars, target, replies,
                 cancelled, outcome, faults, historyVars>>

\* A writer fails with the rotation in its hand: the exception of its
\* completion ends the rotation and what awaits it.  A writer that failed
\* earlier never answers.
RotationRaises ==
  /\ svc \in {"bootRotate", "rotate1", "rotate2"}
  /\ \E g \in Groups : pc[g] = "failed" /\ hand[g].kind = "rotate"
  /\ Reopen
  /\ outcome' = IF svc = "bootRotate" THEN "failed" ELSE outcome
  /\ svc' = "failing"
  /\ UNCHANGED <<now, stamp, paused, queueVars, writerVars, universe, diskVars, sealVars, target,
                 replies, cancelled, faults, historyVars>>

\* _emit_control_event of mark m; an overloaded queue ends the service.
Emit(m, next) ==
  /\ accepting
  /\ Put(m, now)
  /\ svc' = IF Fits THEN next ELSE "failing"
  /\ outcome' = IF ~Fits /\ svc = "boot" THEN "failed" ELSE outcome
  /\ UNCHANGED <<now, accepting, writerVars, universe, diskVars, sealVars, target, replies,
                 cancelled, faults>>

\* _mark_formal_start of an established collection.
MarkStart == svc = "boot" /\ Emit(BootMark, "bootBarrier")
BootBarrier ==
  /\ svc = "bootBarrier"
  /\ BeginRotation(universe) /\ svc' = "bootRotate"
  /\ UNCHANGED <<now, sourceVars, used, usedBy, writerVars, universe, diskVars, sealVars,
                 cancelled, outcome, faults, historyVars>>
BootDone == svc = "bootRotate" /\ EndRotation("running")

\* _apply_midnight_boundary: the first rotation, with the universe that
\* apply_due has made effective.  It follows a timer and threads, so puts
\* that an earlier rotation has woken are over.
MidnightBarrier ==
  /\ svc = "running" /\ Day(now) = 1 /\ place[DayMark] = "none"
  /\ \A e \in Events : place[e] # "woken"
  /\ \E u \in {universe, universe + 1} : BeginRotation(u)
  /\ svc' = "rotate1"
  /\ UNCHANGED <<now, sourceVars, used, usedBy, writerVars, universe, diskVars, sealVars,
                 cancelled, outcome, faults, historyVars>>
FirstDone == svc = "rotate1" /\ EndRotation("emit")
MarkDay == svc = "emit" /\ Emit(DayMark, "secondBarrier")
SecondBarrier ==
  /\ svc = "secondBarrier"
  /\ BeginRotation(universe) /\ svc' = "rotate2"
  /\ UNCHANGED <<now, sourceVars, used, usedBy, writerVars, universe, diskVars, sealVars,
                 cancelled, outcome, faults, historyVars>>
SecondDone == svc = "rotate2" /\ EndRotation("grace")

\* Mutant: the day is sealed behind the barrier, without the grace period.
NoLeftover == FALSE

\* Sessions and puts of the day that ended.
Leftover == \/ \E g \in Groups : session[g].day = 0
            \/ \E e \in All : /\ stamp[e] # -1 /\ Day(stamp[e]) = 0
                              /\ place[e] \in {"stamped", "held", "woken"}
            \/ \E g \in Groups, e \in All :
                 /\ Day(stamp[e]) = 0 /\ Group(e) = g
                 /\ hand[g] = EventItem(e) \/ \E i \in DOMAIN queue[g] : queue[g][i] = EventItem(e)

\* day_index.seal starts its thread, which reads the journal and ready/; the
\* mark of the boot has given the day a journal.
Seal == sealed' = "reading" /\ inventory' = {c \in published : c.day = 0}

\* The grace period is over: it is longer than max_seconds and than the end
\* of any request, so whatever was late has been recorded.
EndGrace ==
  /\ svc = "grace"
  /\ ~Leftover
  /\ svc' = "seal"
  /\ Seal
  /\ UNCHANGED <<now, sourceVars, accepting, queueVars, writerVars, universe, diskVars, early,
                 target, replies, cancelled, outcome, faults, historyVars>>

\* The thread writes SEALED.json, whether or not anyone still waits for it.
SealWritten ==
  /\ sealed = "reading"
  /\ sealed' = "sealed"
  /\ svc' = IF svc = "seal" THEN "running" ELSE svc
  /\ UNCHANGED <<now, sourceVars, accepting, queueVars, writerVars, universe, diskVars,
                 inventory, early, target, replies, cancelled, outcome, faults, historyVars>>

InBackground == svc \notin {"boot", "bootBarrier", "bootRotate", "stopping", "draining", "down"}
WriterFailed == \E g \in Groups : pc[g] = "failed"

\* request_stop, a failed background task or a failed writer: the loops are
\* cancelled.  A cancelled rotation reopens the admission; a grace period ends
\* at once and its seal is under way before the cancellation arrives.
Stop ==
  /\ InBackground
  /\ cancelled' = (svc \in {"rotate1", "rotate2"})
  /\ Reopen
  /\ svc' = "stopping"
  /\ \/ /\ svc = "grace" /\ sealed = "open"
        /\ Seal /\ early' = TRUE
     \/ svc # "grace" /\ UNCHANGED sealVars
  /\ UNCHANGED <<now, stamp, paused, queueVars, writerVars, universe, diskVars, target, replies,
                 outcome, faults, historyVars>>

\* sources.stop, after the stop gap is in the journal: puts that were woken
\* have gone on, what a REST source has not put is dropped.  writers.stop:
\* a StopWriter for each writer still running.
StopWriters ==
  /\ svc = "stopping"
  /\ \A e \in All : place[e] # "woken"
  /\ place' = [e \in All |-> IF place[e] = "stamped" THEN "dropped" ELSE place[e]]
  /\ queue' = [g \in Groups |-> IF pc[g] = "failed" THEN queue[g]
                                ELSE Append(queue[g], StopItem)]
  /\ svc' = "draining"
  /\ UNCHANGED <<now, stamp, paused, accepting, used, usedBy, writerVars, universe, diskVars,
                 sealVars, target, replies, cancelled, outcome, faults, historyVars>>

\* Mutant: the end of the writers is not looked at.
AlwaysClean == "clean"

\* The exception of a writer or of the boot leaves run before write_clean.
Ending == IF WriterFailed \/ outcome = "failed" THEN "failed" ELSE "clean"

\* Mutant: a stop waits for the completions only.
CompletionsSet == \A g \in Groups : pc[g] = "ended"

\* _wait_for_writer_stop: the completion or the end of the task.
WritersDone == \A g \in Groups : pc[g] \in {"ended", "failed"}

Down ==
  /\ svc = "draining"
  /\ WritersDone
  /\ outcome' = Ending
  /\ svc' = "down"
  /\ UNCHANGED <<now, sourceVars, accepting, queueVars, writerVars, universe, diskVars, sealVars,
                 target, replies, cancelled, faults, historyVars>>

\* The clock; a boot that spans midnight is a subject of Transfer.
Tick ==
  /\ now < MaxTime
  /\ Day(now + 1) # Day(now) => svc = "running"
  /\ now' = now + 1
  /\ UNCHANGED <<sourceVars, accepting, queueVars, writerVars, universe, diskVars, sealVars,
                 serviceVars, faults, historyVars>>

Boundary == \/ MarkStart \/ BootBarrier \/ BootDone \/ MidnightBarrier \/ FirstDone \/ MarkDay
            \/ SecondBarrier \/ SecondDone \/ RotationRaises \/ EndGrace \/ SealWritten
Shutdown == StopWriters \/ Down

Next == \/ Sources \/ Admission \/ Boundary \/ Shutdown \/ Stop \/ Tick
        \/ \E g \in Groups : Step(g) \/ DiskError(g)

Spec == Init /\ [][Next]_vars

(***************************************************************************)
(* Fairness: the loop runs its tasks, threads end, timers fire, and a      *)
(* failed writer or loop is noticed.  A stop request need not come.        *)
(***************************************************************************)
FairSpec == /\ Spec
            /\ WF_vars(Admission)
            /\ WF_vars(\E e \in Events : PutObserved(e))
            /\ \A g \in Groups : WF_vars(Step(g))
            /\ WF_vars(Boundary)
            /\ WF_vars(Shutdown)
            /\ WF_vars((WriterFailed \/ svc = "failing") /\ Stop)
=============================================================================
