-------------------------- MODULE PipelineProperties --------------------------
(***************************************************************************)
(* What the way from a source to a recorded chunk promises.                *)
(***************************************************************************)
EXTENDS WriterPipeline

Recorded == UNION {c.events : c \in journal}
Admitted == {e \in All : place[e] = "admitted"}

\* Types; memory is bounded by the hard limit (queue.py:100).
TypeOK ==
  /\ now \in Time /\ stamp \in [All -> Time \cup {-1}]
  /\ place \in [All -> {"none", "stamped", "held", "woken", "admitted", "rejected", "dropped"}]
  /\ used \in 0 .. MaxBytes /\ accepting \in BOOLEAN /\ paused \subseteq Groups
  /\ pc \in [Groups -> {"get", "flush", "close", "publish", "record", "reply",
                        "ended", "failed"}]
  /\ \A g \in Groups : session[g] # NoSession =>
       session[g].day \in Days /\ Contents(session[g]) \subseteq Admitted
  /\ svc \in {"boot", "bootBarrier", "bootRotate", "running", "rotate1", "emit",
              "secondBarrier", "rotate2", "grace", "seal", "failing", "stopping", "draining",
              "down"}
  /\ replies \subseteq Groups /\ outcome \in {"none", "clean", "failed"}

\* A rotation was cut short: by a stop, or by a writer that failed with it in
\* its hand.  Some writers have the new hash and the pool has the old one; the
\* service is about to end.
Torn == cancelled \/ \E g \in Groups : pc[g] = "failed" /\ hand[g].kind = "rotate"

\* A chunk holds events of one day and its hash is the universe under which
\* each of them was admitted, as long as no rotation was cut short
\* (ingest.py:25, writer.py:334).
ChunkKeepsContract ==
  \A c \in published, e \in All : e \in c.events =>
    Day(stamp[e]) = c.day /\ (~Torn => c.universe = under[e])

\* Only an event that was overtaken at its admission can be missing from the
\* chunks and lie behind the watermark the lease records: the gap a crash
\* leaves covers what the crash lost (writer.py:223, 309).
WatermarkCoversLoss ==
  \A e \in Admitted \ (Recorded \cup overtaken) : Group(e) \in Critical =>
    \E g \in Critical : watermark[g] <= stamp[e]

\* A clean end of the lease is written only when every admitted event is in a
\* recorded chunk (service.py:187).
CleanMeansComplete == outcome = "clean" => Admitted \subseteq Recorded

\* A day sealed after its grace period lists every chunk of it
\* (service.py:390, day_index.py:62).
GraceCompletesDay ==
  sealed # "open" /\ ~early => {c \in published : c.day = 0} \subseteq inventory

\* The service has ended, or waits for a writer that failed before the boot's
\* rotation reached it.
Over == svc = "down" \/ (svc = "bootRotate" /\ WriterFailed)

\* Once the sources are quiet everything admitted gets recorded, unless the
\* service ends first (writer.py:279).
AdmittedIsRecorded == <>[](Over \/ Admitted \subseteq Recorded)

\* A source that met the hard limit gets to go on, unless the service ends
\* first (queue.py:135).
OverloadEnds == paused # {} ~> Over \/ paused = {}

\* Neither a midnight boundary nor a stop waits for ever: not for a writer
\* that failed, not for one whose rotation was cancelled (writer.py:243, 251,
\* 270).
BoundaryEnds == svc \in {"rotate1", "rotate2", "grace", "seal", "stopping"}
                  ~> svc \in {"running", "down"}

=============================================================================
