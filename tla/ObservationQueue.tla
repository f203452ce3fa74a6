-------------------------- MODULE ObservationQueue --------------------------
(***************************************************************************)
(* Observations: the engine's caller thread, the worker thread and what    *)
(* they share (crates/cogniform-engine/src/observation.rs and engine.rs,   *)
(* the readback pool of crates/cogniform-renderer/src/renderer.rs):        *)
(* permits counted by in_use, readback buffers behind a mutex that the     *)
(* caller only tries and the worker waits for, and two bounded channels.   *)
(*                                                                         *)
(* A request takes several caller steps, so the worker interleaves with    *)
(* it.  Frame contents, cameras and ages are left out.                     *)
(***************************************************************************)
EXTENDS Integers, Sequences, FiniteSets

CONSTANTS
    Capacity,            \* EngineConfig::observation_capacity
    ReadbackCapacity,    \* RendererConfig::readback_capacity
    MaxRequests,         \* bound: requests a caller makes
    MaxRevision          \* bound: scene revision

\* Engine validate_config.
ASSUME ObservationAssumption ==
    /\ Capacity \in Nat \ {0}
    /\ ReadbackCapacity \in Nat
    /\ Capacity <= ReadbackCapacity
    /\ MaxRequests \in Nat
    /\ MaxRevision \in Nat

VARIABLES
    caller,       \* where the caller is inside request_observation
    request,      \* the request it is submitting
    worker,       \* where the worker is in its loop
    job,          \* the job it holds
    jobs,         \* ObservationQueue::sender to the worker's receiver
    results,      \* the worker's sender to ObservationQueue::receiver
    in_use,       \* ObservationSlotState::in_use
    available,    \* number of buffer sets in ReadbackPoolInner::available
    lock,         \* who holds that mutex
    revision,     \* current scene revision
    next_id,      \* the id of the next request
    delivered,    \* history: what try_receive_delivery returned
    refusal       \* history: buffers available when a lease was last refused

callerVars == <<caller, request, next_id, revision, delivered, refusal>>
workerVars == <<worker, job>>
vars == <<callerVars, workerVars, jobs, results, in_use, available, lock>>

CallerStates == {"idle", "reserved", "locked", "leased", "abort", "closed"}
WorkerStates ==
    {"recv", "read", "release", "send", "drop_permit", "drain", "drain_release", "dead"}

Request == [id : 1 .. MaxRequests, revision : 0 .. MaxRevision]
Job == [id : 1 .. MaxRequests, revision : 0 .. MaxRevision,
        frame : {"pending", "ok", "failed", "panic"}]
NoRequest == [id |-> 0, revision |-> 0]
NoRefusal == 0

\* The worker has dropped its end of the job channel.
disconnected == worker \in {"drain", "drain_release", "dead"}

-----------------------------------------------------------------------------
Init ==
    /\ caller = "idle" /\ request = NoRequest
    /\ worker = "recv" /\ job = NoRequest
    /\ jobs = <<>> /\ results = <<>>
    /\ in_use = 0
    /\ available = ReadbackCapacity
    /\ lock = "free"
    /\ revision = 0
    /\ next_id = 1
    /\ delivered = <<>>
    /\ refusal = NoRefusal

(* The caller. *)

\* Mutant: one permit too many.
slot_free_off_by_one == in_use <= Capacity

\* ObservationSlots::try_acquire's condition.
slot_free == in_use < Capacity

\* request_observation up to try_reserve: a request for the current revision.
Reserve ==
    /\ caller = "idle" /\ next_id <= MaxRequests
    /\ slot_free                                \* else CapacityExceeded
    /\ in_use' = in_use + 1
    /\ request' = [id |-> next_id, revision |-> revision]
    /\ next_id' = next_id + 1
    /\ caller' = "reserved"
    /\ UNCHANGED <<workerVars, jobs, results, available, lock, revision, delivered, refusal>>

\* RenderScene::prepare refuses the camera or the draws: the permit is dropped.
PrepareFails ==
    /\ caller = "reserved"
    /\ in_use' = in_use - 1
    /\ caller' = "idle"
    /\ UNCHANGED <<workerVars, jobs, results, available, lock, request, next_id, revision,
                   delivered, refusal>>

\* ReadbackPool::try_acquire: try_lock, and ReadbackPoolExhausted if it would block.
TryLock ==
    /\ caller = "reserved"
    /\ IF lock = "free"
       THEN /\ lock' = "caller" /\ caller' = "locked"
            /\ UNCHANGED <<in_use, refusal>>
       ELSE /\ in_use' = in_use - 1
            /\ caller' = "idle"
            /\ refusal' = available
            /\ UNCHANGED lock
    /\ UNCHANGED <<workerVars, jobs, results, available, request, next_id, revision, delivered>>

\* Pop a buffer set and unlock.
Pop ==
    /\ caller = "locked"
    /\ lock' = "free"
    /\ IF available > 0
       THEN /\ available' = available - 1 /\ caller' = "leased"
            /\ UNCHANGED <<in_use, refusal>>
       ELSE /\ in_use' = in_use - 1 /\ caller' = "idle"
            /\ refusal' = NoRefusal
            /\ UNCHANGED available
    /\ UNCHANGED <<workerVars, jobs, results, request, next_id, revision, delivered>>

\* submit_prepared finds the frame ids used up.
FrameIdOverflow ==
    /\ caller = "leased"
    /\ caller' = "abort"
    /\ UNCHANGED <<workerVars, jobs, results, in_use, available, lock, request, next_id,
                   revision, delivered, refusal>>

\* submit_reserved: try_send.  A job that is not accepted is dropped.
Send ==
    /\ caller = "leased"
    /\ IF disconnected \/ Len(jobs) >= Capacity
       THEN caller' = "abort" /\ UNCHANGED jobs
       ELSE /\ caller' = "idle"
            /\ jobs' = Append(jobs, [id |-> request.id, revision |-> request.revision,
                                     frame |-> "pending"])
    /\ UNCHANGED <<workerVars, results, in_use, available, lock, request, next_id, revision,
                   delivered, refusal>>

\* Mutant: the buffers of a dropped job are not returned.
Abort_keeps_buffers ==
    /\ caller = "abort" /\ lock = "free"
    /\ in_use' = in_use - 1
    /\ caller' = "idle"
    /\ UNCHANGED <<workerVars, jobs, results, available, lock, request, next_id, revision,
                   delivered, refusal>>

\* Dropping permit and lease; returning the buffers waits for the lock.
Abort ==
    /\ caller = "abort" /\ lock = "free"
    /\ available' = available + 1
    /\ in_use' = in_use - 1
    /\ caller' = "idle"
    /\ UNCHANGED <<workerVars, jobs, results, lock, request, next_id, revision, delivered,
                   refusal>>

\* complete_observation.
outcome(c) ==
    IF c.frame # "ok" THEN "RendererError"
    ELSE IF revision < c.revision THEN "SourceRevisionAhead"
    ELSE "Completed"

\* try_receive_delivery on a completion; its permit is dropped with it.
Receive ==
    /\ caller = "idle" /\ results # <<>>
    /\ results' = Tail(results)
    /\ in_use' = in_use - 1
    /\ delivered' = Append(delivered, [id |-> Head(results).id, outcome |-> outcome(Head(results))])
    /\ UNCHANGED <<workerVars, jobs, available, lock, caller, request, next_id, revision, refusal>>

\* The same thread applies patches between calls.
ApplyPatch ==
    /\ caller = "idle" /\ revision < MaxRevision
    /\ revision' = revision + 1
    /\ UNCHANGED <<workerVars, jobs, results, in_use, available, lock, caller, request, next_id,
                   delivered, refusal>>

\* Mutant: outstanding observations are not looked at.
quiescent_always == TRUE

\* revert_to_revision's condition on observations.
quiescent == in_use = 0

\* revert_to_revision: an older revision, with a new renderer, queue and worker.
Revert(target) ==
    /\ caller = "idle" /\ target < revision
    /\ quiescent                                \* else NotQuiescent
    /\ revision' = target
    /\ worker' = "recv" /\ job' = NoRequest
    /\ jobs' = <<>> /\ results' = <<>>
    /\ in_use' = 0 /\ available' = ReadbackCapacity /\ lock' = "free"
    /\ UNCHANGED <<caller, request, next_id, delivered, refusal>>

\* The engine is dropped: both channel ends go, unread results with them.
Close ==
    /\ caller = "idle"
    /\ caller' = "closed"
    /\ results' = <<>>
    /\ in_use' = in_use - Len(results)
    /\ UNCHANGED <<workerVars, jobs, available, lock, request, next_id, revision, delivered,
                   refusal>>

-----------------------------------------------------------------------------
(* The worker: observation_worker. *)

\* Mutants: the newest job first; no end when the sender is gone.
Recv_newest ==
    /\ worker = "recv" /\ jobs # <<>>
    /\ job' = jobs[Len(jobs)] /\ jobs' = SubSeq(jobs, 1, Len(jobs) - 1)
    /\ worker' = "read"
    /\ UNCHANGED <<callerVars, results, in_use, available, lock>>

Recv_never_ends ==
    /\ worker = "recv" /\ jobs # <<>>
    /\ job' = Head(jobs) /\ jobs' = Tail(jobs)
    /\ worker' = "read"
    /\ UNCHANGED <<callerVars, results, in_use, available, lock>>

Recv ==
    /\ worker = "recv"
    /\ IF jobs # <<>>
       THEN /\ job' = Head(jobs) /\ jobs' = Tail(jobs)
            /\ worker' = "read"
       ELSE /\ caller = "closed"
            /\ worker' = "dead"
            /\ UNCHANGED <<job, jobs>>
    /\ UNCHANGED <<callerVars, results, in_use, available, lock>>

\* Mutant: the permit goes before the buffers do.
Read_drops_permit(frame) ==
    /\ worker = "read"
    /\ job' = [job EXCEPT !.frame = frame]
    /\ worker' = "release"
    /\ in_use' = in_use - 1
    /\ UNCHANGED <<callerVars, jobs, results, available, lock>>

\* PendingFrame::read, bounded by its deadline: a frame, an error, or a panic.
Read(frame) ==
    /\ worker = "read"
    /\ job' = [job EXCEPT !.frame = frame]
    /\ worker' = "release"
    /\ UNCHANGED <<callerVars, jobs, results, in_use, available, lock>>

\* Drop of the lease, when read returns or unwinds: wait for the lock, ...
Lock ==
    /\ worker \in {"release", "drain_release"} /\ lock = "free"
    /\ lock' = "worker"
    /\ UNCHANGED <<callerVars, workerVars, jobs, results, in_use, available>>

\* ... push the buffers back and unlock.
Push ==
    /\ lock = "worker"
    /\ available' = available + 1
    /\ lock' = "free"
    /\ worker' = IF worker = "drain_release" THEN "drain"
                 ELSE IF job.frame = "panic" THEN "drop_permit" ELSE "send"
    /\ UNCHANGED <<callerVars, job, jobs, results, in_use>>

\* Mutant: a failed frame is not reported.
SendResult_skips_failed ==
    /\ worker = "send"
    /\ results' = IF job.frame = "ok" THEN Append(results, job) ELSE results
    /\ worker' = "recv"
    /\ UNCHANGED <<callerVars, job, jobs, in_use, available, lock>>

\* results.send waits for room; with the receiver gone the completion is dropped.
SendResult ==
    /\ worker = "send"
    /\ IF caller = "closed"
       THEN worker' = "drop_permit" /\ UNCHANGED results
       ELSE /\ Len(results) < Capacity
            /\ results' = Append(results, job)
            /\ worker' = "recv"
    /\ UNCHANGED <<callerVars, job, jobs, in_use, available, lock>>

\* Mutant: the permit of an abandoned job is leaked.
DropPermit_leaks ==
    /\ worker = "drop_permit"
    /\ worker' = "drain"
    /\ UNCHANGED <<callerVars, job, jobs, results, in_use, available, lock>>

DropPermit ==
    /\ worker = "drop_permit"
    /\ in_use' = in_use - 1
    /\ worker' = "drain"
    /\ UNCHANGED <<callerVars, job, jobs, results, available, lock>>

\* The worker is ending: its receiver discards the queued jobs, permit first.
Drain ==
    /\ worker = "drain"
    /\ IF jobs # <<>>
       THEN /\ job' = Head(jobs) /\ jobs' = Tail(jobs)
            /\ in_use' = in_use - 1
            /\ worker' = "drain_release"
       ELSE worker' = "dead" /\ UNCHANGED <<job, jobs, in_use>>
    /\ UNCHANGED <<callerVars, results, available, lock>>

-----------------------------------------------------------------------------
CallerStep ==
    \/ Reserve \/ PrepareFails \/ TryLock \/ Pop \/ FrameIdOverflow \/ Send \/ Abort
    \/ Receive \/ ApplyPatch \/ Close
    \/ \E target \in 0 .. MaxRevision : Revert(target)

WorkerStep ==
    \/ Recv \/ Lock \/ Push \/ SendResult \/ DropPermit \/ Drain
    \/ \E frame \in {"ok", "failed", "panic"} : Read(frame)

Next == CallerStep \/ WorkerStep

Spec == Init /\ [][Next]_vars

\* The operating system runs the worker thread, the caller finishes the calls it
\* makes and keeps polling for results.
FairSpec ==
    /\ Spec
    /\ WF_vars(WorkerStep)
    /\ WF_vars(PrepareFails \/ TryLock \/ Pop \/ Send \/ Abort)
    /\ WF_vars(Receive)

-----------------------------------------------------------------------------
(* Properties *)

\* The shared state has the shape the code gives it.
ObservationTypeOK ==
    /\ caller \in CallerStates /\ worker \in WorkerStates
    /\ request \in Request \union {NoRequest}
    /\ job \in Job \union {NoRequest}
    /\ jobs \in Seq(Job) /\ results \in Seq(Job)
    /\ in_use \in 0 .. Capacity
    /\ available \in 0 .. ReadbackCapacity
    /\ lock \in {"free", "caller", "worker"}
    /\ revision \in 0 .. MaxRevision
    /\ next_id \in 1 .. MaxRequests + 1

CallerPermits == IF caller \in {"reserved", "locked", "leased", "abort"} THEN 1 ELSE 0
WorkerPermits == IF worker \in {"read", "release", "send", "drop_permit"} THEN 1 ELSE 0
CallerLeases == IF caller \in {"leased", "abort"} THEN 1 ELSE 0
WorkerLeases == IF worker \in {"read", "release", "drain_release"} THEN 1 ELSE 0

\* in_use counts the permits that exist, wherever the request is: with the caller,
\* in a channel or with the worker.  No error path, panic or shutdown leaks or
\* doubly releases one (the debug assertions of acquire and of the permit's Drop).
PermitsAccounted == in_use = CallerPermits + Len(jobs) + WorkerPermits + Len(results)

\* Every buffer set is in the pool or leased to one request.
BuffersAccounted == available + CallerLeases + Len(jobs) + WorkerLeases = ReadbackCapacity

\* A request that got a permit and the lock finds a buffer set, as long as the
\* worker lives: the lease of an answered request is back before its permit is.
PoolNeverEmpty == caller = "locked" /\ ~disconnected => available > 0

\* The job channel is never full when a permit holder sends, and the worker never
\* waits for room in the result channel.
ChannelsNeverFull ==
    /\ caller = "leased" => Len(jobs) < Capacity
    /\ worker = "send" => Len(results) < Capacity

\* Answers come in the order of admission, each at most once, and no answer is
\* about a revision newer than the scene: reverting waits for the answers.
AnswersInOrder ==
    /\ \A i, j \in DOMAIN delivered : i < j => delivered[i].id < delivered[j].id
    /\ \A i \in DOMAIN delivered : delivered[i].outcome # "SourceRevisionAhead"

Broken ==
    \/ caller = "closed"
    \/ worker \in {"drop_permit", "drain", "drain_release", "dead"}
    \/ worker = "release" /\ job.frame = "panic"

Ids(s) == [ i \in DOMAIN s |-> s[i].id ]

Held == IF worker \in {"read", "release", "send"} THEN <<job>> ELSE <<>>

Outstanding == IF Broken THEN Ids(results) ELSE Ids(results \o Held \o jobs)

Port == INSTANCE ObservationPort WITH
            Requests <- 1 .. MaxRequests, outstanding <- Outstanding, broken <- Broken

\* The two threads, the channels and the pool implement the sequential port.
ImplementsPort == Port!Spec

\* Every request the worker was sent is answered, unless the worker breaks.
EveryRequestAnswered ==
    \A id \in 1 .. MaxRequests :
      (\E i \in DOMAIN jobs : jobs[i].id = id)
        ~> (Broken \/ \E i \in DOMAIN delivered : delivered[i].id = id)

\* After the engine is dropped the worker ends, and it gives back every permit
\* and every buffer set.
WorkerEnds ==
    caller = "closed" ~> (worker = "dead" /\ in_use = 0 /\ available = ReadbackCapacity)

\* "all {capacity} bounded readback slots are in flight"
\* (crates/cogniform-renderer/src/error.rs): a lease is refused only when no buffer
\* set is available.
ExhaustedMeansInFlight == refusal = NoRefusal

=============================================================================
