------------------------------ MODULE Gateway ------------------------------
(***************************************************************************)
(* The local gateway (crates/cogniform-engine/src/gateway.rs): bounded     *)
(* admission with supersession and idempotency in front of the engine,     *)
(* FIFO processing, and its re-creation by restore and revert              *)
(* (crates/cogniform-engine/src/service.rs).  A restore takes any recovery *)
(* point captured before, whatever the history has become since.           *)
(*                                                                         *)
(* The engine behind it is represented by the log of accepted commands:    *)
(* its length is the scene revision and its keys are the world's           *)
(* idempotency records (Engine: TypeOK, RecordsMatchLog).  Whether the     *)
(* preflight accepts a patch depends on the scene and is a choice here.    *)
(* The fingerprint of a command is the command, a recovery point the log   *)
(* it encodes.  configure_compilation_limits changes only which            *)
(* imaginations compile, a choice here too, and is a stuttering step.      *)
(***************************************************************************)
EXTENDS Integers, Sequences, FiniteSets

CONSTANTS
    Keys, Transactions, Groups, Contents,
    Commands,                 \* the commands callers may submit
    CommandCapacity,          \* GatewayConfig::command_capacity
    IdempotencyCapacity,      \* GatewayConfig::idempotency_capacity
    MaxIdempotencyRecords,    \* WorldConfig::max_idempotency_records
    MaxEntries,               \* ReplayConfig::max_entries
    MaxPoints                 \* bound on recovery points kept by callers

Command ==
    [ key : Keys, kind : {"Patch", "Imagination"}, transaction : Transactions,
      delivery : {"MustApply", "LatestWins", "BestEffort"},
      group : Groups,         \* the supersession key, of LatestWins only
      base : Nat, content : Contents ]

\* validate_config against a world with no records.
ASSUME GatewayAssumption ==
    /\ Commands \subseteq Command
    /\ CommandCapacity \in Nat \ {0}
    /\ IdempotencyCapacity \in Nat
    /\ MaxIdempotencyRecords \in Nat
    /\ MaxEntries \in Nat
    /\ MaxPoints \in Nat
    /\ CommandCapacity <= IdempotencyCapacity
    /\ IdempotencyCapacity <= MaxIdempotencyRecords

VARIABLES
    queue,        \* CommandQueue::entries
    completed,    \* key -> [command, receipt]; receipt 0 is None
    log,          \* accepted commands, see above
    points,       \* the logs of the recovery points captured so far
    retained      \* history: world records when this gateway was created

gatewayVars == <<queue, completed, log, points, retained>>

NoReceipt == 0

\* Mutant: the other entries are lost.
Put_only(f, k, v) == [ x \in {k} |-> v ]

Put(f, k, v) == [ x \in DOMAIN f \union {k} |-> IF x = k THEN v ELSE f[x] ]

RecordedKeys == { log[i].key : i \in DOMAIN log }

\* Mutant: the current revision instead of the recorded one.
ReceiptOf_current(k) == Len(log)

\* The revision an accepted key produced: its receipt.
ReceiptOf(k) == CHOOSE i \in DOMAIN log : log[i].key = k

depth == Len(queue)

\* Mutant: queued commands have no reservation.
has_idempotency_capacity_completed == Cardinality(DOMAIN completed) < IdempotencyCapacity

has_idempotency_capacity == Cardinality(DOMAIN completed) + depth < IdempotencyCapacity

\* Mutant: only an identical command counts as queued.
QueuedAt_identical(c) == { i \in DOMAIN queue : queue[i] = c }

QueuedAt(c) == { i \in DOMAIN queue : queue[i].key = c.key }

\* Mutant: a command only replaces one of its own kind.
SupersededAt_same_kind(c) ==
    { i \in DOMAIN queue : /\ c.delivery = "LatestWins"
                           /\ queue[i].delivery = "LatestWins"
                           /\ queue[i].group = c.group
                           /\ queue[i].kind = c.kind }

SupersededAt(c) ==
    { i \in DOMAIN queue : /\ c.delivery = "LatestWins"
                           /\ queue[i].delivery = "LatestWins"
                           /\ queue[i].group = c.group }

SupersededPosition(c) ==
    CHOOSE i \in SupersededAt(c) : \A j \in SupersededAt(c) : i <= j

-----------------------------------------------------------------------------
GatewayInit ==
    /\ queue = <<>>
    /\ completed = [ k \in {} |-> NoReceipt ]
    /\ log = <<>>
    /\ points = {}
    /\ retained = 0

\* LocalGateway::admit, then CommandQueue::admit: what a submission of c is
\* answered with.
admission(c) ==
    IF c.key \in DOMAIN completed
    THEN IF completed[c.key].command = c THEN "Replayed" ELSE "IdempotencyConflict"
    ELSE IF QueuedAt(c) # {}
    THEN IF \E i \in QueuedAt(c) : queue[i] = c THEN "AlreadyQueued"
         ELSE "IdempotencyConflict"
    ELSE IF SupersededAt(c) # {} THEN "Superseded"
    ELSE IF depth >= CommandCapacity \/ ~has_idempotency_capacity
    THEN IF c.delivery = "BestEffort" THEN "Dropped"
         ELSE IF depth >= CommandCapacity THEN "CommandCapacityExceeded"
         ELSE "IdempotencyCapacityExceeded"
    ELSE "Queued"

\* Mutant: a superseding command goes to the back of the queue.
Supersede_to_back(c) ==
    LET p == SupersededPosition(c)
    IN  Append(SubSeq(queue, 1, p - 1) \o SubSeq(queue, p + 1, Len(queue)), c)

\* The queue after a superseding command took the place of the superseded one.
Supersede(c) == [queue EXCEPT ![SupersededPosition(c)] = c]

\* submit_patch and submit_imagination of a valid command.
Submit(c) ==
    /\ queue' = IF admission(c) = "Queued" THEN Append(queue, c)
                ELSE IF admission(c) = "Superseded" THEN Supersede(c)
                ELSE queue
    /\ UNCHANGED <<completed, log, points, retained>>

\* Mutant: the key is not looked up.
engine_can_apply_any_key(c) ==
    /\ Len(log) < MaxEntries
    /\ Len(log) < MaxIdempotencyRecords
    /\ c.base = Len(log)

\* CogniformEngine::apply_patch on the patch of c, as far as the log shows it.
engine_can_apply(c) ==
    /\ c.key \notin RecordedKeys
    /\ Len(log) < MaxEntries
    /\ Len(log) < MaxIdempotencyRecords
    /\ c.base = Len(log)

engine_replays(c) ==
    c.key \in RecordedKeys /\ log[ReceiptOf(c.key)].transaction = c.transaction

\* The compiler refuses an imagination that is not based on the current revision.
compiles(c) == c.kind = "Imagination" => c.base = Len(log)

\* Mutants: the response is not kept; only patches are kept.
Complete_without_receipt(c, receipt) ==
    completed' = Put(completed, c.key, [command |-> c])

Complete_patches(c, receipt) ==
    completed' = IF c.kind = "Patch"
                 THEN Put(completed, c.key, [command |-> c, receipt |-> receipt])
                 ELSE completed

Complete(c, receipt) == completed' = Put(completed, c.key, [command |-> c, receipt |-> receipt])

\* process_next, one disjunct per way it can end.  The command is popped first,
\* so a refused one is gone without a completed record.
ProcessApplied ==
    LET c == Head(queue)
    IN  /\ queue # <<>>
        /\ compiles(c) /\ engine_can_apply(c)
        /\ queue' = Tail(queue)
        /\ log' = Append(log, c)
        /\ Complete(c, Len(log) + 1)
        /\ UNCHANGED <<points, retained>>

ProcessReplayed ==
    LET c == Head(queue)
    IN  /\ queue # <<>>
        /\ compiles(c) /\ engine_replays(c)
        /\ queue' = Tail(queue)
        /\ Complete(c, ReceiptOf(c.key))
        /\ UNCHANGED <<log, points, retained>>

ProcessUnresolved ==
    LET c == Head(queue)
    IN  /\ queue # <<>>
        /\ c.kind = "Imagination" /\ compiles(c)
        /\ queue' = Tail(queue)
        /\ Complete(c, NoReceipt)
        /\ UNCHANGED <<log, points, retained>>

ProcessRefused ==
    LET c == Head(queue)
    IN  /\ queue # <<>>
        /\ c.kind = "Patch" => ~engine_replays(c)
        /\ queue' = Tail(queue)
        /\ UNCHANGED <<completed, log, points, retained>>

\* Mutant: a command the engine refuses stays at the head.
process_next_accepted == ProcessApplied \/ ProcessReplayed \/ ProcessUnresolved

process_next == ProcessApplied \/ ProcessReplayed \/ ProcessUnresolved \/ ProcessRefused

\* Mutant: room is required for the queue only.
validate_config_queue(available_world_records) == CommandCapacity <= available_world_records

\* The part of validate_config that depends on the restored world.
validate_config(available_world_records) == IdempotencyCapacity <= available_world_records

\* recovery_point_at_revision; at the current revision it is recovery_point.
Point(revision) == SubSeq(log, 1, revision)

CapturePoint(revision) ==
    /\ revision <= Len(log)                             \* else ReplayRevisionError
    /\ Cardinality(points) < MaxPoints
    /\ points' = points \union {Point(revision)}
    /\ UNCHANGED <<queue, completed, log, retained>>

\* A fresh gateway over an engine restored from a point, if validate_config finds
\* room for its records beside those of the point.
Fresh(point) ==
    /\ validate_config(MaxIdempotencyRecords - Len(point))
    /\ queue' = <<>>
    /\ completed' = [ k \in {} |-> NoReceipt ]
    /\ log' = point
    /\ retained' = Len(point)
    /\ UNCHANGED points

\* LocalService::restore, the queue and the results of the source lost: any point,
\* of an abandoned line of history or of a later revision too.
Restore(point) ==
    /\ point \in points
    /\ Fresh(point)

\* LocalService::revert_to_revision: strictly older, nothing queued.
Revert(revision) ==
    /\ revision < Len(log)
    /\ queue = <<>>
    /\ Fresh(Point(revision))

GatewayNext ==
    \/ \E c \in Commands : Submit(c)
    \/ process_next
    \/ \E revision \in 0 .. Len(log) : CapturePoint(revision) \/ Revert(revision)
    \/ \E point \in points : Restore(point)

GatewaySpec == GatewayInit /\ [][GatewayNext]_gatewayVars

\* The owner of the service keeps driving process_next.
FairGatewaySpec == GatewaySpec /\ WF_gatewayVars(process_next)

-----------------------------------------------------------------------------
(* Properties *)

\* Queue, completed records and log have the shapes of the code's collections.
GatewayTypeOK ==
    /\ queue \in Seq(Commands)
    /\ DOMAIN completed \subseteq Keys
    /\ IsFiniteSet(DOMAIN completed)
    /\ \A k \in DOMAIN completed : completed[k] \in [command : Commands, receipt : Nat]
    /\ log \in Seq(Commands)
    /\ \A p \in points : p \in Seq(Commands)
    /\ retained \in Nat

\* A key is in one place at most: queued once, or completed; admit answers a
\* repeated key from the one record it finds.
KeysInOnePlace ==
    /\ \A i, j \in DOMAIN queue : queue[i].key = queue[j].key => i = j
    /\ \A i \in DOMAIN queue : queue[i].key \notin DOMAIN completed

\* A supersession key holds at most one place in the queue, so a newer value
\* replaces the only older one.
OnePlacePerGroup ==
    \A i, j \in DOMAIN queue :
      /\ queue[i].delivery = "LatestWins" /\ queue[j].delivery = "LatestWins"
      /\ queue[i].group = queue[j].group
      => i = j

\* Queued and completed keys together never exceed the idempotency capacity:
\* the assertion process_next makes before it records a result.
ReservationsFit ==
    /\ Len(queue) <= CommandCapacity
    /\ Cardinality(DOMAIN completed) + Len(queue) <= IdempotencyCapacity

\* Every record of the world was there when the gateway was created or belongs to
\* a completed key, and the gateway was created with room for all its keys.
RecordsAccounted ==
    /\ Len(log) <= retained + Cardinality(DOMAIN completed)
    /\ retained + IdempotencyCapacity <= MaxIdempotencyRecords

\* While a command is queued the world has room for its idempotency record, also
\* in a gateway created over restored records: an admitted command is never
\* refused for want of record space.
RoomForRecord == queue # <<>> => Len(log) < MaxIdempotencyRecords

\* No history holds an idempotency key twice, neither the current one nor that of
\* a recovery point, whatever was queued, repeated, superseded, refused, restored
\* or reverted.  A key that a revert cut off is no longer in the current history
\* and may be accepted again.
KeysAcceptedOnce ==
    \A h \in points \union {log} :
      \A i, j \in DOMAIN h : h[i].key = h[j].key => i = j

\* A receipt kept for a key is the revision at which the log accepted that key.
ReceiptsInLog ==
    \A k \in DOMAIN completed :
      LET r == completed[k].receipt
      IN  r # NoReceipt => r \in DOMAIN log /\ log[r].key = k

\* Every command accepted since the gateway was created has its answer kept, with
\* the revision it produced as receipt: process_next leaves no command applied and
\* its caller, asking again, without the result.
AcceptedAnswered ==
    \A i \in DOMAIN log :
      i > retained => /\ log[i].key \in DOMAIN completed
                      /\ completed[log[i].key].receipt = i

\* A completed result is never replaced or dropped while its gateway lives; only
\* a restored or reverted service starts without results.
CompletedStable ==
    [][ \/ completed' = [ k \in {} |-> NoReceipt ] /\ queue' = <<>>
        \/ \A k \in DOMAIN completed :
             k \in DOMAIN completed' /\ completed'[k] = completed[k] ]_gatewayVars

\* What a queued command waits as: a latest-wins command for its group, any other
\* for its own key.
slot(c) == IF c.delivery = "LatestWins" THEN <<"group", c.group>> ELSE <<"key", c.key>>

Waiting(q, s) == \E i \in DOMAIN q : slot(q[i]) = s

Ahead(q, s, t) == \E i, j \in DOMAIN q : i < j /\ slot(q[i]) = s /\ slot(q[j]) = t

\* No command overtakes one that is waiting: whatever stands before a slot after a
\* step stood before it already.  A superseding command keeps the place of the one
\* it replaces, in the middle of the queue too, and moves no other.
NoOvertaking ==
    [][ \A i, j \in DOMAIN queue' :
          i < j /\ Waiting(queue, slot(queue'[j]))
          => Ahead(queue, slot(queue'[i]), slot(queue'[j])) ]_gatewayVars

\* Every queued command leaves the queue: it is processed, superseded, or lost
\* with its service.
QueuedLeaves ==
    \A k \in Keys :
      (\E i \in DOMAIN queue : queue[i].key = k) ~> ~(\E i \in DOMAIN queue : queue[i].key = k)

\* "Idempotency key reused for different command content | Return typed conflict"
\* (docs/operations/failure-and-recovery.md:18): a receipt is only ever given for
\* the content that was accepted under the key.
ReceiptOnlyForItsContent ==
    \A k \in DOMAIN completed :
      LET r == completed[k].receipt
      IN  r # NoReceipt => log[r].content = completed[k].command.content

=============================================================================
