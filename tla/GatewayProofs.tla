--------------------------- MODULE GatewayProofs ---------------------------
(***************************************************************************)
(* Machine-checked proofs about Gateway: its invariants hold for every     *)
(* set of commands and every capacity that validate_config accepts,        *)
(* completed results are stable, and no queued command is overtaken.       *)
(***************************************************************************)
EXTENDS Gateway, FiniteSetTheorems, SequenceTheorems, TLAPS

\* The inductive invariant: the invariants of Gateway, together.
GatewayInv ==
    /\ GatewayTypeOK
    /\ KeysInOnePlace
    /\ OnePlacePerGroup
    /\ ReservationsFit
    /\ RecordsAccounted
    /\ KeysAcceptedOnce
    /\ ReceiptsInLog
    /\ AcceptedAnswered

-----------------------------------------------------------------------------
\* The fields of a command that the invariants look at (the admission record).
LEMMA CommandFields ==
    ASSUME NEW c \in Commands
    PROVE  /\ c.key \in Keys
           /\ c.base \in Nat
BY GatewayAssumption DEF Command

\* Completing a new key adds exactly that key (BTreeMap::insert in process_next).
LEMMA PutNew ==
    ASSUME NEW f, NEW k, NEW v, k \notin DOMAIN f, IsFiniteSet(DOMAIN f)
    PROVE  /\ DOMAIN Put(f, k, v) = DOMAIN f \union {k}
           /\ Put(f, k, v)[k] = v
           /\ \A x \in DOMAIN f : Put(f, k, v)[x] = f[x]
           /\ IsFiniteSet(DOMAIN Put(f, k, v))
           /\ Cardinality(DOMAIN Put(f, k, v)) = Cardinality(DOMAIN f) + 1
<1>1. /\ DOMAIN Put(f, k, v) = DOMAIN f \union {k}
      /\ Put(f, k, v)[k] = v
      /\ \A x \in DOMAIN f : Put(f, k, v)[x] = f[x]
  BY DEF Put
<1>2. QED
  BY <1>1, FS_AddElement

\* The position that a superseding command takes is one of its group.
LEMMA SupersededPositionFound ==
    ASSUME GatewayTypeOK, OnePlacePerGroup, NEW c \in Commands, SupersededAt(c) # {}
    PROVE  SupersededPosition(c) \in SupersededAt(c)
<1>1. PICK i \in SupersededAt(c) : TRUE
  OBVIOUS
<1>2. DOMAIN queue = 1 .. Len(queue) /\ Len(queue) \in Nat
  BY DEF GatewayTypeOK
<1>3. \A j \in SupersededAt(c) : i <= j
  BY <1>1, <1>2 DEF SupersededAt, OnePlacePerGroup
<1>4. QED
  BY <1>1, <1>3 DEF SupersededPosition

-----------------------------------------------------------------------------
\* A new gateway over an engine without records satisfies the invariant.
LEMMA InitInv == GatewayInit => GatewayInv
<1> SUFFICES ASSUME GatewayInit PROVE GatewayInv
  OBVIOUS
<1>1. /\ IsFiniteSet(DOMAIN completed)
      /\ Cardinality(DOMAIN completed) = 0
      /\ DOMAIN completed = {}
  BY FS_EmptySet DEF GatewayInit
<1>2. GatewayTypeOK
  BY <1>1 DEF GatewayInit, GatewayTypeOK
<1>3. KeysInOnePlace /\ OnePlacePerGroup /\ KeysAcceptedOnce /\ ReceiptsInLog /\ AcceptedAnswered
  BY <1>1 DEF GatewayInit, KeysInOnePlace, OnePlacePerGroup, KeysAcceptedOnce, ReceiptsInLog,
              AcceptedAnswered
<1>4. ReservationsFit /\ RecordsAccounted
  BY <1>1, GatewayAssumption DEF GatewayInit, ReservationsFit, RecordsAccounted
<1>5. QED
  BY <1>2, <1>3, <1>4 DEF GatewayInv

\* Submission preserves the invariant: it appends within the reserved capacity,
\* replaces the one queued command of the same group, or changes nothing.
LEMMA SubmitInv ==
    ASSUME GatewayInv, NEW c \in Commands, Submit(c)
    PROVE  GatewayInv'
<1> USE DEF GatewayInv
<1>t. /\ queue \in Seq(Commands)
      /\ Len(queue) \in Nat
      /\ DOMAIN queue = 1 .. Len(queue)
      /\ Cardinality(DOMAIN completed) \in Nat
  BY FS_CardinalityType DEF GatewayTypeOK
<1>u. completed' = completed /\ log' = log /\ points' = points /\ retained' = retained
  BY DEF Submit
<1>k. KeysAcceptedOnce' /\ ReceiptsInLog' /\ AcceptedAnswered' /\ RecordsAccounted'
  BY <1>u DEF KeysAcceptedOnce, ReceiptsInLog, AcceptedAnswered, RecordsAccounted
<1>1. CASE admission(c) = "Queued"
  <2>1. queue' = Append(queue, c)
    BY <1>1 DEF Submit
  <2>2. /\ c.key \notin DOMAIN completed
        /\ QueuedAt(c) = {}
        /\ SupersededAt(c) = {}
        /\ ~(depth >= CommandCapacity)
        /\ has_idempotency_capacity
    BY <1>1 DEF admission
  <2>3. /\ queue' \in Seq(Commands)
        /\ DOMAIN queue' = 1 .. Len(queue) + 1
        /\ Len(queue') = Len(queue) + 1
        /\ \A i \in DOMAIN queue : queue'[i] = queue[i]
        /\ queue'[Len(queue) + 1] = c
    BY <1>t, <2>1, AppendProperties, LenProperties
  <2>4. GatewayTypeOK'
    BY <2>3, <1>u DEF GatewayTypeOK
  <2>5. KeysInOnePlace'
    BY <1>t, <1>u, <2>2, <2>3 DEF KeysInOnePlace, QueuedAt
  <2>6. OnePlacePerGroup'
    BY <1>t, <2>2, <2>3 DEF OnePlacePerGroup, SupersededAt
  <2>7. ReservationsFit'
    BY <1>t, <1>u, <2>2, <2>3, GatewayAssumption
       DEF ReservationsFit, depth, has_idempotency_capacity
  <2>8. QED
    BY <1>k, <2>4, <2>5, <2>6, <2>7
<1>2. CASE admission(c) = "Superseded"
  <2> DEFINE p == SupersededPosition(c)
  <2>1. queue' = [queue EXCEPT ![p] = c]
    BY <1>2 DEF Submit, Supersede
  <2>2. /\ c.key \notin DOMAIN completed
        /\ QueuedAt(c) = {}
        /\ SupersededAt(c) # {}
    BY <1>2 DEF admission
  <2>3. p \in SupersededAt(c)
    BY <2>2, SupersededPositionFound
  <2>4. /\ p \in DOMAIN queue
        /\ c.delivery = "LatestWins"
        /\ queue[p].delivery = "LatestWins"
        /\ queue[p].group = c.group
    BY <2>3 DEF SupersededAt
  <2> HIDE DEF p
  <2>5. /\ queue' \in Seq(Commands)
        /\ DOMAIN queue' = DOMAIN queue
        /\ Len(queue') = Len(queue)
        /\ queue'[p] = c
        /\ \A i \in DOMAIN queue : i # p => queue'[i] = queue[i]
    BY <1>t, <2>1, <2>4, ExceptSeq
  <2>6. GatewayTypeOK'
    BY <2>5, <1>u DEF GatewayTypeOK
  <2>7. KeysInOnePlace'
    BY <1>t, <1>u, <2>2, <2>4, <2>5 DEF KeysInOnePlace, QueuedAt
  <2>8. OnePlacePerGroup'
    BY <1>t, <2>4, <2>5 DEF OnePlacePerGroup
  <2>9. ReservationsFit'
    BY <1>u, <2>5 DEF ReservationsFit
  <2>10. QED
    BY <1>k, <2>6, <2>7, <2>8, <2>9
<1>3. CASE admission(c) # "Queued" /\ admission(c) # "Superseded"
  <2>1. queue' = queue
    BY <1>3 DEF Submit
  <2>2. QED
    BY <1>u, <1>k, <2>1
       DEF GatewayTypeOK, KeysInOnePlace, OnePlacePerGroup, ReservationsFit
<1>4. QED
  BY <1>1, <1>2, <1>3

-----------------------------------------------------------------------------
\* What CommandQueue::pop_front leaves: a shorter queue without the popped key.
LEMMA PopFacts ==
    ASSUME GatewayInv, queue # <<>>, queue' = Tail(queue)
    PROVE  /\ Head(queue) \in Commands
           /\ Head(queue).key \in Keys
           /\ Head(queue).key \notin DOMAIN completed
           /\ queue' \in Seq(Commands)
           /\ Len(queue') = Len(queue) - 1
           /\ Len(queue) \in Nat \ {0}
           /\ DOMAIN queue = 1 .. Len(queue)
           /\ DOMAIN queue' = 1 .. Len(queue')
           /\ \A i \in DOMAIN queue' : queue'[i] = queue[i + 1] /\ i + 1 \in DOMAIN queue
           /\ \A i \in DOMAIN queue' : queue'[i].key # Head(queue).key
<1>1. queue \in Seq(Commands)
  BY DEF GatewayInv, GatewayTypeOK
<1>2. /\ Head(queue) \in Commands
      /\ queue' \in Seq(Commands)
      /\ Len(queue') = Len(queue) - 1
      /\ Len(queue) \in Nat \ {0}
      /\ DOMAIN queue = 1 .. Len(queue)
      /\ DOMAIN queue' = 1 .. Len(queue')
      /\ \A i \in 1 .. Len(queue') : queue'[i] = queue[i + 1]
      /\ Head(queue) = queue[1]
  BY <1>1, HeadTailProperties, EmptySeq, LenProperties
<1>3. \A i \in DOMAIN queue' : queue'[i] = queue[i + 1] /\ i + 1 \in DOMAIN queue /\ i + 1 # 1
  BY <1>2
<1>4. 1 \in DOMAIN queue
  BY <1>2
<1>5. /\ Head(queue).key \notin DOMAIN completed
      /\ \A i \in DOMAIN queue' : queue'[i].key # Head(queue).key
  BY <1>2, <1>3, <1>4 DEF GatewayInv, KeysInOnePlace
<1>6. QED
  BY <1>2, <1>3, <1>5, CommandFields

\* Popping a command keeps the queue's own invariants.
LEMMA PopQueueInv ==
    ASSUME GatewayInv, queue # <<>>, queue' = Tail(queue)
    PROVE  /\ OnePlacePerGroup'
           /\ \A i, j \in DOMAIN queue' : queue'[i].key = queue'[j].key => i = j
           /\ \A i \in DOMAIN queue' : queue'[i].key \notin DOMAIN completed
<1>1. \A i, j \in DOMAIN queue' : i + 1 = j + 1 => i = j
  BY PopFacts
<1>2. OnePlacePerGroup'
  BY <1>1, PopFacts DEF GatewayInv, OnePlacePerGroup
<1>3. QED
  BY <1>1, <1>2, PopFacts DEF GatewayInv, KeysInOnePlace

\* Recording a response for the popped command, whether or not the log grew.
LEMMA CompleteInv ==
    ASSUME GatewayInv, queue # <<>>, queue' = Tail(queue),
           NEW r \in Nat, Complete(Head(queue), r)
    PROVE  /\ KeysInOnePlace' /\ OnePlacePerGroup' /\ ReservationsFit'
           /\ DOMAIN completed' = DOMAIN completed \union {Head(queue).key}
           /\ completed'[Head(queue).key] = [command |-> Head(queue), receipt |-> r]
           /\ \A k \in DOMAIN completed : completed'[k] = completed[k]
           /\ IsFiniteSet(DOMAIN completed')
           /\ Cardinality(DOMAIN completed') = Cardinality(DOMAIN completed) + 1
           /\ Cardinality(DOMAIN completed) \in Nat
           /\ DOMAIN completed' \subseteq Keys
           /\ \A k \in DOMAIN completed' : completed'[k] \in [command : Commands, receipt : Nat]
<1> DEFINE h == Head(queue)
<1>1. /\ IsFiniteSet(DOMAIN completed)
      /\ Cardinality(DOMAIN completed) \in Nat
  BY FS_CardinalityType DEF GatewayInv, GatewayTypeOK
<1>2. /\ DOMAIN completed' = DOMAIN completed \union {h.key}
      /\ completed'[h.key] = [command |-> h, receipt |-> r]
      /\ \A k \in DOMAIN completed : completed'[k] = completed[k]
      /\ IsFiniteSet(DOMAIN completed')
      /\ Cardinality(DOMAIN completed') = Cardinality(DOMAIN completed) + 1
  <2> DEFINE v == [command |-> h, receipt |-> r]
  <2>1. h.key \notin DOMAIN completed
    BY PopFacts
  <2>2. completed' = Put(completed, h.key, v)
    BY DEF Complete
  <2> HIDE DEF h, v
  <2>3. /\ DOMAIN Put(completed, h.key, v) = DOMAIN completed \union {h.key}
        /\ Put(completed, h.key, v)[h.key] = v
        /\ \A k \in DOMAIN completed : Put(completed, h.key, v)[k] = completed[k]
        /\ IsFiniteSet(DOMAIN Put(completed, h.key, v))
        /\ Cardinality(DOMAIN Put(completed, h.key, v)) = Cardinality(DOMAIN completed) + 1
    BY <1>1, <2>1, PutNew, Zenon
  <2>4. /\ DOMAIN completed' = DOMAIN completed \union {h.key}
        /\ completed'[h.key] = v
        /\ \A k \in DOMAIN completed : completed'[k] = completed[k]
        /\ IsFiniteSet(DOMAIN completed')
        /\ Cardinality(DOMAIN completed') = Cardinality(DOMAIN completed) + 1
    BY <2>2, <2>3, Zenon
  <2>5. QED
    BY <2>4 DEF v
<1>3. KeysInOnePlace'
  BY <1>2, PopFacts, PopQueueInv DEF KeysInOnePlace
<1>4. ReservationsFit'
  BY <1>1, <1>2, PopFacts, GatewayAssumption DEF GatewayInv, ReservationsFit
<1>5. /\ DOMAIN completed' \subseteq Keys
      /\ \A k \in DOMAIN completed' : completed'[k] \in [command : Commands, receipt : Nat]
  BY <1>2, PopFacts DEF GatewayInv, GatewayTypeOK
<1>6. QED
  BY <1>1, <1>2, <1>3, <1>4, <1>5, PopQueueInv

\* Applying the head of the queue: the log gains a key it did not have.
LEMMA AppliedInv ==
    ASSUME GatewayInv, ProcessApplied
    PROVE  GatewayInv'
<1> DEFINE h == Head(queue)
<1>1. /\ queue # <<>> /\ queue' = Tail(queue)
      /\ log' = Append(log, h)
      /\ Complete(h, Len(log) + 1)
      /\ points' = points /\ retained' = retained
      /\ h.key \notin RecordedKeys
  BY DEF ProcessApplied, engine_can_apply
<1>2. /\ log \in Seq(Commands)
      /\ Len(log) \in Nat
      /\ DOMAIN log = 1 .. Len(log)
      /\ retained \in Nat
  BY DEF GatewayInv, GatewayTypeOK
<1>3. h \in Commands
  BY <1>1, PopFacts
<1>4. /\ log' \in Seq(Commands)
      /\ Len(log') = Len(log) + 1
      /\ DOMAIN log' = 1 .. Len(log) + 1
      /\ \A i \in DOMAIN log : log'[i] = log[i]
      /\ log'[Len(log) + 1] = h
  BY <1>1, <1>2, <1>3, AppendProperties, LenProperties
<1>5. Len(log) + 1 \in Nat
  BY <1>2
<1> HIDE DEF h
<1>6. /\ KeysInOnePlace' /\ OnePlacePerGroup' /\ ReservationsFit'
      /\ DOMAIN completed' = DOMAIN completed \union {h.key}
      /\ completed'[h.key] = [command |-> h, receipt |-> Len(log) + 1]
      /\ \A k \in DOMAIN completed : completed'[k] = completed[k]
      /\ Cardinality(DOMAIN completed') = Cardinality(DOMAIN completed) + 1
      /\ Cardinality(DOMAIN completed) \in Nat
  BY <1>1, <1>5, CompleteInv DEF h
<1>7. GatewayTypeOK'
  <2>1. queue' \in Seq(Commands)
    BY <1>1, PopFacts
  <2>2. /\ IsFiniteSet(DOMAIN completed')
        /\ DOMAIN completed' \subseteq Keys
        /\ \A k \in DOMAIN completed' : completed'[k] \in [command : Commands, receipt : Nat]
    BY <1>1, <1>5, CompleteInv DEF h
  <2>3. QED
    BY <1>1, <1>2, <1>4, <2>1, <2>2 DEF GatewayInv, GatewayTypeOK
<1>8. RecordsAccounted'
  BY <1>1, <1>2, <1>4, <1>6, GatewayAssumption DEF GatewayInv, RecordsAccounted
<1>9. KeysAcceptedOnce'
  <2>1. \A i, j \in DOMAIN log : log[i].key = log[j].key => i = j
    BY DEF GatewayInv, KeysAcceptedOnce
  <2>2. \A i \in DOMAIN log : log[i].key # h.key
    BY <1>1 DEF RecordedKeys
  <2>3. \A i, j \in DOMAIN log' : log'[i].key = log'[j].key => i = j
    BY <1>2, <1>4, <2>1, <2>2
  <2>4. QED
    BY <1>1, <2>3 DEF GatewayInv, KeysAcceptedOnce
<1>10. ReceiptsInLog'
  BY <1>2, <1>4, <1>6 DEF GatewayInv, ReceiptsInLog, NoReceipt
<1>11. AcceptedAnswered'
  <2> SUFFICES ASSUME NEW i \in DOMAIN log', i > retained
               PROVE  /\ log'[i].key \in DOMAIN completed'
                      /\ completed'[log'[i].key].receipt = i
    BY <1>1 DEF AcceptedAnswered
  <2>1. CASE i = Len(log) + 1
    BY <1>4, <1>6, <2>1
  <2>2. CASE i # Len(log) + 1
    <3>1. i \in DOMAIN log /\ log'[i] = log[i]
      BY <1>2, <1>4, <2>2
    <3>2. log[i].key \in DOMAIN completed /\ completed[log[i].key].receipt = i
      BY <3>1 DEF GatewayInv, AcceptedAnswered
    <3>3. QED
      BY <1>6, <3>1, <3>2
  <2>3. QED
    BY <2>1, <2>2
<1>12. QED
  BY <1>6, <1>7, <1>8, <1>9, <1>10, <1>11 DEF GatewayInv

\* Completing another key leaves the answers of the accepted commands in place.
LEMMA AnswersKept ==
    ASSUME GatewayInv, log' = log, retained' = retained,
           DOMAIN completed \subseteq DOMAIN completed',
           \A k \in DOMAIN completed : completed'[k] = completed[k]
    PROVE  AcceptedAnswered'
BY DEF GatewayInv, AcceptedAnswered

\* A recorded key answered with its receipt: the log is unchanged.
LEMMA ReplayedInv ==
    ASSUME GatewayInv, ProcessReplayed
    PROVE  GatewayInv'
<1> DEFINE h == Head(queue)
           r == ReceiptOf(Head(queue).key)
<1>1. /\ queue # <<>> /\ queue' = Tail(queue)
      /\ Complete(h, r)
      /\ log' = log /\ points' = points /\ retained' = retained
      /\ h.key \in RecordedKeys
  BY DEF ProcessReplayed, engine_replays
<1>2. /\ Len(log) \in Nat
      /\ DOMAIN log = 1 .. Len(log)
      /\ retained \in Nat
  BY DEF GatewayInv, GatewayTypeOK
<1>3. r \in DOMAIN log /\ log[r].key = h.key
  BY <1>1 DEF RecordedKeys, ReceiptOf
<1>4. r \in Nat
  BY <1>2, <1>3
<1> HIDE DEF h, r
<1>5. QED
  <2>1. /\ KeysInOnePlace' /\ OnePlacePerGroup' /\ ReservationsFit'
        /\ DOMAIN completed' = DOMAIN completed \union {h.key}
        /\ completed'[h.key] = [command |-> h, receipt |-> r]
        /\ \A k \in DOMAIN completed : completed'[k] = completed[k]
        /\ IsFiniteSet(DOMAIN completed')
        /\ Cardinality(DOMAIN completed') = Cardinality(DOMAIN completed) + 1
        /\ Cardinality(DOMAIN completed) \in Nat
        /\ DOMAIN completed' \subseteq Keys
        /\ \A k \in DOMAIN completed' : completed'[k] \in [command : Commands, receipt : Nat]
    BY <1>1, <1>4, CompleteInv DEF h
  <2>2. GatewayTypeOK'
    BY <1>1, <2>1, PopFacts DEF GatewayInv, GatewayTypeOK
  <2>3. RecordsAccounted'
    BY <1>1, <1>2, <2>1, GatewayAssumption DEF GatewayInv, RecordsAccounted
  <2>4. KeysAcceptedOnce'
    BY <1>1 DEF GatewayInv, KeysAcceptedOnce
  <2>5. ReceiptsInLog'
    BY <1>1, <1>3, <2>1 DEF GatewayInv, ReceiptsInLog, NoReceipt
  <2>6. AcceptedAnswered'
    BY <1>1, <2>1, AnswersKept
  <2>7. QED
    BY <2>1, <2>2, <2>3, <2>4, <2>5, <2>6 DEF GatewayInv

\* An imagination that left constraints unresolved is recorded without a receipt.
LEMMA UnresolvedInv ==
    ASSUME GatewayInv, ProcessUnresolved
    PROVE  GatewayInv'
<1> DEFINE h == Head(queue)
<1>1. /\ queue # <<>> /\ queue' = Tail(queue)
      /\ Complete(h, 0)
      /\ log' = log /\ points' = points /\ retained' = retained
  BY DEF ProcessUnresolved, NoReceipt
<1>2. Len(log) \in Nat /\ retained \in Nat
  BY DEF GatewayInv, GatewayTypeOK
<1> HIDE DEF h
<1>3. /\ KeysInOnePlace' /\ OnePlacePerGroup' /\ ReservationsFit'
      /\ DOMAIN completed' = DOMAIN completed \union {h.key}
      /\ completed'[h.key] = [command |-> h, receipt |-> 0]
      /\ \A k \in DOMAIN completed : completed'[k] = completed[k]
      /\ IsFiniteSet(DOMAIN completed')
      /\ Cardinality(DOMAIN completed') = Cardinality(DOMAIN completed) + 1
      /\ Cardinality(DOMAIN completed) \in Nat
      /\ DOMAIN completed' \subseteq Keys
      /\ \A k \in DOMAIN completed' : completed'[k] \in [command : Commands, receipt : Nat]
  BY <1>1, CompleteInv DEF h
<1>4. GatewayTypeOK'
  BY <1>1, <1>3, PopFacts DEF GatewayInv, GatewayTypeOK
<1>5. RecordsAccounted'
  BY <1>1, <1>2, <1>3, GatewayAssumption DEF GatewayInv, RecordsAccounted
<1>6. KeysAcceptedOnce'
  BY <1>1 DEF GatewayInv, KeysAcceptedOnce
<1>7. ReceiptsInLog'
  BY <1>1, <1>3 DEF GatewayInv, ReceiptsInLog, NoReceipt
<1>8. AcceptedAnswered'
  BY <1>1, <1>3, AnswersKept
<1>9. QED
  BY <1>3, <1>4, <1>5, <1>6, <1>7, <1>8 DEF GatewayInv

\* A refused command only leaves the queue.
LEMMA RefusedInv ==
    ASSUME GatewayInv, ProcessRefused
    PROVE  GatewayInv'
<1>1. /\ queue # <<>> /\ queue' = Tail(queue)
      /\ completed' = completed /\ log' = log /\ points' = points /\ retained' = retained
  BY DEF ProcessRefused
<1>2. GatewayTypeOK'
  BY <1>1, PopFacts DEF GatewayInv, GatewayTypeOK
<1>3. KeysInOnePlace' /\ OnePlacePerGroup'
  BY <1>1, PopQueueInv DEF KeysInOnePlace
<1>4. ReservationsFit'
  <2>1. Cardinality(DOMAIN completed) \in Nat
    BY FS_CardinalityType DEF GatewayInv, GatewayTypeOK
  <2>2. QED
    BY <1>1, <2>1, PopFacts, GatewayAssumption DEF GatewayInv, ReservationsFit
<1>5. RecordsAccounted' /\ KeysAcceptedOnce' /\ ReceiptsInLog' /\ AcceptedAnswered'
  BY <1>1 DEF GatewayInv, RecordsAccounted, KeysAcceptedOnce, ReceiptsInLog, AcceptedAnswered
<1>6. QED
  BY <1>2, <1>3, <1>4, <1>5 DEF GatewayInv

\* What a history must be to be installed: of commands, without a repeated key.
Sound(h) ==
    /\ h \in Seq(Commands)
    /\ \A i, j \in DOMAIN h : h[i].key = h[j].key => i = j

\* The log and every captured point are such histories.
LEMMA HistoriesSound ==
    ASSUME GatewayInv
    PROVE  Sound(log) /\ \A p \in points : Sound(p)
BY DEF GatewayInv, GatewayTypeOK, KeysAcceptedOnce, Sound

\* So is every prefix of the log: what recovery_point_at_revision captures.
LEMMA PointSound ==
    ASSUME GatewayInv, NEW revision \in 0 .. Len(log)
    PROVE  Sound(Point(revision))
<1>1. /\ log \in Seq(Commands)
      /\ Len(log) \in Nat
      /\ DOMAIN log = 1 .. Len(log)
      /\ revision \in Nat
  BY DEF GatewayInv, GatewayTypeOK
<1>2. /\ Point(revision) \in Seq(Commands)
      /\ DOMAIN Point(revision) = 1 .. revision
      /\ \A i \in 1 .. revision : Point(revision)[i] = log[i] /\ i \in DOMAIN log
  BY <1>1, SubSeqProperties, ElementOfSeq, LenProperties DEF Point
<1>3. QED
  BY <1>2, HistoriesSound DEF Sound

\* Capturing a point changes nothing else.
LEMMA CaptureInv ==
    ASSUME GatewayInv, NEW revision \in 0 .. Len(log), CapturePoint(revision)
    PROVE  GatewayInv'
<1>1. /\ points' = points \union {Point(revision)}
      /\ queue' = queue /\ completed' = completed /\ log' = log /\ retained' = retained
  BY DEF CapturePoint
<1>2. \A p \in points' : Sound(p)
  BY <1>1, HistoriesSound, PointSound
<1>3. GatewayTypeOK'
  BY <1>1, <1>2 DEF GatewayInv, GatewayTypeOK, Sound
<1>4. KeysAcceptedOnce'
  BY <1>1, <1>2, HistoriesSound DEF KeysAcceptedOnce, Sound
<1>5. QED
  BY <1>1, <1>3, <1>4 DEF GatewayInv, KeysInOnePlace, OnePlacePerGroup, ReservationsFit,
                          RecordsAccounted, ReceiptsInLog, AcceptedAnswered

\* A fresh gateway over any sound history satisfies the invariant again, because
\* validate_config left room for as many records as it may complete.
LEMMA FreshInv ==
    ASSUME GatewayInv, NEW point, Sound(point), Fresh(point)
    PROVE  GatewayInv'
<1>1. /\ queue' = <<>>
      /\ DOMAIN completed' = {}
      /\ log' = point /\ points' = points
      /\ retained' = Len(point)
      /\ IdempotencyCapacity <= MaxIdempotencyRecords - Len(point)
  BY DEF Fresh, validate_config
<1>2. /\ point \in Seq(Commands)
      /\ Len(point) \in Nat
      /\ DOMAIN point = 1 .. Len(point)
  BY DEF Sound
<1>3. IsFiniteSet(DOMAIN completed') /\ Cardinality(DOMAIN completed') = 0
  BY <1>1, FS_EmptySet
<1>4. GatewayTypeOK'
  BY <1>1, <1>2, <1>3, EmptySeq DEF GatewayInv, GatewayTypeOK
<1>5. KeysInOnePlace' /\ OnePlacePerGroup' /\ ReceiptsInLog'
  BY <1>1 DEF KeysInOnePlace, OnePlacePerGroup, ReceiptsInLog
<1>6. AcceptedAnswered'
  BY <1>1, <1>2 DEF AcceptedAnswered
<1>7. ReservationsFit' /\ RecordsAccounted'
  BY <1>1, <1>2, <1>3, EmptySeq, GatewayAssumption DEF ReservationsFit, RecordsAccounted
<1>8. KeysAcceptedOnce'
  BY <1>1, HistoriesSound DEF KeysAcceptedOnce, Sound
<1>9. QED
  BY <1>4, <1>5, <1>6, <1>7, <1>8 DEF GatewayInv

-----------------------------------------------------------------------------
\* Every operation of the gateway preserves the invariant.
LEMMA StepInv == GatewayInv /\ [GatewayNext]_gatewayVars => GatewayInv'
<1> SUFFICES ASSUME GatewayInv, [GatewayNext]_gatewayVars PROVE GatewayInv'
  OBVIOUS
<1>1. ASSUME NEW c \in Commands, Submit(c) PROVE GatewayInv'
  BY <1>1, SubmitInv
<1>2. CASE ProcessApplied
  BY <1>2, AppliedInv
<1>3. CASE ProcessReplayed
  BY <1>3, ReplayedInv
<1>4. CASE ProcessUnresolved
  BY <1>4, UnresolvedInv
<1>5. CASE ProcessRefused
  BY <1>5, RefusedInv
<1>6. ASSUME NEW revision \in 0 .. Len(log), CapturePoint(revision)
      PROVE  GatewayInv'
  BY <1>6, CaptureInv
<1>7. ASSUME NEW revision \in 0 .. Len(log), Revert(revision)
      PROVE  GatewayInv'
  BY <1>7, PointSound, FreshInv DEF Revert
<1>8. ASSUME NEW point \in points, Restore(point)
      PROVE  GatewayInv'
  BY <1>8, HistoriesSound, FreshInv DEF Restore
<1>9. CASE UNCHANGED gatewayVars
  BY <1>9 DEF gatewayVars, GatewayInv, GatewayTypeOK, KeysInOnePlace, OnePlacePerGroup,
              ReservationsFit, RecordsAccounted, KeysAcceptedOnce, ReceiptsInLog,
              AcceptedAnswered
<1>10. QED
  BY <1>1, <1>2, <1>3, <1>4, <1>5, <1>6, <1>7, <1>8, <1>9 DEF GatewayNext, process_next

\* GatewayInv holds in every reachable state, for every configuration that
\* validate_config accepts.
THEOREM GatewayInvariant == GatewaySpec => []GatewayInv
  BY InitInv, StepInv, PTL DEF GatewaySpec

\* The collections of the gateway keep their types.
THEOREM GatewayTypeCorrect == GatewaySpec => []GatewayTypeOK
<1>1. GatewayInv => GatewayTypeOK
  BY DEF GatewayInv
<1>2. QED
  BY <1>1, GatewayInvariant, PTL

\* Neither the current history nor that of a recovery point holds a key twice.
THEOREM KeysAcceptedOnceHolds == GatewaySpec => []KeysAcceptedOnce
<1>1. GatewayInv => KeysAcceptedOnce
  BY DEF GatewayInv
<1>2. QED
  BY <1>1, GatewayInvariant, PTL

\* A queued command always finds room for its record in the world.  The count of
\* records (RecordsAccounted) and the reservation made at admission
\* (ReservationsFit) give it.
THEOREM RoomForRecordHolds == GatewaySpec => []RoomForRecord
<1>1. GatewayInv => RoomForRecord
  <2> SUFFICES ASSUME GatewayInv, queue # <<>> PROVE Len(log) < MaxIdempotencyRecords
    BY DEF RoomForRecord
  <2>1. Cardinality(DOMAIN completed) \in Nat
    BY FS_CardinalityType DEF GatewayInv, GatewayTypeOK
  <2>2. Len(queue) \in Nat \ {0} /\ Len(log) \in Nat /\ retained \in Nat
    BY EmptySeq DEF GatewayInv, GatewayTypeOK
  <2>3. QED
    BY <2>1, <2>2, GatewayAssumption DEF GatewayInv, ReservationsFit, RecordsAccounted
<1>2. QED
  BY <1>1, GatewayInvariant, PTL

\* A receipt names the revision at which its key was accepted.
THEOREM ReceiptsInLogHolds == GatewaySpec => []ReceiptsInLog
<1>1. GatewayInv => ReceiptsInLog
  BY DEF GatewayInv
<1>2. QED
  BY <1>1, GatewayInvariant, PTL

\* What this gateway accepted it can answer again: every later log entry has its
\* receipt among the completed results.
THEOREM AcceptedAnsweredHolds == GatewaySpec => []AcceptedAnswered
<1>1. GatewayInv => AcceptedAnswered
  BY DEF GatewayInv
<1>2. QED
  BY <1>1, GatewayInvariant, PTL

\* Results already given are never changed by a later step of the same gateway.
THEOREM CompletedStableHolds == GatewaySpec => CompletedStable
<1> DEFINE Stable ==
             \/ completed' = [ k \in {} |-> NoReceipt ] /\ queue' = <<>>
             \/ \A k \in DOMAIN completed :
                  k \in DOMAIN completed' /\ completed'[k] = completed[k]
<1>1. GatewayInv /\ [GatewayNext]_gatewayVars => [Stable]_gatewayVars
  <2> SUFFICES ASSUME GatewayInv, GatewayNext PROVE Stable
    OBVIOUS
  <2>1. CASE completed' = completed
    BY <2>1
  <2>2. ASSUME queue # <<>>, queue' = Tail(queue), NEW r \in Nat, Complete(Head(queue), r)
        PROVE  Stable
    BY <2>2, CompleteInv
  <2>3. CASE ProcessApplied
    <3>1. Len(log) + 1 \in Nat
      BY DEF GatewayInv, GatewayTypeOK
    <3>2. QED
      BY <2>2, <2>3, <3>1 DEF ProcessApplied
  <2>4. CASE ProcessReplayed
    <3>1. Head(queue).key \in RecordedKeys
      BY <2>4 DEF ProcessReplayed, engine_replays
    <3>2. ReceiptOf(Head(queue).key) \in DOMAIN log
      BY <3>1 DEF RecordedKeys, ReceiptOf
    <3>3. ReceiptOf(Head(queue).key) \in Nat
      BY <3>2 DEF GatewayInv, GatewayTypeOK
    <3>4. QED
      BY <2>2, <2>4, <3>3 DEF ProcessReplayed
  <2>5. CASE ProcessUnresolved
    BY <2>2, <2>5 DEF ProcessUnresolved, NoReceipt
  <2>6. CASE ProcessRefused
    BY <2>1, <2>6 DEF ProcessRefused
  <2>7. QED
    BY <2>1, <2>3, <2>4, <2>5, <2>6
       DEF GatewayNext, process_next, Submit, CapturePoint, Restore, Revert, Fresh
<1>2. QED
  BY <1>1, GatewayInvariant, PTL DEF GatewaySpec, CompletedStable

-----------------------------------------------------------------------------
\* Popping the head moves every other slot up by one (CommandQueue::pop_front).
LEMMA PopOrder ==
    ASSUME GatewayInv, queue # <<>>, queue' = Tail(queue),
           NEW i \in DOMAIN queue', NEW j \in DOMAIN queue', i < j
    PROVE  Ahead(queue, slot(queue'[i]), slot(queue'[j]))
<1>1. /\ queue'[i] = queue[i + 1] /\ i + 1 \in DOMAIN queue
      /\ queue'[j] = queue[j + 1] /\ j + 1 \in DOMAIN queue
      /\ i + 1 < j + 1
  BY PopFacts
<1>2. QED
  BY <1>1 DEF Ahead

\* A command with a free key and a free group waits for a slot nobody waits for.
LEMMA NewSlot ==
    ASSUME NEW c, QueuedAt(c) = {}, SupersededAt(c) = {}
    PROVE  ~Waiting(queue, slot(c))
<1> SUFFICES ASSUME NEW m \in DOMAIN queue, slot(queue[m]) = slot(c) PROVE FALSE
  BY DEF Waiting
<1>1. queue[m].key # c.key
  BY DEF QueuedAt
<1>2. ~(/\ c.delivery = "LatestWins"
        /\ queue[m].delivery = "LatestWins"
        /\ queue[m].group = c.group)
  BY DEF SupersededAt
<1>3. QED
  BY <1>1, <1>2 DEF slot

\* Submission adds a slot behind all others or keeps the slots as they are.
LEMMA SubmitOrder ==
    ASSUME GatewayInv, NEW c \in Commands, Submit(c),
           NEW i \in DOMAIN queue', NEW j \in DOMAIN queue', i < j,
           Waiting(queue, slot(queue'[j]))
    PROVE  Ahead(queue, slot(queue'[i]), slot(queue'[j]))
<1>1. /\ queue \in Seq(Commands)
      /\ Len(queue) \in Nat
      /\ DOMAIN queue = 1 .. Len(queue)
  BY DEF GatewayInv, GatewayTypeOK
<1>2. CASE admission(c) = "Queued"
  <2>1. QueuedAt(c) = {} /\ SupersededAt(c) = {} /\ queue' = Append(queue, c)
    BY <1>2 DEF Submit, admission
  <2>2. /\ DOMAIN queue' = 1 .. Len(queue) + 1
        /\ \A m \in DOMAIN queue : queue'[m] = queue[m]
        /\ queue'[Len(queue) + 1] = c
    BY <1>1, <2>1, AppendProperties, LenProperties
  <2>3. j # Len(queue) + 1
    BY <2>1, <2>2, NewSlot
  <2>4. i \in DOMAIN queue /\ j \in DOMAIN queue
    BY <1>1, <2>2, <2>3
  <2>5. QED
    BY <2>2, <2>4 DEF Ahead
<1>3. CASE admission(c) = "Superseded"
  <2> DEFINE p == SupersededPosition(c)
  <2>1. SupersededAt(c) # {} /\ queue' = [queue EXCEPT ![p] = c]
    BY <1>3 DEF Submit, Supersede, admission
  <2>2. p \in SupersededAt(c)
    BY <2>1, SupersededPositionFound DEF GatewayInv
  <2> HIDE DEF p
  <2>3. /\ p \in DOMAIN queue
        /\ slot(queue[p]) = slot(c)
    BY <2>2 DEF SupersededAt, slot
  <2>4. /\ DOMAIN queue' = DOMAIN queue
        /\ queue'[p] = c
        /\ \A m \in DOMAIN queue : m # p => queue'[m] = queue[m]
    BY <1>1, <2>1, <2>3
  <2>5. \A m \in DOMAIN queue : slot(queue'[m]) = slot(queue[m])
    BY <2>3, <2>4
  <2>6. QED
    BY <2>4, <2>5 DEF Ahead
<1>4. CASE admission(c) # "Queued" /\ admission(c) # "Superseded"
  <2>1. queue' = queue
    BY <1>4 DEF Submit
  <2>2. QED
    BY <2>1 DEF Ahead
<1>5. QED
  BY <1>2, <1>3, <1>4

\* Commands are processed in the order in which their slots entered the queue:
\* no submission, processing step, capture or re-creation lets one overtake another.
THEOREM NoOvertakingHolds == GatewaySpec => NoOvertaking
<1> DEFINE Ordered ==
             \A i, j \in DOMAIN queue' :
               i < j /\ Waiting(queue, slot(queue'[j]))
               => Ahead(queue, slot(queue'[i]), slot(queue'[j]))
<1>1. GatewayInv /\ [GatewayNext]_gatewayVars => [Ordered]_gatewayVars
  <2> SUFFICES ASSUME GatewayInv, GatewayNext PROVE Ordered
    OBVIOUS
  <2>1. ASSUME NEW c \in Commands, Submit(c) PROVE Ordered
    BY <2>1, SubmitOrder
  <2>2. CASE queue # <<>> /\ queue' = Tail(queue)
    BY <2>2, PopOrder
  <2>3. CASE process_next
    BY <2>2, <2>3 DEF process_next, ProcessApplied, ProcessReplayed, ProcessUnresolved,
                      ProcessRefused
  <2>4. CASE queue' = queue
    BY <2>4 DEF Ahead
  <2>5. CASE queue' = <<>>
    BY <2>5
  <2>6. QED
    BY <2>1, <2>3, <2>4, <2>5
       DEF GatewayNext, CapturePoint, Restore, Revert, Fresh
<1>2. QED
  BY <1>1, GatewayInvariant, PTL DEF GatewaySpec, NoOvertaking

=============================================================================
