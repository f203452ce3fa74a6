----------------------------- MODULE MCGateway -----------------------------
(* Five keys.  k1: a durable patch, the same patch with other content, and    *)
(* the same key under another transaction.  k2: two latest-wins commands of   *)
(* one group, one of them an imagination.  k3: a latest-wins command of that  *)
(* group, a best-effort and a durable one.  k4: a durable and a best-effort.  *)
(* k5: a durable patch for the last revision that has a record.               *)
EXTENDS Gateway

CONSTANTS k1, k2, k3, k4, k5, t1, t2, g, a, b

Cmd(key, kind, transaction, delivery, base, content) ==
    [ key |-> key, kind |-> kind, transaction |-> transaction, delivery |-> delivery,
      group |-> g, base |-> base, content |-> content ]

MCCommands ==
    { Cmd(k1, "Patch", t1, "MustApply", 0, a), Cmd(k1, "Patch", t1, "MustApply", 0, b),
      Cmd(k1, "Patch", t2, "MustApply", 1, a),
      Cmd(k2, "Patch", t1, "LatestWins", 1, a), Cmd(k2, "Imagination", t1, "LatestWins", 0, a),
      Cmd(k3, "Imagination", t1, "LatestWins", 1, a), Cmd(k3, "Patch", t1, "BestEffort", 0, b),
      Cmd(k3, "Patch", t1, "MustApply", 2, a), Cmd(k4, "Patch", t1, "MustApply", 1, a),
      Cmd(k4, "Imagination", t2, "BestEffort", 3, a), Cmd(k5, "Patch", t1, "MustApply", 4, a) }

=============================================================================
