--------------------------- MODULE MCNodeLifecycle ---------------------------
(* Small instances of NodeLifecycle for TLC. *)
EXTENDS NodeLifecycle

All(role) == <<role, -1>>
Ask(scope, mem, disk, skipDrain) ==
    [scope |-> scope, mem |-> mem, disk |-> disk, skipDrain |-> skipDrain]

\* A memory resize of the control plane, and one master of it alone, drained.
MasterRequests == {Ask(All("master"), 2, 0, FALSE), Ask(<<"master", 1>>, 2, 0, FALSE)}

\* The whole control plane alone, where reports lag.
MasterRoll == {Ask(All("master"), 2, 0, FALSE)}

\* Memory and disk of every worker in one request.
Bundled == {Ask(All("worker"), 2, 2, FALSE)}

\* Requests for the run that mixes the operations: all workers, or one of them.
WorkerMemory == {Ask(All("worker"), 2, 0, FALSE), Ask(<<"worker", 0>>, 2, 0, FALSE)}

=============================================================================
