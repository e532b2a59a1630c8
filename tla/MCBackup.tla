------------------------------ MODULE MCBackup ------------------------------
(* Small instances of Backup: what happens together in one run.              *)
EXTENDS Backup, TLC

CONSTANTS a1, a2

None == [edits |-> 0, rots |-> 0, mounts |-> 0, faults |-> 0, crashes |-> 0, drops |-> 0,
         gens |-> 0, dumps |-> 0, returns |-> 0, pullers |-> 1]

Runs == {
    [None EXCEPT !.edits = 1, !.returns = 1, !.gens = 3],
    [None EXCEPT !.edits = 2, !.gens = 2],
    [None EXCEPT !.edits = 1, !.drops = 1, !.gens = 2],
    [None EXCEPT !.edits = 1, !.crashes = 1, !.gens = 3],
    [None EXCEPT !.edits = 1, !.faults = 1, !.gens = 2],
    [None EXCEPT !.mounts = 2, !.gens = 3],
    [None EXCEPT !.dumps = 2, !.gens = 1],
    [None EXCEPT !.dumps = 1, !.gens = 2],
    [None EXCEPT !.mounts = 2, !.edits = 1, !.gens = 3, !.pullers = 0],
    [None EXCEPT !.rots = 1, !.faults = 1, !.gens = 4, !.pullers = 0],
    [None EXCEPT !.edits = 1, !.rots = 1, !.gens = 4, !.pullers = 0],
    [None EXCEPT !.dumps = 2, !.crashes = 1, !.gens = 3, !.pullers = 0],
    [None EXCEPT !.dumps = 3, !.crashes = 2, !.faults = 1, !.pullers = 0] }

TurnOf  == [p \in Path |-> IF p = a1 THEN 0 ELSE 1]
LargeOf == {<<d, "data">> : d \in Dump}
=============================================================================
