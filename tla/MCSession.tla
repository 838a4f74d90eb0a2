----------------------------- MODULE MCSession -----------------------------
(* Instances of Session for TLC. *)
EXTENDS Session, TLC

\* The tasks, calls and slots of one role are interchangeable.
Interchangeable ==
    Permutations(Closers) \cup Permutations(CronTasks) \cup Permutations(MsgTasks)
        \cup Permutations(Writers) \cup Permutations(RawWriters)
        \cup Permutations(Resetters)
=============================================================================
