-------------------------- MODULE ServerInvariant --------------------------
(***************************************************************************)
(* The inductive invariant behind the safety properties of Server.         *)
(***************************************************************************)
EXTENDS Server

\* s.lock is held exactly by who is between its Lock and its Unlock.
LockExact ==
    /\ lock = "run" <=> pc["run"] \in {"publishing", "starting"}
    /\ \A c \in Closers : lock = c <=> pc[c] = "shutdown"

\* One Close runs the body of stop(), after it has closed done.
BodyExact ==
    /\ done <=> once # "new"
    /\ owner = "none" <=> once = "new"
    /\ \A c \in Closers : pc[c] \in {"lock", "shutdown", "close"} <=> once = "running" /\ owner = c
    /\ once = "ran" => pc[owner] \in {"wait", "returned"}

\* The counter of s.wg is the event loop, which RunEventLoop starts last.
LoopCounted ==
    /\ wg <=> pc["loop"] \notin {"idle", "finished"}
    /\ pc["loop"] # "idle" => pc["run"] = "returned"

\* The body of stop() has had s.lock.
LockPassed == once = "ran" \/ (owner # "none" /\ pc[owner] = "close")

\* A RunEventLoop that saw the server open under s.lock has left its critical
\* section before the body of stop() gets the lock.
NoLateStart ==
    /\ LockPassed => pc["run"] \notin {"publishing", "starting"}
    /\ owner # "none" /\ pc[owner] = "returned" => ~wg

\* Where the listener is: with RunEventLoop until it is published, then with
\* stop(), which reads it under the lock and closes it.
ListenerOwned ==
    /\ pc["run"] \in {"idle", "open", "panicked"} => listener = "none"
    /\ pc["run"] \in {"idle", "open", "panicked", "publish", "publishing"} => ~published
    /\ pc["run"] \in {"start", "starting"} => published
    /\ pc["run"] = "returned" /\ listener = "open" => published
    /\ snapshot => published
    /\ http # "nil" => pc["loop"] # "idle"
    /\ LockPassed /\ published => snapshot \/ once = "ran"
    /\ once = "ran" /\ published => listener = "closed"

IndInv ==
    TypeOK /\ LockExact /\ BodyExact /\ LoopCounted /\ NoLateStart /\ ListenerOwned
=============================================================================
