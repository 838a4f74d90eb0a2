---------------------------- MODULE CloseRegistry ----------------------------
(***************************************************************************)
(* What the documentation of AddCloseCallback and RemoveCloseCallback      *)
(* promises: an ordered registry, one callback per key, that is sealed     *)
(* when the session closes and whose callbacks are then called once each,  *)
(* in the order they were added.                                           *)
(***************************************************************************)
EXTENDS Naturals, Sequences

CONSTANTS Keys, Calls

VARIABLES
    registry,   \* the registered <<key, call>> pairs, in order
    phase,      \* "open", "sealed" or "ended"
    invoked     \* the calls made, in order

vars == <<registry, phase, invoked>>

Init == registry = <<>> /\ phase = "open" /\ invoked = <<>>

Registered(k) == \E i \in DOMAIN registry : registry[i][1] = k

\* A known key keeps its place and gets the new call.
Add(k, f) ==
    /\ phase = "open"
    /\ registry' = IF Registered(k)
                   THEN [i \in DOMAIN registry |->
                           IF registry[i][1] = k THEN <<k, f>> ELSE registry[i]]
                   ELSE Append(registry, <<k, f>>)
    /\ UNCHANGED <<phase, invoked>>

Remove(k) ==
    /\ phase = "open"
    /\ registry' = SelectSeq(registry, LAMBDA e : e[1] # k)
    /\ UNCHANGED <<phase, invoked>>

Seal ==
    /\ phase = "open"
    /\ phase' = "sealed"
    /\ UNCHANGED <<registry, invoked>>

\* The next callback in order; one that panics ends the sequence.
Call ==
    /\ phase = "sealed" /\ Len(invoked) < Len(registry)
    /\ invoked' = Append(invoked, registry[Len(invoked) + 1][2])
    /\ phase' \in {"sealed", "ended"}
    /\ UNCHANGED registry

End ==
    /\ phase = "sealed" /\ Len(invoked) = Len(registry)
    /\ phase' = "ended"
    /\ UNCHANGED <<registry, invoked>>

\* A reset session starts with an empty registry.
Reset ==
    /\ phase = "ended"
    /\ registry' = <<>> /\ phase' = "open" /\ invoked' = <<>>

Next ==
    \/ \E k \in Keys, f \in Calls : Add(k, f)
    \/ \E k \in Keys : Remove(k)
    \/ Seal \/ Call \/ End \/ Reset

Spec == Init /\ [][Next]_vars
=============================================================================
