--------------------------- MODULE CloseCallbacks ---------------------------
(***************************************************************************)
(* The close callbacks of a session (transport/callback.go and             *)
(* session_callback.go): the linked list, the calls that change it under   *)
(* closeCallbackMutex, and stop(), which closes done, copies the list's    *)
(* head and invokes the callbacks on a goroutine.  A (handler, key) pair   *)
(* is one key here.                                                        *)
(***************************************************************************)
EXTENDS Naturals, Sequences, FiniteSets

CONSTANTS
    Users,       \* goroutines adding and removing callbacks
    Keys,        \* (handler, key) pairs
    Comparable,  \* those that Go can compare
    Calls,       \* callback functions
    Nodes        \* list nodes

ASSUME KeysTyped == Comparable \subseteq Keys
ASSUME NilDistinct == "nil" \notin Nodes /\ "none" \notin Users

VARIABLES
    first, last, cbNum,  \* the callbacks structure
    node,                \* the list nodes
    mutex,               \* who holds closeCallbackMutex for writing
    request,             \* what each user's running call is to do
    done,                \* the session is closed
    closer,              \* stop() and its goroutine: "idle", "closed", "invoke", "ended"
    cursor,              \* Invoke's node, in the copy of the list's head
    invoked              \* the callbacks called, in order

listVars == <<first, last, cbNum, node>>
stopVars == <<done, closer, cursor, invoked>>
vars == <<listVars, mutex, request, stopVars>>

NoRequest == [op |-> "none"]
Requests == [op : {"add"}, key : Keys, call : Calls] \cup [op : {"remove"}, key : Keys]

Init ==
    /\ first = "nil" /\ last = "nil" /\ cbNum = 0
    /\ node \in [Nodes -> {[key |-> k, call |-> f, next |-> "nil"] : k \in Keys, f \in Calls}]
    /\ \A n, m \in Nodes : node[n] = node[m]
    /\ mutex = "none"
    /\ request = [u \in Users |-> NoRequest]
    /\ done = FALSE /\ closer = "idle" /\ cursor = "nil" /\ invoked = <<>>

\* The nodes of the list, in order.
Chain ==
    LET from[n \in Nodes \cup {"nil"}] ==
          IF n = "nil" THEN <<>> ELSE <<n>> \o from[node[n].next]
    IN from[first]

Linked == {Chain[i] : i \in DOMAIN Chain}
Holds(n, k) == n \in Linked /\ node[n].key = k

-----------------------------------------------------------------------------
\* callbacks.Add with a callback that is not nil.
Add(k, f) ==
    \/ k \notin Comparable /\ UNCHANGED listVars
    \/ \E n \in Nodes :
          /\ k \in Comparable /\ Holds(n, k)
          /\ node' = [node EXCEPT ![n].call = f]
          /\ UNCHANGED <<first, last, cbNum>>
    \/ \E n \in Nodes \ Linked :
          LET new == [key |-> k, call |-> f, next |-> "nil"] IN
          /\ k \in Comparable /\ ~\E m \in Nodes : Holds(m, k)
          /\ first' = IF first = "nil" THEN n ELSE first
          /\ node' = IF first = "nil" THEN [node EXCEPT ![n] = new]
                     ELSE [node EXCEPT ![n] = new, ![last].next = n]
          /\ last' = n
          /\ cbNum' = cbNum + 1

\* The node before n, nil for the first one.
Prev(n) == IF n = first THEN "nil" ELSE CHOOSE m \in Linked : node[m].next = n

\* Mutant: the last pointer is left on a removed node.
RemoveKeepsLast(k) ==
    \/ (~\E n \in Nodes : Holds(n, k)) /\ UNCHANGED listVars
    \/ \E n \in Nodes :
          /\ Holds(n, k)
          /\ first' = IF first = n THEN node[n].next ELSE first
          /\ node' = IF first = n THEN node ELSE [node EXCEPT ![Prev(n)].next = node[n].next]
          /\ cbNum' = cbNum - 1
          /\ UNCHANGED last

\* callbacks.Remove.
Remove(k) ==
    \/ k \notin Comparable /\ UNCHANGED listVars
    \/ k \in Comparable /\ (~\E n \in Nodes : Holds(n, k)) /\ UNCHANGED listVars
    \/ \E n \in Nodes :
          /\ k \in Comparable /\ Holds(n, k)
          /\ first' = IF first = n THEN node[n].next ELSE first
          /\ node' = IF first = n THEN node ELSE [node EXCEPT ![Prev(n)].next = node[n].next]
          /\ last' = IF last = n THEN Prev(n) ELSE last
          /\ cbNum' = cbNum - 1

\* AddCloseCallback, RemoveCloseCallback: IsClosed is tested under the mutex; on
\* a closed session, and for a nil callback, nothing happens.
CallbackTest(u) ==
    /\ request[u] = NoRequest /\ mutex = "none" /\ ~done
    /\ mutex' = u
    /\ \E r \in Requests : request' = [request EXCEPT ![u] = r]
    /\ UNCHANGED <<listVars, stopVars>>

\* The list is changed before the mutex is released.
CallbackApply(u) ==
    /\ mutex = u
    /\ LET r == request[u] IN
          IF r.op = "add" THEN Add(r.key, r.call) ELSE Remove(r.key)
    /\ mutex' = "none"
    /\ request' = [request EXCEPT ![u] = NoRequest]
    /\ UNCHANGED stopVars

-----------------------------------------------------------------------------
\* stop() closes done without the mutex ...
StopClose ==
    /\ closer = "idle"
    /\ done' = TRUE /\ closer' = "closed"
    /\ UNCHANGED <<listVars, mutex, request, cursor, invoked>>

\* Mutant: the head is copied without the mutex.
StopCopyUnlocked ==
    /\ closer = "closed"
    /\ closer' = "invoke" /\ cursor' = first
    /\ UNCHANGED <<listVars, mutex, request, done, invoked>>

\* ... and copies the list's head under it.
StopCopy ==
    /\ closer = "closed" /\ mutex = "none"
    /\ closer' = "invoke" /\ cursor' = first
    /\ UNCHANGED <<listVars, mutex, request, done, invoked>>

\* callbacks.Invoke: one callback after the other ...
InvokeNext ==
    /\ closer = "invoke" /\ cursor # "nil"
    /\ invoked' = Append(invoked, node[cursor].call)
    /\ cursor' = node[cursor].next
    /\ UNCHANGED <<listVars, mutex, request, done, closer>>

\* ... until one panics, which the goroutine recovers ...
InvokePanics ==
    /\ closer = "invoke" /\ cursor # "nil"
    /\ invoked' = Append(invoked, node[cursor].call)
    /\ closer' = "ended"
    /\ UNCHANGED <<listVars, mutex, request, done, cursor>>

\* ... or the list ends.
InvokeEnds ==
    /\ closer = "invoke" /\ cursor = "nil"
    /\ closer' = "ended"
    /\ UNCHANGED <<listVars, mutex, request, done, cursor, invoked>>

\* reset(), after the goroutine has ended, empties the list and reopens done.
ResetClears ==
    /\ closer = "ended" /\ mutex = "none"
    /\ first' = "nil" /\ last' = "nil" /\ cbNum' = 0
    /\ done' = FALSE /\ closer' = "idle" /\ cursor' = "nil" /\ invoked' = <<>>
    /\ UNCHANGED <<node, mutex, request>>

Next ==
    \/ \E u \in Users : CallbackTest(u) \/ CallbackApply(u)
    \/ StopClose \/ StopCopy \/ InvokeNext \/ InvokePanics \/ InvokeEnds \/ ResetClears

Spec == Init /\ [][Next]_vars

-----------------------------------------------------------------------------
\* Type correctness of the list and of stop().
TypeOK ==
    /\ first \in Nodes \cup {"nil"} /\ last \in Nodes \cup {"nil"}
    /\ cbNum \in 0 .. Cardinality(Nodes)
    /\ node \in [Nodes -> [key : Keys, call : Calls, next : Nodes \cup {"nil"}]]
    /\ mutex \in Users \cup {"none"}
    /\ request \in [Users -> Requests \cup {NoRequest}]
    /\ done \in BOOLEAN /\ closer \in {"idle", "closed", "invoke", "ended"}
    /\ cursor \in Nodes \cup {"nil"}
    /\ invoked \in Seq(Calls)

\* The list is what its three fields say, whatever was added, replaced and
\* removed: last is its last node, cbNum its length, and no key occurs twice.
ListSound ==
    /\ TypeOK
    /\ cbNum = Len(Chain)
    /\ last = IF Chain = <<>> THEN "nil" ELSE Chain[Len(Chain)]
    /\ \A n, m \in Linked : node[n].key = node[m].key => n = m

Registry == INSTANCE CloseRegistry WITH
    registry <- [i \in DOMAIN Chain |-> <<node[Chain[i]].key, node[Chain[i]].call>>],
    phase <- IF closer \in {"idle", "closed"} THEN "open"
             ELSE IF closer = "invoke" THEN "sealed" ELSE "ended",
    invoked <- invoked

\* The list under its mutex, with stop()'s copy of its head, implements the
\* registry: an accepted AddCloseCallback is never missed by a concurrent close,
\* and the callbacks of the sealed list are called once each, in order.
RefinesRegistry == Registry!Spec
=============================================================================
