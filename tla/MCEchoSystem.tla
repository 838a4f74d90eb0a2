---------------------------- MODULE MCEchoSystem ----------------------------
(* A server with two ports that admits one session.  Either program a uses   *)
(* one connection, or program b makes three of which two share a port, and    *)
(* sends nothing.                                                            *)
EXTENDS EchoSystem, TLC
CONSTANTS c1, c2, c3, c4, a, b, p1, p2
MCClientOf == [c \in Conns |-> IF c = c1 THEN a ELSE b]

\* Unmarshal inverts Marshal: a legal package is recognised at the head of any
\* stream, exactly when all of it has arrived, and takes its own length of it.
ASSUME MarshalRoundTrip ==
    \A n \in 0 .. MaxEchoStringLen, k \in 0 .. HeaderLen + MaxEchoStringLen + 3 :
      LET p == NewPackage("echo", 1, n)
          whole == Marshal(p)
          two == whole \o whole
          r == Read(SubSeq(two, 1, IF k < Len(two) THEN k ELSE Len(two)))
      IN r = IF k < Len(whole) THEN Result(NoPackage, 0, "none")
             ELSE Result(p, Len(whole), "none")

MCMaxRequests == a :> 2 @@ b :> 0
MCRoutes == {c1 :> p1, c2 :> p1 @@ c3 :> p1 @@ c4 :> p2}
=============================================================================
