----------------------------- MODULE EchoPackage -----------------------------
(***************************************************************************)
(* The wire format of the tcp echo example (examples/echo/tcp-echo): a     *)
(* fixed header, one length byte and the echo string, and the codec that   *)
(* client and server install with SetPkgHandler.                           *)
(*                                                                         *)
(* A stream is a sequence of units.  The first unit of a header carries    *)
(* its fields, the others are padding; an echo string is its length.       *)
(***************************************************************************)
EXTENDS Naturals, Sequences, SequencesExt

CONSTANTS
    HeaderLen,        \* echoPkgHeaderLen, in units
    MaxEchoStringLen, \* maxEchoStringLen, the largest value of the length byte
    LenLimit          \* one more than the largest value of H.Len

ASSUME PackageParameters ==
    /\ HeaderLen \in Nat \ {0}
    /\ MaxEchoStringLen \in Nat \ {0}
    /\ LenLimit \in Nat /\ MaxEchoStringLen + 2 < LenLimit

\* A package with an echo string of n units, as heartbeat() and echo() build it.
NewPackage(command, sequence, n) ==
    [H |-> [Command |-> command, Sequence |-> sequence, Len |-> (n + 1) % LenLimit],
     B |-> n]

NoPackage == [H |-> [Command |-> "none", Sequence |-> 0, Len |-> 0], B |-> 0]

Header(h) == [kind |-> "header", value |-> h]
LengthByte(n) == [kind |-> "length", value |-> n % (MaxEchoStringLen + 1)]
Padding == [kind |-> "padding", value |-> 0]
Char == [kind |-> "char", value |-> 0]

\* What a unit reads as when it is taken for the length byte.
AsByte(u) == IF u.kind = "length" THEN u.value ELSE MaxEchoStringLen

Marshal(p) ==
    <<Header(p.H)>> \o [i \in 1 .. HeaderLen - 1 |-> Padding]
      \o <<LengthByte(p.B)>> \o [i \in 1 .. p.B |-> Char]

Result(p, len, err) == [pkg |-> p, len |-> len, err |-> err]

\* Mutant: the body is not waited for.
UnmarshalEarly(buf) ==
    LET left == Len(buf) - HeaderLen
        h == buf[1].value
        n == AsByte(buf[HeaderLen + 1])
    IN IF Len(buf) <= HeaderLen THEN Result(NoPackage, 0, "not enough")
       ELSE IF buf[1].kind # "header" THEN Result(NoPackage, 0, "magic")
       ELSE IF MaxEchoStringLen < (h.Len + LenLimit - 1) % LenLimit
       THEN Result(NoPackage, 0, "too large")
       ELSE Result([H |-> h, B |-> IF n < left THEN n ELSE left - 1],
                   HeaderLen + IF h.Len < left THEN h.Len ELSE left, "none")

\* Unmarshal of the bytes in buf: the package and how many of them it takes.
\* H.Len - 1 is computed in 16 bits, and buf.Next returns what there is.
Unmarshal(buf) ==
    LET left == Len(buf) - HeaderLen
        h == buf[1].value
        n == AsByte(buf[HeaderLen + 1])
    IN IF Len(buf) < HeaderLen THEN Result(NoPackage, 0, "not enough")
       ELSE IF buf[1].kind # "header" THEN Result(NoPackage, 0, "magic")
       ELSE IF left < h.Len THEN Result(NoPackage, 0, "not enough")
       ELSE IF MaxEchoStringLen < (h.Len + LenLimit - 1) % LenLimit
       THEN Result(NoPackage, 0, "too large")
       ELSE Result([H |-> h, B |-> IF n < left THEN n ELSE left - 1],
                   HeaderLen + h.Len, "none")

\* EchoPackageHandler.Read: a package that has not arrived yet is no error.
Read(buf) ==
    LET r == Unmarshal(buf)
    IN IF r.err = "not enough" THEN Result(NoPackage, 0, "none") ELSE r

\* EchoPackageHandler.Write
Write(p) == Marshal(p)

\* The server program has its own copy of the codec.
ServerMarshal(p) == Marshal(p)
ServerUnmarshal(buf) == Unmarshal(buf)
ServerRead(buf) ==
    LET r == ServerUnmarshal(buf)
    IN IF r.err = "not enough" THEN Result(NoPackage, 0, "none") ELSE r
ServerWrite(p) == ServerMarshal(p)

=============================================================================
