-------------------------- MODULE MCStreamReceive --------------------------
(* Every stream of up to three packages of one to three bytes, of which    *)
(* the last may be one the Reader rejects.                                 *)
EXTENDS StreamReceive, SequencesExt

Good == [len : 1 .. 3, bad : {FALSE}]
Ends == {<<>>, <<[len |-> 2, bad |-> TRUE]>>}

\* The packages of s, each where the ones before it end.
Laid(s) ==
    [i \in DOMAIN s |->
        [at |-> FoldLeft(LAMBDA n, p : n + p.len, 0, SubSeq(s, 1, i - 1)),
         len |-> s[i].len, bad |-> s[i].bad]]
ShortStreams ==
    {Laid(s \o e) : s \in UNION {[1 .. n -> Good] : n \in 0 .. 3}, e \in Ends}
=============================================================================
