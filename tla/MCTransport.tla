----------------------------- MODULE MCTransport -----------------------------
(* Small instances of Transport for TLC.                                   *)
EXTENDS Transport, TLC

CONSTANTS s1, s2

MCTwo == {s1, s2}
MCOne == {s1}

\* Packets that take one send or two, and one too large to be framed.  With a
\* queue of two packets and three bytes, two small ones fill it by their number,
\* and a large one fills it for another large one by its bytes.
MCSizes == {1, 2, 3}

\* Large packets alone are enough to be slow.
MCLargeSizes == {2, 3}

Interchangeable == Permutations(Streams)

=============================================================================
