------------------------------- MODULE MCWire -------------------------------
\* Model values for the runs of Wire.  A byte of the length field has two values,
\* so that the longest data has 15 characters: the empty text, one of
\* three characters with a NUL and one of four (a carry of the length field), the
\* longest that the receiver has room for, and the longest of all.
EXTENDS Wire

MCPayloads ==
  {[i \in 1 .. n |-> 7] : n \in {0, 4, 14, 15}} \cup {<<7, NUL, 7>>}
=============================================================================
