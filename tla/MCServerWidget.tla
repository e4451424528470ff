--------------------------- MODULE MCServerWidget ---------------------------
\* Model values for the runs of ServerWidget: two words, each of them a field, and
\* two contents of index.txt: a plain one, and one with a space in a target.
EXTENDS ServerWidget

MCFields == {<<"w1">>, <<"w2">>}
MCIndexes ==
  {{[image |-> "i1", target |-> <<"w1">>]}, {[image |-> "i1", target |-> <<"w1", "w2">>]}}
=============================================================================
