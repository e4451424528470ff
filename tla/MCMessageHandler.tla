-------------------------- MODULE MCMessageHandler --------------------------
\* Model values for the runs of MessageHandler: two words and the empty one, fields of
\* one word, of two, of none and of one with a space behind it, and one image.
EXTENDS MessageHandler

MCFields == {<<"w1">>, <<"w1", "w2">>, <<"">>, <<"w2", "">>}
=============================================================================
