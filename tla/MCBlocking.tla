----------------------------- MODULE MCBlocking -----------------------------
EXTENDS Blocking
CONSTANTS x1, x2, w1, w2, q1
MCTwoPlaces == {<<w1, 1>>, <<w1, 2>>, <<w2, 1>>}
MCPlaces == {<<w1, 1>>, <<w2, 1>>}
MCWorldOf(p) == p[1]
=============================================================================
