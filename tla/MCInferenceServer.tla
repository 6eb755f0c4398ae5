------------------------- MODULE MCInferenceServer -------------------------
(* A small instance of InferenceServer: a chat and two runs of a thread.    *)
EXTENDS InferenceServer

CONSTANT t1

OneThread == <<t1, t1>>
SomePrompts == {<<1, 2>>, <<1, 2, 2>>, [i \in 1 .. 7 |-> 2]}
SomeTails == {<<2>>, <<2, 2, 2, 2>>}
=============================================================================
