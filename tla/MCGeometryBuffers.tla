--------------------------- MODULE MCGeometryBuffers ---------------------------
EXTENDS GeometryBuffersProps
A == <<0, 0>>
B == <<2, 0>>
C == <<2, 2>>
D == <<1, 3>>
SomePoints == {A, D}
SomeOutlines  == {<<A>>, <<A, B, C>>, <<A, C, B>>, <<B, C, D, A>>, <<A, B, C, A>>, <<A, D, C, B, A>>, <<A, B, C, D, C, B>>}
SomeSpans  == {<<0, 3>>, <<1, 2>>, <<1, 3>>, <<2, 1>>}
=============================================================================
