---------------------------- MODULE MCComponents ----------------------------
(* Components with two pipelines, one with two shaders of their own keys and *)
(* one that shares a key with the first.                                     *)
EXTENDS Components

CONSTANTS Vertex, Fragment, Other

KeysOfShaders == [s \in {Vertex, Fragment, Other} |-> IF s = Fragment THEN "fragment" ELSE "vertex"]
ShadersOfPipelines == <<{Vertex, Fragment}, {Other}>>
=============================================================================
