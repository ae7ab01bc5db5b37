---- MODULE MCResolver ----
\* A small instance of Resolver: a film and the slate, whose segment alone fills the cache of segments.
EXTENDS Resolver

CONSTANTS film, slate

SizeOf == [s \in Sources |-> IF s = Slate THEN 2 ELSE 1]
====
