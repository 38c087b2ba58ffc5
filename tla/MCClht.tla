---- MODULE MCClht ----
(* Instances of Clht.                                                      *)
EXTENDS Clht

CONSTANTS t1, t2

\* In a table of one or two buckets all three keys are in one bin.
MCKeys == {2, 4, 6}

\* Enough for a second resize, and for a slot that is used again twice during a
\* get of another key.
MCCalls == {<<"get", 4>>, <<"put", 2>>, <<"put", 4>>, <<"put", 6>>, <<"remove", 2>>, <<"remove", 4>>}

\* Nobody, as in src/, or every thread, as the table asks of a program that resizes it.
MCRegistrations == {{}, {t1, t2}}
====
