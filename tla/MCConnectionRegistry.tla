------------------------ MODULE MCConnectionRegistry ------------------------
(* TLC instances of ConnectionRegistry: one pool key, and a dedicated child d1  *)
(* that tunnels through the shared entry s1.                                    *)
EXTENDS ConnectionRegistry, TLC

CONSTANTS s1, host

\* The shared entries have the key of one host.
OneKey == [c \in Conns \ Dedicated |-> host]

\* Dedicated children tunnel through s1.
HopThroughS1 == [d \in Dedicated |-> s1]

\* Users are interchangeable, and so are the threads.
Symmetry == Permutations(Users) \union Permutations(Threads)

\* How many actors, threads and idle tasks, are inside a method at a time.
BusyBound == 2

FewBusy == Cardinality({a \in Actors : ~Resting(a)}) <= BusyBound
=============================================================================
