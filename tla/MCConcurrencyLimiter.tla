------------------------ MODULE MCConcurrencyLimiter ------------------------
EXTENDS ConcurrencyLimiter, TLC

CONSTANTS a, b, r1, r2, r3

Circuit(u, n, c) == [user |-> u, type |-> "circuit", shots |-> n, circuits |-> c]
Sweep(u, n, c)   == [user |-> u, type |-> "sweep", shots |-> n, circuits |-> c]

\* One user: circuit jobs of one and two shots, one whose circuits the parser does
\* not recognise, and a sweep.
Mixed == {Circuit(a, 1, 1), Circuit(a, 2, 0), Circuit(a, 1, 2), Sweep(a, 0, 0)}

\* Two users, each with circuit jobs only or with sweeps only.
PerUser == {Circuit(a, 1, 1), Circuit(a, 1, 2), Sweep(b, 0, 0)}

\* A circuit job that fills a license, and a sweep.
Few == {Circuit(a, 1, 2), Sweep(a, 0, 0)}

Interchangeable == Permutations(Requests)
=============================================================================
