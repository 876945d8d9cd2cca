------------------------------- MODULE MCRehash -------------------------------
(***************************************************************************)
(* An instance of Rehash for TLC: keys that crowd the same few buckets.    *)
(***************************************************************************)
EXTENDS Rehash

CONSTANTS ka, kb, kc, kd, ke, kf, x1

Hv(h, p) == [hash |-> h, partial |-> p]

\* Under hashpower 2, ka, kb, kc and kd can fill the table so that the second
\* pass of a rehash has to displace items.
MCHash == [k \in Key |-> CASE k = ka -> Hv(4, 1)
                            [] k = kb -> Hv(3, 1)
                            [] k = kc -> Hv(7, 4)
                            [] k = kd -> Hv(20, 2)
                            [] k = ke -> Hv(0, 0)
                            [] k = kf -> Hv(1, 3)]
=============================================================================
