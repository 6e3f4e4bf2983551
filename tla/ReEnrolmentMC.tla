---------------------------- MODULE ReEnrolmentMC ----------------------------
\* One service of each site, each at its own address.
EXTENDS ReEnrolment

CONSTANTS s1, s2, u1, u2

OneEach == [u \in {u1, u2} |-> IF u = u1 THEN s1 ELSE s2]
=============================================================================
