--------------------------- MODULE GcodeSenderMC ---------------------------
EXTENDS GcodeSender

CONSTANTS p, q   \* the files

\* p is edited until it is too long; q is too big until it is edited.
Version(f, n) == [path |-> f, version |-> n]
TooBig  == {Version(q, 1)}
TooLong == {Version(p, 2), Version(q, 1)}
=============================================================================
