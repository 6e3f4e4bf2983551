-------------------------- MODULE ForwarderBatchMC --------------------------
EXTENDS ForwarderBatch

\* Room for three of the small events, or one of each size.
RoomyLimits == [events |-> 3, bytes |-> 7, event |-> 3]

Everything == [types |-> Type, events |-> 3, bytes |-> 7, event |-> 3]
SmallOnly  == [types |-> Type, events |-> 2, bytes |-> 3, event |-> 0]
OneType(t) == [types |-> {t}, events |-> 0, bytes |-> 5, event |-> 3]

Announced == {Everything, SmallOnly} \cup {OneType(t) : t \in Type}
=============================================================================
