--------------------------- MODULE MesPipelineMC ---------------------------
EXTENDS MesPipeline

SecondInvalid == {[epoch |-> 1, seq |-> 2]}
=============================================================================
