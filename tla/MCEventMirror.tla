--------------------------- MODULE MCEventMirror ---------------------------
\* Instances of EventMirror.
EXTENDS EventMirror, TLC

CONSTANTS c1, e1, k1

OneWorkflow == e1 :> {k1}
=============================================================================
