---------------------------- MODULE MCHandleTable ----------------------------
(* Model-checking instance of HandleTable.                                  *)
EXTENDS HandleTable

\* A handle survives the trip through a 64-bit host value, and is never the invalid 0
\* (HandleId::raw and from_raw, on every slot and generation of the instance).
ASSUME RawRoundTrip ==
  \A s \in 1..MaxInserts, g \in 1..MaxGeneration :
    LET r == Raw(s, g)
    IN r # 0 /\ RawSlot(r) = s /\ RawGeneration(r) = g
=============================================================================
