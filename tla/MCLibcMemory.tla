---------------------------- MODULE MCLibcMemory ----------------------------
(* Destinations and sources at every kind of alignment, counts around the  *)
(* sizes of the chunks, and overlapping copies towards lower addresses.    *)
EXTENDS LibcMemory

CONSTANTS Starts, Counts

Source == 256

MCInputs ==
  {[fn |-> "memcpy", dst |-> d, src |-> Source + s, count |-> n] :
     d \in Starts, s \in Starts, n \in Counts}
  \cup {[fn |-> "memcpy", dst |-> Source + d, src |-> d, count |-> n] :
     d \in Starts, n \in Counts}
  \cup {[fn |-> "memcpy", dst |-> d, src |-> d + k, count |-> n] :
     d \in Starts, k \in {0, 1, 4, 64}, n \in Counts}
  \cup {[fn |-> "memset", dst |-> d, src |-> 0, count |-> n] : d \in Starts, n \in Counts}
=============================================================================
