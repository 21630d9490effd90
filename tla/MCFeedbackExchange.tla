------------------------- MODULE MCFeedbackExchange -------------------------
(***************************************************************************)
(* Feedback with real 8-bit frame IDs: the checkpoint just before, at and   *)
(* after the wrap-around, losses that take one, two or three fields, and    *)
(* ACKs at both ends of the bit vector's first and later words.             *)
(***************************************************************************)
EXTENDS FeedbackExchange

MCCheckpoints == {-1, 254, 255}

MCLosses ==
  {{<<1, p>> : p \in ps} \cup more :
     ps \in SUBSET {0, 8, 9, 17, 18} \cup {{kAllPacketsLost}},
     more \in {{}, {<<3, kAllPacketsLost>>}, {<<120, 0>>, <<120, 7>>}}}

MCArrivals == SUBSET {1, 2, 18, 119}
MCRooms == {0, 1, 2, 3, 12}
MCEnqueued == {0, 120, 255}
=============================================================================
