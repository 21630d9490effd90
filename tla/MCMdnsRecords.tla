--------------------------- MODULE MCMdnsRecords ----------------------------
(***************************************************************************)
(* A small instance of MdnsRecords in which 1 is registered first.  The    *)
(* querier sorts a batch by rdata: three changes lead from 1 to 2 and back, *)
(* so that a record is replaced by a greater and by a smaller one.          *)
(***************************************************************************)
EXTENDS MdnsRecords

MCNext == Next /\ (changes = 0 /\ changes' = 1 => Registered' = 1)

MCSpec == Init /\ [][MCNext]_vars /\ Fairness
=============================================================================
