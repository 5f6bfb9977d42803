------------------------------ MODULE MCCardDb ------------------------------
(***************************************************************************)
(* A small instance of CardDb: two administrators at work, two cards of    *)
(* which one has an HMAC key, and the command lines that can get in each   *)
(* other's way.                                                            *)
(***************************************************************************)
EXTENDS CardDb

CONSTANTS a, b, k1, k2

MCKeyOn == [x \in Card |-> IF x = a THEN k1 ELSE NoKey]

MCSignedUid == [x \in Card |-> x]

Add(table, u, k) == [kind |-> "add", table |-> table, uid |-> u, key |-> k]

MCJobs == {[kind |-> "create"],
           Add("uids", b, k1), Add("desfire", Malformed, k1), Add("hmac", a, k2),
           [kind |-> "import", table |-> "uids", list |-> {b}],
           [kind |-> "sync", table |-> "uids", list |-> {a, b}, second |-> {b, Malformed}]}

MCContents == {[uids |-> {a}, hmac |-> [x \in Card |-> IF x = a THEN k1 ELSE NoKey],
                desfire |-> {a}]}
==============================================================================
