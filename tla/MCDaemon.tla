------------------------------ MODULE MCDaemon ------------------------------
(***************************************************************************)
(* Small instances of BrmdoorDaemon.  How the authenticators decide is     *)
(* MCDoor's question: here every UID in Listed is in the database, which   *)
(* does not change, and no card has keys or signatures.                    *)
(***************************************************************************)
EXTENDS BrmdoorDaemon, TLC

CONSTANTS Listed, a, b, ch1, ch2

MCKeyOn == [x \in Card |-> NoKey]

MCSignedUid == [x \in Card |-> NoCard]

MCDbVersions == {[uids |-> Listed, hmac |-> [x \in Card |-> NoKey], desfire |-> {}]}

(* Nothing tells the two positions of the switch apart. *)
Positions == Permutations({OpenText, ClosedText})

OneChannel == <<ch1>>

TwoChannels == <<ch1, ch2>>
==============================================================================
