------------------------------- MODULE MCDoor -------------------------------
(***************************************************************************)
(* A small instance of DoorScanner: card b is a Yubikey that also carries  *)
(* a copy of c's signature, card c is a signed Desfire.  The database goes *)
(* between two contents, as an update does: c moves from the UIDs to the   *)
(* Desfire cards, and b's key is replaced by one that is not on the card.  *)
(***************************************************************************)
EXTENDS DoorScanner

CONSTANTS b, c, k1, k2

MCKeyOn == [x \in Card |-> IF x = b THEN k1 ELSE NoKey]

MCSignedUid == [x \in Card |-> c]

MCBefore == [uids |-> {c},
             hmac |-> [x \in Card |-> IF x = b THEN k1 ELSE NoKey],
             desfire |-> {}]

MCAfter == [uids |-> {},
            hmac |-> [x \in Card |-> IF x = b THEN k2 ELSE NoKey],
            desfire |-> {c}]

MCDbVersions == {MCBefore, MCAfter}
==============================================================================
