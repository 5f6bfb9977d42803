----------------------------- MODULE Entitlement -----------------------------
(***************************************************************************)
(* Who may open the door: the three methods of brmdoor_authenticator.py,   *)
(* as predicates on one content of the sqlite database and on what the     *)
(* cards at the reader can show.  A card is named by its UID.              *)
(***************************************************************************)
CONSTANTS Card, NoCard,  \* the UIDs, and a value for "no card"
          Key, NoKey,    \* HMAC keys, and a value for "no key"
          KeyOn,         \* KeyOn[c]: the HMAC key in slot 2 of card c, if any
          SignedUid      \* SignedUid[c]: the UID whose signature c's NDEF holds

(* The rows of the three tables, per UID.  hmac[c] is the key of the first *)
(* row found for c: the code reads no other.                               *)
Database == [uids : SUBSET Card,
             hmac : [Card -> Key \cup {NoKey}],
             desfire : SUBSET Card]

ByUid(d, c) == c \in d.uids

ByHmac(d, c) == d.hmac[c] # NoKey /\ KeyOn[c] = d.hmac[c]

(* The signature is read from whatever card is in the field by then.       *)
ByNdef(d, c, shown) == c \in d.desfire /\ \E s \in shown : SignedUid[s] = c

Entitles(d, c, shown) == ByUid(d, c) \/ ByHmac(d, c) \/ ByNdef(d, c, shown)
==============================================================================
