----------------------------- MODULE NdefReader -----------------------------
(***************************************************************************)
(* NFCDevice::readDesfireNDEF of nfc_smartcard.cpp: the search for the     *)
(* NDEF File Control TLV in the capability container of a card.  The       *)
(* offset is a uint8_t.  Only a process that has the reader open gets      *)
(* here, so one copy of the locals is enough.                              *)
(***************************************************************************)
EXTENDS Naturals, Sequences

CONSTANTS Container,    \* the capability containers a card may have
          NoContainer,  \* no read is under way
          Size, Octets, \* cclen and cc_data of a container
          Starts        \* where the search would look if offsets had no width

Width == 256

Byte == 0..(Width - 1)

(* The condition of the while loop: another TLV is inside. *)
Searching(c, i) == i + 7 < Size[c] /\ Octets[c][i] # 4

(* Starts[c] begins at 7 and goes from TLV to TLV until the search is over. *)
Walk(c, s) ==
    /\ s \in Seq(Nat) /\ s # <<>>
    /\ s[1] = 7
    /\ \A k \in 1..(Len(s) - 1) :
         /\ Searching(c, s[k])
         /\ s[k + 1] = s[k] + Octets[c][s[k] + 1] + 2
    /\ ~Searching(c, s[Len(s)])

ASSUME ContainerAssumption ==
    /\ NoContainer \notin Container
    /\ \A c \in Container :
         /\ Size[c] \in Nat
         /\ Octets[c] \in [0..(Size[c] - 1) -> Byte]
         /\ Walk(c, Starts[c])

FitsOffset(c) == \A k \in 1..Len(Starts[c]) : Starts[c][k] < Width

VARIABLES cc,   \* cc_data, NoContainer when no read is under way
          off   \* the offset of the search

ndefVars == <<cc, off>>

NdefInit == cc = NoContainer /\ off = 0

(* The target is selected, authenticated, its container read. *)
ReadContainer(c) ==
    /\ Size[c] >= 15
    /\ cc' = c /\ off' = 7

(* A slip: the two octets of tag and length are not counted. *)
HeaderNotSkipped ==
    /\ Searching(cc, off)
    /\ off' = (off + Octets[cc][off + 1]) % Width
    /\ UNCHANGED cc

(* A slip: the offset is not kept to eight bits. *)
OffsetWidened ==
    /\ Searching(cc, off)
    /\ off' = off + Octets[cc][off + 1] + 2
    /\ UNCHANGED cc

SkipTlv ==
    /\ Searching(cc, off)
    /\ off' = (off + Octets[cc][off + 1] + 2) % Width
    /\ UNCHANGED cc

TlvFound == ~Searching(cc, off) /\ off + 7 < Size[cc]

ReadEnds == cc' = NoContainer /\ off' = 0
=============================================================================
