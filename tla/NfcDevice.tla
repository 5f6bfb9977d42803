------------------------------ MODULE NfcDevice ------------------------------
(***************************************************************************)
(* class NFCDevice of nfc_smartcard.cpp: the life cycle of the object a    *)
(* Python program holds, and of the reader libnfc opens for it.  Every     *)
(* process p has at most one such object; the reader is open in at most    *)
(* one process.  The methods are operators: a program conjoins them with   *)
(* its own control.                                                        *)
(***************************************************************************)
CONSTANTS Proc, Nobody,  \* the processes, and a value for "no process"
          Card, NoCard   \* the cards, and a value for "no card"

ASSUME DeviceAssumption == Nobody \notin Proc /\ NoCard \notin Card

VARIABLES object,  \* object[p]: the NFCDevice of p, or NoObject
          holder,  \* the process that has the reader open in libnfc
          field    \* the card in the reader's field

deviceVars == <<object, holder>>

(* context, device: is the pointer _nfcContext, _nfcDevice set?             *)
Object == [context : BOOLEAN, device : BOOLEAN, opened : BOOLEAN, unloaded : BOOLEAN]

NoObject == [context |-> FALSE, device |-> FALSE, opened |-> FALSE, unloaded |-> FALSE]

DeviceInit ==
    /\ object = [p \in Proc |-> NoObject]
    /\ holder = Nobody

Exists(p) == object[p] # NoObject

Opened(p) == object[p].opened /\ ~object[p].unloaded

(* nfc_open succeeds, and so does nfc_initiator_init. *)
NfcOpen(p) ==
    /\ holder = Nobody
    /\ holder' = p
    /\ object' = [object EXCEPT ![p] = [context |-> TRUE, device |-> TRUE,
                                        opened |-> TRUE, unloaded |-> FALSE]]

Construct(p) == ~Exists(p) /\ NfcOpen(p)

(* No reader, or it is busy, or its initialisation fails and it is closed   *)
(* again.  No destructor runs: the context is not given back.               *)
ConstructFails(p) == ~Exists(p) /\ UNCHANGED deviceVars

Open(p) ==
    \/ Opened(p) /\ UNCHANGED deviceVars
    \/ ~Opened(p) /\ object[p].context /\ NfcOpen(p)

(* A slip: the flag stays set when the initialisation fails. *)
FlagStaysSet(p) ==
    /\ ~Opened(p) /\ object[p].context
    /\ object' = [object EXCEPT ![p] = [@ EXCEPT !.device = FALSE, !.opened = TRUE]]
    /\ UNCHANGED holder

OpenFails(p) ==
    /\ ~Opened(p) /\ object[p].context
    /\ object' = [object EXCEPT ![p] = [@ EXCEPT !.device = FALSE, !.opened = FALSE]]
    /\ UNCHANGED holder

Close(p) ==
    IF Opened(p)
      THEN /\ holder' = Nobody
           /\ object' = [object EXCEPT ![p] = [@ EXCEPT !.device = FALSE, !.opened = FALSE]]
      ELSE UNCHANGED deviceVars

(* The context goes, the device stays as it is. *)
Unload(p) ==
    /\ object' = [object EXCEPT ![p] = [@ EXCEPT !.context = FALSE, !.unloaded = TRUE]]
    /\ UNCHANGED holder

(* The destructor: close, then unload. *)
Destroy(p) ==
    /\ holder' = IF Opened(p) THEN Nobody ELSE holder
    /\ object' = [object EXCEPT ![p] = NoObject]

(* Which methods check that the device is open: scanUID does.  The others   *)
(* pass a NULL device on to libnfc, and open a NULL context: the process    *)
(* dies.                                                                    *)
Scans(p) == Opened(p) /\ field # NoCard

Dereferences(p) == ~object[p].device

(* The end of a process, orderly or not: the system closes the reader. *)
ProcessEnds(p) ==
    /\ holder' = IF holder = p THEN Nobody ELSE holder
    /\ object' = [object EXCEPT ![p] = NoObject]
==============================================================================
