----------------------------- MODULE ReaderTools -----------------------------
(***************************************************************************)
(* The programs beside the daemon that use nfc_smartcard on one reader:    *)
(* write_signed_ndef_on_desfire.py ("write"), test_nfc.py ("test") and any *)
(* other Python program ("other"), which calls the methods in any order.   *)
(* The first hands the reader over to three tools of libfreefare, which    *)
(* open it themselves and act on whatever card is in the field by then.    *)
(***************************************************************************)
EXTENDS NfcDevice, NdefReader

CONSTANTS Blank, App,  \* a card after formatting; one with an empty NDEF file
          Programs     \* which programs run together: a set of functions from Proc

ASSUME ToolsAssumption ==
    /\ Blank \notin Card \cup {NoCard} /\ App \notin Card \cup {NoCard, Blank}
    /\ Programs \subseteq [Proc -> {"write", "test", "other"}]

VARIABLES program,  \* which program a process runs
          pc,       \* where it is
          uid,      \* the UID it has scanned
          file,     \* the temporary file: NoCard (none), Blank (empty) or a signed UID
          status,   \* how it ended: "0", "1", "2", "4", "killed"; "none" while it goes on
          stayed,   \* history: has the card scanned stayed in the field?
          content   \* the NDEF of a card: Blank, App, or the UID whose signature it holds

localVars == <<program, uid, file, status, stayed>>
readerVars == <<deviceVars, ndefVars, field, localVars, pc, content>>

TryBody == {"new", "scan", "prepare", "fill"}
Finally == {"close", "unload"}
Tools   == {"format", "create", "write"}
Places  == TryBody \cup Finally \cup Tools \cup {"apdu", "read", "search", "any", "done", "ended"}

ReaderInit ==
    /\ DeviceInit /\ NdefInit
    /\ field = NoCard
    /\ program \in Programs
    /\ pc = [p \in Proc |-> IF program[p] = "other" THEN "any" ELSE "new"]
    /\ uid = [p \in Proc |-> NoCard]
    /\ file = [p \in Proc |-> NoCard]
    /\ status = [p \in Proc |-> "none"]
    /\ stayed = [p \in Proc |-> FALSE]
    /\ content \in [Card -> {Blank, App}]

At(p, prog, here) == program[p] = prog /\ pc[p] = here

GoTo(p, there) == pc' = [pc EXCEPT ![p] = there]

Locals == UNCHANGED localVars
Cards == UNCHANGED <<field, content>>

(* The end of p, with status s. *)
End(p, s) ==
    /\ GoTo(p, "ended")
    /\ ProcessEnds(p)
    /\ status' = [status EXCEPT ![p] = s]
    /\ uid' = [uid EXCEPT ![p] = NoCard]
    /\ stayed' = [stayed EXCEPT ![p] = FALSE]
    /\ UNCHANGED <<program, file>>

(***************************************************************************)
(* Construction and scan, in both scripts.                                 *)
(***************************************************************************)
Construction(p) ==
    /\ pc[p] = "new"
    /\ Construct(p)
    /\ GoTo(p, "scan")
    /\ Locals /\ Cards /\ UNCHANGED ndefVars

(* write: nfc is unbound in the finally clause; the NameError replaces the  *)
(* exit, with the same status.                                             *)
NoReader(p) ==
    /\ pc[p] = "new"
    /\ End(p, IF program[p] = "write" THEN "1" ELSE "0")
    /\ Cards /\ UNCHANGED ndefVars

(* A slip: the device is closed after the scan. *)
ScanAndClose(p) ==
    /\ pc[p] = "scan"
    /\ Scans(p)
    /\ Close(p)
    /\ uid' = [uid EXCEPT ![p] = field]
    /\ stayed' = [stayed EXCEPT ![p] = TRUE]
    /\ GoTo(p, IF program[p] = "write" THEN "prepare" ELSE "apdu")
    /\ UNCHANGED <<program, file, status, ndefVars>> /\ Cards

ScanUid(p) ==
    /\ pc[p] = "scan"
    /\ Scans(p)
    /\ uid' = [uid EXCEPT ![p] = field]
    /\ stayed' = [stayed EXCEPT ![p] = TRUE]
    /\ \/ program[p] = "write" /\ GoTo(p, "prepare")
       \/ program[p] = "test" /\ (GoTo(p, "apdu") \/ GoTo(p, "read"))
    /\ UNCHANGED <<program, file, status, deviceVars, ndefVars>> /\ Cards

(* NFCError.  test_nfc.py ends without closing the device. *)
ScanThrows(p) ==
    /\ pc[p] = "scan"
    /\ \/ /\ program[p] = "write"
          /\ GoTo(p, "close")
          /\ status' = [status EXCEPT ![p] = "1"]
          /\ UNCHANGED <<program, uid, file, stayed, deviceVars>>
       \/ program[p] = "test" /\ End(p, "0")
    /\ Cards /\ UNCHANGED ndefVars

(***************************************************************************)
(* write_signed_ndef_on_desfire.py: sign, write the file, leave the reader. *)
(***************************************************************************)
MakeFile(p) ==
    /\ pc[p] = "prepare"
    /\ file' = [file EXCEPT ![p] = Blank]
    /\ GoTo(p, "fill")
    /\ UNCHANGED <<program, uid, status, stayed, deviceVars, ndefVars>> /\ Cards

FillFile(p) ==
    /\ pc[p] = "fill"
    /\ file' = [file EXCEPT ![p] = uid[p]]
    /\ GoTo(p, "close")
    /\ UNCHANGED <<program, uid, status, stayed, deviceVars, ndefVars>> /\ Cards

(* A slip: the name of the file is known only once it is written. *)
NameKnownLate(p) ==
    /\ pc[p] \in {"prepare", "fill"}
    /\ GoTo(p, "close")
    /\ status' = [status EXCEPT ![p] = "2"]
    /\ UNCHANGED <<program, uid, file, stayed, deviceVars, ndefVars>> /\ Cards

(* A bad key, a full disk: the clause for Exception removes the file. *)
PrepareThrows(p) ==
    /\ pc[p] \in {"prepare", "fill"}
    /\ file' = [file EXCEPT ![p] = NoCard]
    /\ GoTo(p, "close")
    /\ status' = [status EXCEPT ![p] = "2"]
    /\ UNCHANGED <<program, uid, stayed, deviceVars, ndefVars>> /\ Cards

(* Ctrl-C: no clause but finally. *)
Interrupt(p) ==
    /\ program[p] = "write" /\ pc[p] \in TryBody \ {"new"}
    /\ GoTo(p, "close")
    /\ status' = [status EXCEPT ![p] = "killed"]
    /\ UNCHANGED <<program, uid, file, stayed, deviceVars, ndefVars>> /\ Cards

(* Any process at any time; Ctrl-C where nothing catches it. *)
Die(p) ==
    /\ pc[p] # "ended"
    /\ End(p, "killed")
    /\ IF pc[p] = "search" THEN ReadEnds ELSE UNCHANGED ndefVars
    /\ Cards

(***************************************************************************)
(* close and unload, in both scripts.                                      *)
(***************************************************************************)
(* A slip: the device is unloaded only. *)
CloseForgotten(p) ==
    /\ pc[p] = "close"
    /\ GoTo(p, "unload")
    /\ Locals /\ Cards /\ UNCHANGED <<deviceVars, ndefVars>>

CloseDevice(p) ==
    /\ pc[p] = "close"
    /\ Close(p)
    /\ GoTo(p, "unload")
    /\ Locals /\ Cards /\ UNCHANGED ndefVars

UnloadDevice(p) ==
    /\ pc[p] = "unload"
    /\ IF program[p] = "write" /\ status[p] = "none"
         THEN Unload(p) /\ GoTo(p, "format") /\ Locals
         ELSE End(p, IF status[p] = "none" THEN "0" ELSE status[p])
    /\ Cards /\ UNCHANGED ndefVars

(***************************************************************************)
(* The tools, run with os.system.  With an empty field they find no card   *)
(* to act on, and need not report that.                                    *)
(***************************************************************************)
After(here) == CASE here = "format" -> "create" [] here = "create" -> "write" [] OTHER -> "done"

ToolRuns(p, here) == At(p, "write", here) /\ holder = Nobody /\ GoTo(p, After(here))

ToolUnchanged == Locals /\ UNCHANGED <<field, deviceVars, ndefVars>>

ToolFindsNothing(p) ==
    /\ \E here \in Tools : ToolRuns(p, here)
    /\ field = NoCard
    /\ ToolUnchanged /\ UNCHANGED content

Format(p) ==
    /\ ToolRuns(p, "format")
    /\ field # NoCard
    /\ content' = [content EXCEPT ![field] = Blank]
    /\ ToolUnchanged

CreateNdef(p) ==
    /\ ToolRuns(p, "create")
    /\ field # NoCard /\ content[field] = Blank
    /\ content' = [content EXCEPT ![field] = App]
    /\ ToolUnchanged

WriteNdef(p) ==
    /\ ToolRuns(p, "write")
    /\ field # NoCard /\ content[field] # Blank
    /\ content' = [content EXCEPT ![field] = file[p]]
    /\ ToolUnchanged

(* A slip: the result of os.system is not looked at. *)
ResultIgnored(p) ==
    /\ pc[p] \in Tools
    /\ GoTo(p, After(pc[p]))
    /\ ToolUnchanged /\ UNCHANGED content

(* A tool that fails may have formatted the card; the script gives up. *)
ToolFails(p) ==
    /\ pc[p] \in Tools
    /\ End(p, "4")
    /\ \/ UNCHANGED content
       \/ /\ pc[p] = "format" /\ field # NoCard /\ holder = Nobody
          /\ content' = [content EXCEPT ![field] = Blank]
    /\ UNCHANGED <<field, ndefVars>>

AllDone(p) ==
    /\ pc[p] = "done"
    /\ End(p, "0")
    /\ Cards /\ UNCHANGED ndefVars

(***************************************************************************)
(* test_nfc.py and other programs: APDUs, and the methods in any order.    *)
(***************************************************************************)
Apdus(p) ==
    /\ pc[p] = "apdu"
    /\ IF Dereferences(p) THEN End(p, "killed")
       ELSE GoTo(p, "close") /\ Locals /\ UNCHANGED deviceVars
    /\ Cards /\ UNCHANGED ndefVars

Call(p) ==
    /\ pc[p] = "any"
    /\ \/ Construct(p)
       \/ Exists(p) /\ (Open(p) \/ OpenFails(p) \/ Close(p) \/ Unload(p) \/ Destroy(p))
    /\ UNCHANGED pc /\ Locals /\ Cards /\ UNCHANGED ndefVars

(* A call that goes into libnfc with a NULL pointer. *)
Crash(p) ==
    /\ pc[p] = "any" /\ Exists(p)
    /\ Dereferences(p) \/ object[p].unloaded
    /\ End(p, "killed")
    /\ Cards /\ UNCHANGED ndefVars

(***************************************************************************)
(* readDesfireNDEF.                                                        *)
(***************************************************************************)
BeginRead(p, c) ==
    /\ pc[p] \in {"read", "any"}
    /\ object[p].device /\ field # NoCard
    /\ ReadContainer(c)
    /\ GoTo(p, "search")
    /\ Locals /\ Cards /\ UNCHANGED deviceVars

Search(p) ==
    /\ pc[p] = "search"
    /\ SkipTlv
    /\ UNCHANGED pc /\ Locals /\ Cards /\ UNCHANGED deviceVars

ReadReturns(p) ==
    /\ pc[p] = "search"
    /\ TlvFound /\ field # NoCard
    /\ ReadEnds
    /\ GoTo(p, IF program[p] = "test" THEN "close" ELSE "any")
    /\ Locals /\ Cards /\ UNCHANGED deviceVars

(* NFCError, at any radio exchange or for what the container says. *)
ReadThrows(p) ==
    /\ \/ pc[p] = "read" /\ UNCHANGED ndefVars
       \/ pc[p] = "search" /\ ~Searching(cc, off) /\ ReadEnds
    /\ IF program[p] = "test" THEN End(p, "0")
       ELSE GoTo(p, "any") /\ Locals /\ UNCHANGED deviceVars
    /\ Cards

(***************************************************************************)
(* Cards come and go.                                                      *)
(***************************************************************************)
PlaceCard(c) ==
    /\ field = NoCard
    /\ field' = c
    /\ UNCHANGED <<deviceVars, ndefVars, localVars, pc, content>>

RemoveCard ==
    /\ field # NoCard
    /\ field' = NoCard
    /\ stayed' = [p \in Proc |-> FALSE]
    /\ UNCHANGED <<deviceVars, ndefVars, program, uid, file, status, pc, content>>

Write(p) ==
    \/ MakeFile(p) \/ FillFile(p) \/ PrepareThrows(p) \/ Interrupt(p)
    \/ ToolFindsNothing(p) \/ Format(p) \/ CreateNdef(p) \/ WriteNdef(p) \/ ToolFails(p)
    \/ AllDone(p)

Read(p) ==
    \/ Search(p) \/ ReadReturns(p) \/ ReadThrows(p)
    \/ \E c \in Container : BeginRead(p, c)

Process(p) ==
    \/ Construction(p) \/ NoReader(p) \/ ScanUid(p) \/ ScanThrows(p)
    \/ CloseDevice(p) \/ UnloadDevice(p) \/ Die(p)
    \/ Write(p) \/ Read(p) \/ Apdus(p) \/ Call(p) \/ Crash(p)

World == RemoveCard \/ \E c \in Card : PlaceCard(c)

ReaderNext == World \/ \E p \in Proc : Process(p)

ReaderSpec == ReaderInit /\ [][ReaderNext]_readerVars

(* A search is computation: it goes on until it ends or the process dies. *)
FairReaderSpec == ReaderSpec /\ \A p \in Proc : WF_readerVars(Search(p))

(***************************************************************************)
(* Properties.                                                             *)
(***************************************************************************)
(* Every variable has a value of its kind. *)
ReaderTypeOK ==
    /\ object \in [Proc -> Object]
    /\ holder \in Proc \cup {Nobody}
    /\ field \in Card \cup {NoCard}
    /\ cc \in Container \cup {NoContainer} /\ off \in Byte
    /\ program \in Programs
    /\ pc \in [Proc -> Places]
    /\ uid \in [Proc -> Card \cup {NoCard}]
    /\ file \in [Proc -> Card \cup {NoCard, Blank}]
    /\ status \in [Proc -> {"none", "0", "1", "2", "4", "killed"}]
    /\ stayed \in [Proc -> BOOLEAN]
    /\ content \in [Card -> Card \cup {NoCard, Blank, App}]

(* nfc_smartcard.h, "Returns true iff device was opened and not unloaded":  *)
(* in whatever order the methods are called, an object that says it is     *)
(* opened has the reader, and no two processes ever believe they do.       *)
OpenedHolds == \A p \in Proc : Opened(p) => holder = p

(* write_signed_ndef_on_desfire.py, the finally clause: whatever happened   *)
(* in the try block, the script does not itself keep from its tools the    *)
(* reader they need.                                                       *)
ReleasedForTools == \A p \in Proc : pc[p] \in Tools => holder # p

(* test_nfc.py: the methods that do not check for an open device are called *)
(* on one only.                                                            *)
CalledOnOpenDevice ==
    \A p \in Proc : program[p] = "test" /\ pc[p] \in {"apdu", "read", "search"} => Opened(p)

(* write_signed_ndef_on_desfire.py: the file of a run that reports an error *)
(* (exit status 1 or 2) is gone, wherever the error came.                  *)
ErrorLeavesNoFile ==
    \A p \in Proc : program[p] = "write" /\ status[p] \in {"1", "2"} => file[p] = NoCard

(* write_signed_ndef_on_desfire.py, "All done": as long as the card stays   *)
(* in the field, a run that gets through its tools leaves it with the      *)
(* signature of its own UID, whatever other runs do on the same reader.    *)
DoneMeansSigned ==
    [][\A p \in Proc : pc[p] = "write" /\ pc'[p] = "done" /\ stayed[p]
                          => content'[uid[p]] = uid[p]]_readerVars

(* readDesfireNDEF: where offsets fit their eight bits, the search ends     *)
(* where it would if they had no width, at the NDEF File Control TLV or at *)
(* the end of the container.                                               *)
SearchExact ==
    \A p \in Proc : pc[p] = "search" /\ ~Searching(cc, off) /\ FitsOffset(cc)
                       => off = Starts[cc][Len(Starts[cc])]

(* readDesfireNDEF: and it does end. *)
SearchEnds ==
    \A p \in Proc : (pc[p] = "search" /\ FitsOffset(cc)) ~> (pc[p] # "search" \/ ~Searching(cc, off))
=============================================================================
