-------------------------- MODULE ReaderToolsProofs --------------------------
(***************************************************************************)
(* Proofs about ReaderTools, for any number of processes with any mix of   *)
(* programs, every set of cards and every set of capability containers:    *)
(* type correctness, the safety properties of the reader and of the        *)
(* scripts, and the exactness of the search.                               *)
(***************************************************************************)
EXTENDS ReaderTools, TLAPS

(***************************************************************************)
(* The invariant.                                                          *)
(***************************************************************************)
(* A pointer to the device is a reader that is open: libnfc gives it to     *)
(* nobody else.                                                            *)
DeviceInv ==
    \A p \in Proc :
        /\ object[p].opened => object[p].device
        /\ object[p].device => holder = p

(* Which program is where. *)
ProgramInv ==
    \A p \in Proc :
        /\ pc[p] \in {"prepare", "fill", "done"} \cup Tools => program[p] = "write"
        /\ pc[p] \in {"apdu", "read"} => program[p] = "test"
        /\ pc[p] = "any" => program[p] = "other"
        /\ pc[p] \in {"new", "scan"} \cup Finally => program[p] # "other"
        /\ pc[p] = "search" => program[p] # "write"

(* The scripts have the reader from the construction to close, and not      *)
(* before or after.                                                        *)
ScriptInv ==
    \A p \in Proc :
        /\ pc[p] \in {"scan", "prepare", "fill", "close", "apdu", "read"} => Opened(p)
        /\ pc[p] = "search" /\ program[p] = "test" => Opened(p)
        /\ pc[p] \in {"new", "unload"} \cup Tools => holder # p

(* The one process that searches is the one with the reader; while offsets  *)
(* fit, it is on the walk from TLV to TLV.                                 *)
SearchInv ==
    \A p \in Proc : pc[p] = "search" =>
        /\ object[p].device
        /\ cc \in Container
        /\ FitsOffset(cc) => \E k \in 1..Len(Starts[cc]) : off = Starts[cc][k]

(* The temporary file follows the way through the script. *)
FileInv ==
    \A p \in Proc :
        /\ pc[p] \in TryBody => status[p] = "none"
        /\ pc[p] \in {"new", "scan", "prepare"} => file[p] = NoCard
        /\ program[p] = "write" /\ pc[p] \in Finally /\ status[p] = "none" => file[p] = uid[p]
        /\ pc[p] \in Tools => file[p] = uid[p]
        /\ program[p] = "write" /\ status[p] \in {"1", "2"} => file[p] = NoCard

(* A card that has stayed is still there. *)
StayedInv == \A p \in Proc : stayed[p] => uid[p] \in Card /\ field = uid[p]

ReaderInv ==
    /\ ReaderTypeOK /\ DeviceInv /\ ProgramInv /\ ScriptInv
    /\ SearchInv /\ FileInv /\ StayedInv

(* The end of a process leaves values of the right kinds. *)
LEMMA EndTypes ==
  ASSUME ReaderTypeOK, NEW p \in Proc, NEW s \in {"0", "1", "2", "4", "killed"}, End(p, s),
         field' = field, cc' \in Container \cup {NoContainer}, off' \in Byte,
         content' \in [Card -> Card \cup {NoCard, Blank, App}]
  PROVE  ReaderTypeOK'
<1>1. object' \in [Proc -> Object]
  <2>1. NoObject \in Object
    BY DEF NoObject, Object
  <2>. QED
    BY <2>1 DEF ReaderTypeOK, End, ProcessEnds
<1>2. holder' \in Proc \cup {Nobody} /\ pc' \in [Proc -> Places]
  BY DEF ReaderTypeOK, End, ProcessEnds, GoTo, Places
<1>3. /\ uid' \in [Proc -> Card \cup {NoCard}]
      /\ status' \in [Proc -> {"none", "0", "1", "2", "4", "killed"}]
      /\ stayed' \in [Proc -> BOOLEAN]
      /\ UNCHANGED <<program, file>>
  BY DEF ReaderTypeOK, End
<1>. QED
  BY <1>1, <1>2, <1>3 DEF ReaderTypeOK

(* So does every method of the device. *)
LEMMA MethodTypes ==
  ASSUME NEW p \in Proc, object \in [Proc -> Object], holder \in Proc \cup {Nobody}
  PROVE  \/ Construct(p) \/ Open(p) \/ OpenFails(p) \/ Close(p) \/ Unload(p) \/ Destroy(p)
         \/ UNCHANGED deviceVars
         => object' \in [Proc -> Object] /\ holder' \in Proc \cup {Nobody}
<1> DEFINE Typed == object' \in [Proc -> Object] /\ holder' \in Proc \cup {Nobody}
<1> USE DEF Object, NoObject
<1>1. NfcOpen(p) => Typed
  BY DEF NfcOpen
<1>6. Destroy(p) => Typed
  BY DEF Destroy
<1>4. OpenFails(p) => Typed
  BY DEF OpenFails
<1>5. Unload(p) => Typed
  BY DEF Unload
<1>2. UNCHANGED deviceVars => Typed
  BY DEF deviceVars
<1>3. Close(p) => Typed
  BY <1>2 DEF Close
<1>. QED
  BY <1>1, <1>2, <1>3, <1>4, <1>5, <1>6 DEF Construct, Open

(* The search steps from TLV to TLV: an octet is read inside the container, *)
(* and the offset is cut to eight bits.                                     *)
LEMMA SkipTypes ==
  ASSUME ReaderTypeOK, cc \in Container, SkipTlv
  PROVE  /\ off' \in Byte /\ UNCHANGED cc
         /\ Searching(cc, off) /\ Octets[cc][off + 1] \in Nat
         /\ off + Octets[cc][off + 1] + 2 < Width => off' = off + Octets[cc][off + 1] + 2
<1>1. /\ off \in 0..255 /\ Searching(cc, off) /\ cc' = cc
      /\ off' = (off + Octets[cc][off + 1] + 2) % 256
  BY DEF SkipTlv, ReaderTypeOK, Byte, Width
<1>2. Size[cc] \in Nat /\ Octets[cc] \in [0..(Size[cc] - 1) -> Byte]
  BY ContainerAssumption
<1>3. off + 1 \in 0..(Size[cc] - 1)
  BY <1>1, <1>2 DEF Searching
<1>4. Octets[cc][off + 1] \in 0..255
  <2>1. Octets[cc][off + 1] \in Byte
    BY <1>2, <1>3
  <2>. QED
    BY <2>1 DEF Byte, Width
<1> DEFINE next == off + Octets[cc][off + 1] + 2
<1>5. next \in Nat
  <2>1. off \in 0..255
    BY <1>1
  <2>. QED
    BY <2>1, <1>4
<1>6. off' \in 0..255 /\ (next < 256 => off' = next)
  <2>1. off' = next % 256
    BY <1>1
  <2> HIDE DEF next
  <2>. QED
    BY <1>5, <2>1
<1>. QED
  BY <1>1, <1>4, <1>6 DEF next, Byte, Width

(* Every step keeps the types. *)
LEMMA TypeStep == ReaderTypeOK /\ SearchInv /\ [ReaderNext]_readerVars => ReaderTypeOK'
<1> SUFFICES ASSUME ReaderTypeOK /\ SearchInv, [ReaderNext]_readerVars PROVE ReaderTypeOK'
  OBVIOUS
<1> USE DeviceAssumption, ContainerAssumption, ToolsAssumption DEF ReaderTypeOK, Locals, Cards,
      localVars, deviceVars, ndefVars, Places, TryBody, Finally, Tools
<1>1. ASSUME NEW p \in Proc, Construction(p) PROVE ReaderTypeOK'
  <2>1. object' \in [Proc -> Object] /\ holder' \in Proc \cup {Nobody}
    BY <1>1, MethodTypes DEF Construction, ReaderTypeOK
  <2>. QED
    BY <1>1, <2>1 DEF Construction, GoTo
<1>2. ASSUME NEW p \in Proc, NoReader(p) PROVE ReaderTypeOK'
  BY <1>2, EndTypes DEF NoReader, Cards, ndefVars, ReaderTypeOK
<1>3. ASSUME NEW p \in Proc, ScanUid(p) PROVE ReaderTypeOK'
  BY <1>3 DEF ScanUid, Scans, GoTo
<1>4. ASSUME NEW p \in Proc, ScanThrows(p) PROVE ReaderTypeOK'
  <2>1. CASE program[p] = "test"
    BY <1>4, <2>1, EndTypes DEF ScanThrows, Cards, ndefVars, ReaderTypeOK
  <2>2. CASE ~(program[p] = "test")
    BY <1>4, <2>2 DEF ScanThrows, GoTo
  <2>. QED
    BY <2>1, <2>2
<1>5. ASSUME NEW p \in Proc, CloseDevice(p) PROVE ReaderTypeOK'
  <2>1. object' \in [Proc -> Object] /\ holder' \in Proc \cup {Nobody}
    BY <1>5, MethodTypes DEF CloseDevice, ReaderTypeOK
  <2>. QED
    BY <1>5, <2>1 DEF CloseDevice, GoTo
<1>6. ASSUME NEW p \in Proc, UnloadDevice(p) PROVE ReaderTypeOK'
  <2>1. CASE ~(program[p] = "write" /\ status[p] = "none")
    BY <1>6, <2>1, EndTypes DEF UnloadDevice, Cards, ndefVars, ReaderTypeOK
  <2>2. CASE program[p] = "write" /\ status[p] = "none"
    <3>1. object' \in [Proc -> Object] /\ holder' \in Proc \cup {Nobody}
      BY <1>6, <2>2, MethodTypes DEF UnloadDevice, ReaderTypeOK
    <3>. QED
      BY <1>6, <2>2, <3>1 DEF UnloadDevice, GoTo
  <2>. QED
    BY <2>1, <2>2
<1>7. ASSUME NEW p \in Proc, Die(p) PROVE ReaderTypeOK'
  <2>1. cc' \in Container \cup {NoContainer} /\ off' \in Byte
    <3>1. 0 \in Byte
      BY DEF Byte, Width
    <3>. QED
      BY <1>7, <3>1 DEF Die, ReadEnds
  <2>. QED
    BY <1>7, <2>1, EndTypes DEF Die, Cards, ReaderTypeOK
<1>8. ASSUME NEW p \in Proc, MakeFile(p) PROVE ReaderTypeOK'
  BY <1>8 DEF MakeFile, GoTo
<1>9. ASSUME NEW p \in Proc, FillFile(p) PROVE ReaderTypeOK'
  BY <1>9 DEF FillFile, GoTo
<1>10. ASSUME NEW p \in Proc, PrepareThrows(p) PROVE ReaderTypeOK'
  BY <1>10 DEF PrepareThrows, GoTo
<1>11. ASSUME NEW p \in Proc, Interrupt(p) PROVE ReaderTypeOK'
  BY <1>11 DEF Interrupt, GoTo
<1>12. ASSUME NEW p \in Proc, ToolFindsNothing(p) PROVE ReaderTypeOK'
  BY <1>12 DEF ToolFindsNothing, ToolRuns, ToolUnchanged, After, At, GoTo
<1>13. ASSUME NEW p \in Proc, Format(p) PROVE ReaderTypeOK'
  BY <1>13 DEF Format, ToolRuns, ToolUnchanged, After, At, GoTo
<1>14. ASSUME NEW p \in Proc, CreateNdef(p) PROVE ReaderTypeOK'
  BY <1>14 DEF CreateNdef, ToolRuns, ToolUnchanged, After, At, GoTo
<1>15. ASSUME NEW p \in Proc, WriteNdef(p) PROVE ReaderTypeOK'
  BY <1>15 DEF WriteNdef, ToolRuns, ToolUnchanged, After, At, GoTo
<1>16. ASSUME NEW p \in Proc, ToolFails(p) PROVE ReaderTypeOK'
  BY <1>16, EndTypes DEF ToolFails, ndefVars, ReaderTypeOK
<1>17. ASSUME NEW p \in Proc, AllDone(p) PROVE ReaderTypeOK'
  BY <1>17, EndTypes DEF AllDone, Cards, ndefVars, ReaderTypeOK
<1>18. ASSUME NEW p \in Proc, Search(p) PROVE ReaderTypeOK'
  BY <1>18, SkipTypes DEF Search, SearchInv
<1>19. ASSUME NEW p \in Proc, ReadReturns(p) PROVE ReaderTypeOK'
  BY <1>19 DEF ReadReturns, ReadEnds, GoTo, Byte, Width
<1>20. ASSUME NEW p \in Proc, ReadThrows(p) PROVE ReaderTypeOK'
  <2>1. cc' \in Container \cup {NoContainer} /\ off' \in Byte
    BY <1>20 DEF ReadThrows, ReadEnds, Byte, Width
  <2>2. CASE program[p] = "test"
    BY <1>20, <2>1, <2>2, EndTypes DEF ReadThrows, Cards, ReaderTypeOK
  <2>3. CASE program[p] # "test"
    BY <1>20, <2>1, <2>3 DEF ReadThrows, GoTo
  <2>. QED
    BY <2>2, <2>3
<1>21. ASSUME NEW p \in Proc, Apdus(p) PROVE ReaderTypeOK'
  <2>1. CASE Dereferences(p)
    BY <1>21, <2>1, EndTypes DEF Apdus, Cards, ndefVars, ReaderTypeOK
  <2>2. CASE ~(Dereferences(p))
    BY <1>21, <2>2 DEF Apdus, GoTo
  <2>. QED
    BY <2>1, <2>2
<1>22. ASSUME NEW p \in Proc, Call(p) PROVE ReaderTypeOK'
  <2>1. object' \in [Proc -> Object] /\ holder' \in Proc \cup {Nobody}
    BY <1>22, MethodTypes DEF Call, ReaderTypeOK
  <2>. QED
    BY <1>22, <2>1 DEF Call, GoTo
<1>23. ASSUME NEW p \in Proc, Crash(p) PROVE ReaderTypeOK'
  BY <1>23, EndTypes DEF Crash, Cards, ndefVars, ReaderTypeOK
<1>24. ASSUME NEW p \in Proc, NEW c \in Container, BeginRead(p, c) PROVE ReaderTypeOK'
  BY <1>24 DEF BeginRead, ReadContainer, GoTo, Byte, Width
<1>25. ASSUME NEW c \in Card, PlaceCard(c) PROVE ReaderTypeOK'
  BY <1>25 DEF PlaceCard
<1>26. CASE RemoveCard
  BY <1>26 DEF RemoveCard
<1>27. CASE UNCHANGED readerVars
  BY <1>27 DEF readerVars
<1>. QED
  BY <1>1, <1>2, <1>3, <1>4, <1>5, <1>6, <1>7, <1>8, <1>9, <1>10, <1>11, <1>12, <1>13, <1>14,
     <1>15, <1>16, <1>17, <1>18, <1>19, <1>20, <1>21, <1>22, <1>23, <1>24, <1>25, <1>26, <1>27
  DEF ReaderNext, World, Process, Write, Read

(* A method leaves the objects of the other processes alone, and gives the  *)
(* reader to nobody but its caller.                                        *)
Method(p) ==
    \/ Construct(p) \/ Open(p) \/ OpenFails(p) \/ Close(p) \/ Unload(p) \/ Destroy(p)
    \/ ProcessEnds(p) \/ UNCHANGED deviceVars

(* Every step of a process uses one method, or none. *)
LEMMA ProcessMethod == ASSUME NEW p \in Proc, Process(p) PROVE Method(p)
BY DEF Process, Write, Read, Method, Locals, Cards, End, ToolUnchanged, Construction, NoReader,
   ScanUid, ScanThrows, CloseDevice, UnloadDevice, Die, MakeFile, FillFile, PrepareThrows,
   Interrupt, ToolFindsNothing, Format, CreateNdef, WriteNdef, ToolFails, AllDone, Search,
   ReadReturns, ReadThrows, BeginRead, Apdus, Call, Crash, deviceVars

(* What a method leaves alone. *)
LEMMA MethodFrame ==
  ASSUME object \in [Proc -> Object], NEW p \in Proc, Method(p)
  PROVE  holder' \in {holder, p, Nobody} /\ \A q \in Proc \ {p} : object'[q] = object[q]
BY DEF Method, Construct, NfcOpen, Open, OpenFails, Close, Unload, Destroy, ProcessEnds,
      deviceVars

(* Every step keeps the pointers and the reader together. *)
LEMMA DeviceStep == ReaderTypeOK /\ DeviceInv /\ [ReaderNext]_readerVars => DeviceInv'
<1> SUFFICES ASSUME ReaderTypeOK, DeviceInv, [ReaderNext]_readerVars PROVE DeviceInv'
  OBVIOUS
<1>1. object \in [Proc -> Object] /\ holder \in Proc \cup {Nobody}
  BY DEF ReaderTypeOK
<1>2. ASSUME NEW p \in Proc, Process(p) PROVE DeviceInv'
  <2>1. Method(p)
    BY <1>2, ProcessMethod
  <2> USE <1>1, DeviceAssumption DEF DeviceInv, Object, NoObject
  <2>2. CASE Construct(p)
    BY <2>2 DEF Construct, NfcOpen
  <2>3. CASE Open(p)
    BY <2>3 DEF Open, NfcOpen, deviceVars
  <2>4. CASE OpenFails(p)
    BY <2>4 DEF OpenFails
  <2>5. CASE Close(p)
    BY <2>5 DEF Close, Opened, deviceVars
  <2>6. CASE Unload(p)
    BY <2>6 DEF Unload
  <2>7. CASE Destroy(p)
    BY <2>7 DEF Destroy, Opened
  <2>8. CASE ProcessEnds(p)
    BY <2>8 DEF ProcessEnds
  <2>9. CASE UNCHANGED deviceVars
    BY <2>9 DEF deviceVars
  <2>. QED
    BY <2>1, <2>2, <2>3, <2>4, <2>5, <2>6, <2>7, <2>8, <2>9 DEF Method
<1>3. CASE World \/ UNCHANGED readerVars
  BY <1>3 DEF World, PlaceCard, RemoveCard, DeviceInv, readerVars, deviceVars
<1>. QED
  BY <1>2, <1>3 DEF ReaderNext

(* Every step keeps a program in its places. *)
LEMMA ProgramStep == ReaderTypeOK /\ ProgramInv /\ [ReaderNext]_readerVars => ProgramInv'
<1> SUFFICES ASSUME ReaderTypeOK /\ ProgramInv, [ReaderNext]_readerVars PROVE ProgramInv'
  OBVIOUS
<1> USE DeviceAssumption, ContainerAssumption, ToolsAssumption DEF ReaderTypeOK, ProgramInv,
      End, GoTo, Locals, Cards, localVars, deviceVars, ndefVars, Places, TryBody, Finally, Tools
<1>1. ASSUME NEW p \in Proc, Construction(p) PROVE ProgramInv'
  BY <1>1 DEF Construction, Construct, NfcOpen, Exists, GoTo
<1>2. ASSUME NEW p \in Proc, NoReader(p) PROVE ProgramInv'
  BY <1>2 DEF NoReader, End, ProcessEnds, GoTo
<1>3. ASSUME NEW p \in Proc, ScanUid(p) PROVE ProgramInv'
  BY <1>3 DEF ScanUid, Scans, GoTo
<1>4. ASSUME NEW p \in Proc, ScanThrows(p) PROVE ProgramInv'
  BY <1>4 DEF ScanThrows, End, ProcessEnds, GoTo
<1>5. ASSUME NEW p \in Proc, CloseDevice(p) PROVE ProgramInv'
  BY <1>5 DEF CloseDevice, Close, GoTo
<1>6. ASSUME NEW p \in Proc, UnloadDevice(p) PROVE ProgramInv'
  BY <1>6 DEF UnloadDevice, Unload, End, ProcessEnds, GoTo
<1>7. ASSUME NEW p \in Proc, Die(p) PROVE ProgramInv'
  BY <1>7 DEF Die, End, ProcessEnds, ReadEnds, GoTo
<1>8. ASSUME NEW p \in Proc, MakeFile(p) PROVE ProgramInv'
  BY <1>8 DEF MakeFile, GoTo
<1>9. ASSUME NEW p \in Proc, FillFile(p) PROVE ProgramInv'
  BY <1>9 DEF FillFile, GoTo
<1>10. ASSUME NEW p \in Proc, PrepareThrows(p) PROVE ProgramInv'
  BY <1>10 DEF PrepareThrows, GoTo
<1>11. ASSUME NEW p \in Proc, Interrupt(p) PROVE ProgramInv'
  BY <1>11 DEF Interrupt, GoTo
<1>12. ASSUME NEW p \in Proc, ToolFindsNothing(p) PROVE ProgramInv'
  BY <1>12 DEF ToolFindsNothing, ToolRuns, ToolUnchanged, After, At, GoTo
<1>13. ASSUME NEW p \in Proc, Format(p) PROVE ProgramInv'
  BY <1>13 DEF Format, ToolRuns, ToolUnchanged, After, At, GoTo
<1>14. ASSUME NEW p \in Proc, CreateNdef(p) PROVE ProgramInv'
  BY <1>14 DEF CreateNdef, ToolRuns, ToolUnchanged, After, At, GoTo
<1>15. ASSUME NEW p \in Proc, WriteNdef(p) PROVE ProgramInv'
  BY <1>15 DEF WriteNdef, ToolRuns, ToolUnchanged, After, At, GoTo
<1>16. ASSUME NEW p \in Proc, ToolFails(p) PROVE ProgramInv'
  BY <1>16 DEF ToolFails, End, ProcessEnds, GoTo
<1>17. ASSUME NEW p \in Proc, AllDone(p) PROVE ProgramInv'
  BY <1>17 DEF AllDone, End, ProcessEnds, GoTo
<1>18. ASSUME NEW p \in Proc, Search(p) PROVE ProgramInv'
  BY <1>18 DEF Search, SkipTlv, Searching
<1>19. ASSUME NEW p \in Proc, ReadReturns(p) PROVE ProgramInv'
  BY <1>19 DEF ReadReturns, ReadEnds, TlvFound, Searching, GoTo
<1>20. ASSUME NEW p \in Proc, ReadThrows(p) PROVE ProgramInv'
  BY <1>20 DEF ReadThrows, ReadEnds, Searching, End, ProcessEnds, GoTo
<1>21. ASSUME NEW p \in Proc, Apdus(p) PROVE ProgramInv'
  BY <1>21 DEF Apdus, Dereferences, End, ProcessEnds, GoTo
<1>22. ASSUME NEW p \in Proc, Call(p) PROVE ProgramInv'
  BY <1>22 DEF Call, Construct, Exists, NfcOpen, Open, OpenFails, Close, Unload, Destroy
<1>23. ASSUME NEW p \in Proc, Crash(p) PROVE ProgramInv'
  BY <1>23 DEF Crash, End, ProcessEnds, GoTo
<1>24. ASSUME NEW p \in Proc, NEW c \in Container, BeginRead(p, c) PROVE ProgramInv'
  BY <1>24 DEF BeginRead, ReadContainer, GoTo
<1>25. ASSUME NEW c \in Card, PlaceCard(c) PROVE ProgramInv'
  BY <1>25 DEF PlaceCard
<1>26. CASE RemoveCard
  BY <1>26 DEF RemoveCard
<1>27. CASE UNCHANGED readerVars
  BY <1>27 DEF readerVars
<1>. QED
  BY <1>1, <1>2, <1>3, <1>4, <1>5, <1>6, <1>7, <1>8, <1>9, <1>10, <1>11, <1>12, <1>13, <1>14,
     <1>15, <1>16, <1>17, <1>18, <1>19, <1>20, <1>21, <1>22, <1>23, <1>24, <1>25, <1>26, <1>27
  DEF ReaderNext, World, Process, Write, Read

(* Every step keeps the temporary file in order. *)
LEMMA FileStep == ReaderTypeOK /\ ProgramInv /\ FileInv /\ [ReaderNext]_readerVars => FileInv'
<1> SUFFICES ASSUME ReaderTypeOK /\ ProgramInv /\ FileInv, [ReaderNext]_readerVars PROVE FileInv'
  OBVIOUS
<1> USE DeviceAssumption, ContainerAssumption, ToolsAssumption DEF ReaderTypeOK, ProgramInv,
      FileInv, End, GoTo, Locals, Cards, localVars, deviceVars, ndefVars, Places, TryBody,
            Finally, Tools
<1>1. ASSUME NEW p \in Proc, Construction(p) PROVE FileInv'
  BY <1>1 DEF Construction, Construct, NfcOpen, Exists, GoTo
<1>2. ASSUME NEW p \in Proc, NoReader(p) PROVE FileInv'
  BY <1>2 DEF NoReader, End, ProcessEnds, GoTo
<1>3. ASSUME NEW p \in Proc, ScanUid(p) PROVE FileInv'
  BY <1>3 DEF ScanUid, Scans, GoTo
<1>4. ASSUME NEW p \in Proc, ScanThrows(p) PROVE FileInv'
  BY <1>4 DEF ScanThrows, End, ProcessEnds, GoTo
<1>5. ASSUME NEW p \in Proc, CloseDevice(p) PROVE FileInv'
  BY <1>5 DEF CloseDevice, Close, GoTo
<1>6. ASSUME NEW p \in Proc, UnloadDevice(p) PROVE FileInv'
  BY <1>6 DEF UnloadDevice, Unload, End, ProcessEnds, GoTo
<1>7. ASSUME NEW p \in Proc, Die(p) PROVE FileInv'
  BY <1>7 DEF Die, End, ProcessEnds, ReadEnds, GoTo
<1>8. ASSUME NEW p \in Proc, MakeFile(p) PROVE FileInv'
  BY <1>8 DEF MakeFile, GoTo
<1>9. ASSUME NEW p \in Proc, FillFile(p) PROVE FileInv'
  BY <1>9 DEF FillFile, GoTo
<1>10. ASSUME NEW p \in Proc, PrepareThrows(p) PROVE FileInv'
  BY <1>10 DEF PrepareThrows, GoTo
<1>11. ASSUME NEW p \in Proc, Interrupt(p) PROVE FileInv'
  BY <1>11 DEF Interrupt, GoTo
<1>12. ASSUME NEW p \in Proc, ToolFindsNothing(p) PROVE FileInv'
  BY <1>12 DEF ToolFindsNothing, ToolRuns, ToolUnchanged, After, At, GoTo
<1>13. ASSUME NEW p \in Proc, Format(p) PROVE FileInv'
  BY <1>13 DEF Format, ToolRuns, ToolUnchanged, After, At, GoTo
<1>14. ASSUME NEW p \in Proc, CreateNdef(p) PROVE FileInv'
  BY <1>14 DEF CreateNdef, ToolRuns, ToolUnchanged, After, At, GoTo
<1>15. ASSUME NEW p \in Proc, WriteNdef(p) PROVE FileInv'
  BY <1>15 DEF WriteNdef, ToolRuns, ToolUnchanged, After, At, GoTo
<1>16. ASSUME NEW p \in Proc, ToolFails(p) PROVE FileInv'
  BY <1>16 DEF ToolFails, End, ProcessEnds, GoTo
<1>17. ASSUME NEW p \in Proc, AllDone(p) PROVE FileInv'
  BY <1>17 DEF AllDone, End, ProcessEnds, GoTo
<1>18. ASSUME NEW p \in Proc, Search(p) PROVE FileInv'
  BY <1>18 DEF Search, SkipTlv, Searching
<1>19. ASSUME NEW p \in Proc, ReadReturns(p) PROVE FileInv'
  BY <1>19 DEF ReadReturns, ReadEnds, TlvFound, Searching, GoTo
<1>20. ASSUME NEW p \in Proc, ReadThrows(p) PROVE FileInv'
  BY <1>20 DEF ReadThrows, ReadEnds, Searching, End, ProcessEnds, GoTo
<1>21. ASSUME NEW p \in Proc, Apdus(p) PROVE FileInv'
  BY <1>21 DEF Apdus, Dereferences, End, ProcessEnds, GoTo
<1>22. ASSUME NEW p \in Proc, Call(p) PROVE FileInv'
  BY <1>22 DEF Call, Construct, Exists, NfcOpen, Open, OpenFails, Close, Unload, Destroy
<1>23. ASSUME NEW p \in Proc, Crash(p) PROVE FileInv'
  BY <1>23 DEF Crash, End, ProcessEnds, GoTo
<1>24. ASSUME NEW p \in Proc, NEW c \in Container, BeginRead(p, c) PROVE FileInv'
  BY <1>24 DEF BeginRead, ReadContainer, GoTo
<1>25. ASSUME NEW c \in Card, PlaceCard(c) PROVE FileInv'
  BY <1>25 DEF PlaceCard
<1>26. CASE RemoveCard
  BY <1>26 DEF RemoveCard
<1>27. CASE UNCHANGED readerVars
  BY <1>27 DEF readerVars
<1>. QED
  BY <1>1, <1>2, <1>3, <1>4, <1>5, <1>6, <1>7, <1>8, <1>9, <1>10, <1>11, <1>12, <1>13, <1>14,
     <1>15, <1>16, <1>17, <1>18, <1>19, <1>20, <1>21, <1>22, <1>23, <1>24, <1>25, <1>26, <1>27
  DEF ReaderNext, World, Process, Write, Read

(* Every step keeps the history of the card scanned. *)
LEMMA StayedStep == ReaderTypeOK /\ StayedInv /\ [ReaderNext]_readerVars => StayedInv'
<1> SUFFICES ASSUME ReaderTypeOK /\ StayedInv, [ReaderNext]_readerVars PROVE StayedInv'
  OBVIOUS
<1> USE DeviceAssumption, ContainerAssumption, ToolsAssumption DEF ReaderTypeOK, StayedInv, End,
      GoTo, Locals, Cards, localVars, deviceVars, ndefVars, Places, TryBody, Finally, Tools
<1>1. ASSUME NEW p \in Proc, Construction(p) PROVE StayedInv'
  BY <1>1 DEF Construction, Construct, NfcOpen, Exists, GoTo
<1>2. ASSUME NEW p \in Proc, NoReader(p) PROVE StayedInv'
  BY <1>2 DEF NoReader, End, ProcessEnds, GoTo
<1>3. ASSUME NEW p \in Proc, ScanUid(p) PROVE StayedInv'
  BY <1>3 DEF ScanUid, Scans, GoTo
<1>4. ASSUME NEW p \in Proc, ScanThrows(p) PROVE StayedInv'
  BY <1>4 DEF ScanThrows, End, ProcessEnds, GoTo
<1>5. ASSUME NEW p \in Proc, CloseDevice(p) PROVE StayedInv'
  BY <1>5 DEF CloseDevice, Close, GoTo
<1>6. ASSUME NEW p \in Proc, UnloadDevice(p) PROVE StayedInv'
  BY <1>6 DEF UnloadDevice, Unload, End, ProcessEnds, GoTo
<1>7. ASSUME NEW p \in Proc, Die(p) PROVE StayedInv'
  BY <1>7 DEF Die, End, ProcessEnds, ReadEnds, GoTo
<1>8. ASSUME NEW p \in Proc, MakeFile(p) PROVE StayedInv'
  BY <1>8 DEF MakeFile, GoTo
<1>9. ASSUME NEW p \in Proc, FillFile(p) PROVE StayedInv'
  BY <1>9 DEF FillFile, GoTo
<1>10. ASSUME NEW p \in Proc, PrepareThrows(p) PROVE StayedInv'
  BY <1>10 DEF PrepareThrows, GoTo
<1>11. ASSUME NEW p \in Proc, Interrupt(p) PROVE StayedInv'
  BY <1>11 DEF Interrupt, GoTo
<1>12. ASSUME NEW p \in Proc, ToolFindsNothing(p) PROVE StayedInv'
  BY <1>12 DEF ToolFindsNothing, ToolRuns, ToolUnchanged, After, At, GoTo
<1>13. ASSUME NEW p \in Proc, Format(p) PROVE StayedInv'
  BY <1>13 DEF Format, ToolRuns, ToolUnchanged, After, At, GoTo
<1>14. ASSUME NEW p \in Proc, CreateNdef(p) PROVE StayedInv'
  BY <1>14 DEF CreateNdef, ToolRuns, ToolUnchanged, After, At, GoTo
<1>15. ASSUME NEW p \in Proc, WriteNdef(p) PROVE StayedInv'
  BY <1>15 DEF WriteNdef, ToolRuns, ToolUnchanged, After, At, GoTo
<1>16. ASSUME NEW p \in Proc, ToolFails(p) PROVE StayedInv'
  BY <1>16 DEF ToolFails, End, ProcessEnds, GoTo
<1>17. ASSUME NEW p \in Proc, AllDone(p) PROVE StayedInv'
  BY <1>17 DEF AllDone, End, ProcessEnds, GoTo
<1>18. ASSUME NEW p \in Proc, Search(p) PROVE StayedInv'
  BY <1>18 DEF Search, SkipTlv, Searching
<1>19. ASSUME NEW p \in Proc, ReadReturns(p) PROVE StayedInv'
  BY <1>19 DEF ReadReturns, ReadEnds, TlvFound, Searching, GoTo
<1>20. ASSUME NEW p \in Proc, ReadThrows(p) PROVE StayedInv'
  BY <1>20 DEF ReadThrows, ReadEnds, Searching, End, ProcessEnds, GoTo
<1>21. ASSUME NEW p \in Proc, Apdus(p) PROVE StayedInv'
  BY <1>21 DEF Apdus, Dereferences, End, ProcessEnds, GoTo
<1>22. ASSUME NEW p \in Proc, Call(p) PROVE StayedInv'
  BY <1>22 DEF Call, Construct, Exists, NfcOpen, Open, OpenFails, Close, Unload, Destroy
<1>23. ASSUME NEW p \in Proc, Crash(p) PROVE StayedInv'
  BY <1>23 DEF Crash, End, ProcessEnds, GoTo
<1>24. ASSUME NEW p \in Proc, NEW c \in Container, BeginRead(p, c) PROVE StayedInv'
  BY <1>24 DEF BeginRead, ReadContainer, GoTo
<1>25. ASSUME NEW c \in Card, PlaceCard(c) PROVE StayedInv'
  BY <1>25 DEF PlaceCard
<1>26. CASE RemoveCard
  BY <1>26 DEF RemoveCard
<1>27. CASE UNCHANGED readerVars
  BY <1>27 DEF readerVars
<1>. QED
  BY <1>1, <1>2, <1>3, <1>4, <1>5, <1>6, <1>7, <1>8, <1>9, <1>10, <1>11, <1>12, <1>13, <1>14,
     <1>15, <1>16, <1>17, <1>18, <1>19, <1>20, <1>21, <1>22, <1>23, <1>24, <1>25, <1>26, <1>27
  DEF ReaderNext, World, Process, Write, Read

(* Every step keeps the reader with the scripts. *)
LEMMA ScriptStep ==
  ReaderTypeOK /\ DeviceInv /\ ProgramInv /\ ScriptInv /\ [ReaderNext]_readerVars => ScriptInv'
<1> SUFFICES ASSUME ReaderTypeOK /\ DeviceInv /\ ProgramInv /\ ScriptInv,
      [ReaderNext]_readerVars PROVE ScriptInv'
  OBVIOUS
<1> USE DeviceAssumption, ContainerAssumption, ToolsAssumption DEF ReaderTypeOK, DeviceInv,
      Object, NoObject, ProgramInv, ScriptInv, Opened, End, ProcessEnds, GoTo, Locals, Cards,
            localVars, deviceVars, ndefVars, Places, TryBody, Finally, Tools
<1>1. ASSUME NEW p \in Proc, Construction(p) PROVE ScriptInv'
  BY <1>1 DEF Construction, Construct, NfcOpen, Exists, GoTo
<1>2. ASSUME NEW p \in Proc, NoReader(p) PROVE ScriptInv'
  BY <1>2 DEF NoReader, End, ProcessEnds, GoTo
<1>3. ASSUME NEW p \in Proc, ScanUid(p) PROVE ScriptInv'
  BY <1>3 DEF ScanUid, Scans, GoTo
<1>4. ASSUME NEW p \in Proc, ScanThrows(p) PROVE ScriptInv'
  BY <1>4 DEF ScanThrows, End, ProcessEnds, GoTo
<1>5. ASSUME NEW p \in Proc, CloseDevice(p) PROVE ScriptInv'
  BY <1>5 DEF CloseDevice, Close, GoTo
<1>6. ASSUME NEW p \in Proc, UnloadDevice(p) PROVE ScriptInv'
  BY <1>6 DEF UnloadDevice, Unload, End, ProcessEnds, GoTo
<1>7. ASSUME NEW p \in Proc, Die(p) PROVE ScriptInv'
  BY <1>7 DEF Die, End, ProcessEnds, ReadEnds, GoTo
<1>8. ASSUME NEW p \in Proc, MakeFile(p) PROVE ScriptInv'
  BY <1>8 DEF MakeFile, GoTo
<1>9. ASSUME NEW p \in Proc, FillFile(p) PROVE ScriptInv'
  BY <1>9 DEF FillFile, GoTo
<1>10. ASSUME NEW p \in Proc, PrepareThrows(p) PROVE ScriptInv'
  BY <1>10 DEF PrepareThrows, GoTo
<1>11. ASSUME NEW p \in Proc, Interrupt(p) PROVE ScriptInv'
  BY <1>11 DEF Interrupt, GoTo
<1>12. ASSUME NEW p \in Proc, ToolFindsNothing(p) PROVE ScriptInv'
  BY <1>12 DEF ToolFindsNothing, ToolRuns, ToolUnchanged, After, At, GoTo
<1>13. ASSUME NEW p \in Proc, Format(p) PROVE ScriptInv'
  BY <1>13 DEF Format, ToolRuns, ToolUnchanged, After, At, GoTo
<1>14. ASSUME NEW p \in Proc, CreateNdef(p) PROVE ScriptInv'
  BY <1>14 DEF CreateNdef, ToolRuns, ToolUnchanged, After, At, GoTo
<1>15. ASSUME NEW p \in Proc, WriteNdef(p) PROVE ScriptInv'
  BY <1>15 DEF WriteNdef, ToolRuns, ToolUnchanged, After, At, GoTo
<1>16. ASSUME NEW p \in Proc, ToolFails(p) PROVE ScriptInv'
  BY <1>16 DEF ToolFails, End, ProcessEnds, GoTo
<1>17. ASSUME NEW p \in Proc, AllDone(p) PROVE ScriptInv'
  BY <1>17 DEF AllDone, End, ProcessEnds, GoTo
<1>18. ASSUME NEW p \in Proc, Search(p) PROVE ScriptInv'
  BY <1>18 DEF Search, SkipTlv, Searching
<1>19. ASSUME NEW p \in Proc, ReadReturns(p) PROVE ScriptInv'
  BY <1>19 DEF ReadReturns, ReadEnds, TlvFound, Searching, GoTo
<1>20. ASSUME NEW p \in Proc, ReadThrows(p) PROVE ScriptInv'
  BY <1>20 DEF ReadThrows, ReadEnds, Searching, End, ProcessEnds, GoTo
<1>21. ASSUME NEW p \in Proc, Apdus(p) PROVE ScriptInv'
  BY <1>21 DEF Apdus, Dereferences, End, ProcessEnds, GoTo
<1>22. ASSUME NEW p \in Proc, Call(p) PROVE ScriptInv'
  BY <1>22 DEF Call, Construct, Exists, NfcOpen, Open, OpenFails, Close, Unload, Destroy
<1>23. ASSUME NEW p \in Proc, Crash(p) PROVE ScriptInv'
  BY <1>23 DEF Crash, End, ProcessEnds, GoTo
<1>24. ASSUME NEW p \in Proc, NEW c \in Container, BeginRead(p, c) PROVE ScriptInv'
  BY <1>24 DEF BeginRead, ReadContainer, GoTo
<1>25. ASSUME NEW c \in Card, PlaceCard(c) PROVE ScriptInv'
  BY <1>25 DEF PlaceCard
<1>26. CASE RemoveCard
  BY <1>26 DEF RemoveCard
<1>27. CASE UNCHANGED readerVars
  BY <1>27 DEF readerVars
<1>. QED
  BY <1>1, <1>2, <1>3, <1>4, <1>5, <1>6, <1>7, <1>8, <1>9, <1>10, <1>11, <1>12, <1>13, <1>14,
     <1>15, <1>16, <1>17, <1>18, <1>19, <1>20, <1>21, <1>22, <1>23, <1>24, <1>25, <1>26, <1>27
  DEF ReaderNext, World, Process, Write, Read

(* One process searches at a time. *)
LEMMA OneSearch ==
  ASSUME DeviceInv, SearchInv, NEW p \in Proc, NEW q \in Proc,
         pc[q] = "search", object[p].device
  PROVE  p = q
BY DEF DeviceInv, SearchInv

(* A step of the search is a step of the walk, and does not wrap. *)
LEMMA SkipFollowsWalk ==
  ASSUME ReaderTypeOK, cc \in Container, SkipTlv, FitsOffset(cc),
         \E k \in 1..Len(Starts[cc]) : off = Starts[cc][k]
  PROVE  /\ \E k \in 1..Len(Starts[cc]) : off' = Starts[cc][k]
         /\ off' = off + Octets[cc][off + 1] + 2
<1>1. PICK k \in 1..Len(Starts[cc]) : off = Starts[cc][k]
  OBVIOUS
<1>2. Walk(cc, Starts[cc]) /\ Searching(cc, off)
  BY ContainerAssumption, SkipTypes
<1>3. k # Len(Starts[cc]) /\ Len(Starts[cc]) \in Nat
  BY <1>1, <1>2 DEF Walk
<1>4. k \in 1..(Len(Starts[cc]) - 1) /\ k + 1 \in 1..Len(Starts[cc])
  BY <1>3
<1>5. Starts[cc][k + 1] = off + Octets[cc][off + 1] + 2
  BY <1>1, <1>2, <1>4 DEF Walk
<1>6. off' = Starts[cc][k + 1] /\ off' = off + Octets[cc][off + 1] + 2
  BY <1>4, <1>5, SkipTypes DEF FitsOffset
<1>. QED
  BY <1>4, <1>6

(* A process moves its own control only. *)
LEMMA PcFrame ==
  ASSUME pc \in [Proc -> Places], NEW p \in Proc, Process(p)
  PROVE  \A q \in Proc \ {p} : pc'[q] = pc[q]
BY DEF Process, Write, Read, GoTo, End, Construction, NoReader, ScanUid, ScanThrows,
   CloseDevice, UnloadDevice, Die, MakeFile, FillFile, PrepareThrows, Interrupt,
   ToolFindsNothing, Format, CreateNdef, WriteNdef, ToolFails, AllDone, ToolRuns, Search,
   ReadReturns, ReadThrows, BeginRead, Apdus, Call, Crash

(* Nothing but Search and BeginRead leaves a process searching, and nothing *)
(* but a process that searches changes the locals of the search.           *)
LEMMA Elsewhere ==
  ASSUME pc \in [Proc -> Places], NEW p \in Proc, Process(p), ~Search(p),
         \A c \in Container : ~BeginRead(p, c)
  PROVE  /\ pc'[p] # "search"
         /\ pc[p] = "search" \/ UNCHANGED ndefVars
<1> USE DEF GoTo, End, Places, TryBody, Finally, Tools
<1>1. CASE \/ Construction(p) \/ NoReader(p) \/ ScanUid(p) \/ ScanThrows(p)
           \/ CloseDevice(p) \/ UnloadDevice(p) \/ Die(p)
  BY <1>1 DEF Construction, NoReader, ScanUid, ScanThrows, CloseDevice, UnloadDevice, Die
<1>2. CASE Write(p)
  BY <1>2 DEF Write, MakeFile, FillFile, PrepareThrows, Interrupt, ToolFindsNothing, Format,
     CreateNdef, WriteNdef, ToolFails, AllDone, ToolRuns, ToolUnchanged, After, At
<1>3. CASE ReadReturns(p) \/ ReadThrows(p) \/ Apdus(p) \/ Call(p) \/ Crash(p)
  BY <1>3 DEF ReadReturns, ReadThrows, Apdus, Call, Crash
<1>. QED
  BY <1>1, <1>2, <1>3 DEF Process, Read

(* Every step keeps the search on its way. *)
LEMMA SearchStep ==
  ReaderTypeOK /\ DeviceInv /\ SearchInv /\ [ReaderNext]_readerVars => SearchInv'
<1> SUFFICES ASSUME ReaderTypeOK, DeviceInv, SearchInv, [ReaderNext]_readerVars
             PROVE  SearchInv'
  OBVIOUS
<1>1. object \in [Proc -> Object] /\ pc \in [Proc -> Places]
  BY DEF ReaderTypeOK
<1>2. ASSUME NEW p \in Proc, Search(p) PROVE SearchInv'
  <2>1. /\ cc \in Container /\ pc[p] = "search" /\ SkipTlv
        /\ UNCHANGED <<cc, pc, object>>
    BY <1>2 DEF Search, SkipTlv, SearchInv, deviceVars
  <2>2. FitsOffset(cc) => \E k \in 1..Len(Starts[cc]) : off' = Starts[cc][k]
    BY <2>1, SkipFollowsWalk DEF SearchInv
  <2>. QED
    BY <2>1, <2>2 DEF SearchInv
<1>3. ASSUME NEW p \in Proc, NEW c \in Container, BeginRead(p, c) PROVE SearchInv'
  <2>1. \A q \in Proc : pc[q] # "search"
    BY <1>3, OneSearch DEF BeginRead
  <2>2. Starts[c] \in Seq(Nat) /\ Starts[c] # <<>> /\ Starts[c][1] = 7
    BY ContainerAssumption DEF Walk
  <2>3. 1 \in 1..Len(Starts[c])
    BY <2>2
  <2>. QED
    BY <1>1, <1>3, <2>1, <2>2, <2>3 DEF BeginRead, ReadContainer, GoTo, SearchInv, deviceVars
<1>4. ASSUME NEW p \in Proc, Process(p), ~Search(p), \A c \in Container : ~BeginRead(p, c)
      PROVE  SearchInv'
  <2> SUFFICES ASSUME NEW q \in Proc, pc'[q] = "search"
               PROVE  /\ object'[q].device /\ cc' \in Container
                      /\ FitsOffset(cc)' => \E k \in 1..Len(Starts[cc']) : off' = Starts[cc'][k]
    BY DEF SearchInv
  <2>1. q # p /\ pc[q] = "search" /\ (pc[p] = "search" \/ UNCHANGED ndefVars)
    BY <1>1, <1>4, PcFrame, Elsewhere
  <2>2. UNCHANGED ndefVars
    BY <2>1, OneSearch DEF SearchInv
  <2>3. object'[q] = object[q]
    BY <1>1, <1>4, <2>1, ProcessMethod, MethodFrame
  <2>. QED
    BY <2>1, <2>2, <2>3 DEF SearchInv, ndefVars, FitsOffset
<1>5. CASE World \/ UNCHANGED readerVars
  BY <1>5 DEF World, PlaceCard, RemoveCard, SearchInv, FitsOffset, readerVars, deviceVars,
        ndefVars
<1>. QED
  BY <1>2, <1>3, <1>4, <1>5 DEF ReaderNext

(***************************************************************************)
(* The theorems.                                                           *)
(***************************************************************************)
(* The initial states satisfy the invariant. *)
LEMMA Initial == ReaderInit => ReaderInv
<1> SUFFICES ASSUME ReaderInit PROVE ReaderInv
  OBVIOUS
<1> USE ToolsAssumption DEF ReaderInit, DeviceInit, NdefInit
<1>1. ReaderTypeOK
  <2>1. object \in [Proc -> Object]
    BY DEF Object, NoObject
  <2>2. off \in Byte
    BY DEF Byte, Width
  <2>3. pc \in [Proc -> Places]
    BY DEF Places, TryBody
  <2>4. content \in [Card -> Card \cup {NoCard, Blank, App}]
    OBVIOUS
  <2>. QED
    BY <2>1, <2>2, <2>3, <2>4 DEF ReaderTypeOK
<1>2. DeviceInv /\ SearchInv /\ StayedInv
  BY DEF DeviceInv, SearchInv, StayedInv, NoObject
<1>3. ProgramInv
  BY DEF ProgramInv, Tools, Finally
<1>4. ScriptInv
  BY DeviceAssumption DEF ScriptInv, Tools
<1>5. FileInv
  BY DEF FileInv, TryBody, Finally, Tools
<1>. QED
  BY <1>1, <1>2, <1>3, <1>4, <1>5 DEF ReaderInv

(* The invariant holds of the processes, the reader and the search. *)
THEOREM ReaderInvariance == ReaderSpec => []ReaderInv
<1>1. ReaderInit => ReaderInv
  BY Initial
<1>2. ReaderInv /\ [ReaderNext]_readerVars => ReaderInv'
  BY TypeStep, DeviceStep, ProgramStep, ScriptStep, SearchStep, FileStep, StayedStep DEF ReaderInv
<1>. QED
  BY <1>1, <1>2, PTL DEF ReaderSpec

(* Type correctness, of programs that use the reader in any way. *)
THEOREM ReaderTypeCorrect == ReaderSpec => []ReaderTypeOK
<1>1. ReaderInv => ReaderTypeOK
  BY DEF ReaderInv
<1>. QED
  BY <1>1, ReaderInvariance, PTL

(* NFCDevice: in whatever order its methods are called by however many      *)
(* processes, an object that says it is opened has the reader.             *)
THEOREM OpenedHoldsTheorem == ReaderSpec => []OpenedHolds
<1>1. ReaderInv => OpenedHolds
  BY DEF ReaderInv, DeviceInv, OpenedHolds, Opened
<1>. QED
  BY <1>1, ReaderInvariance, PTL

(* write_signed_ndef_on_desfire.py: the tools find the reader released. *)
THEOREM ReleasedForToolsTheorem == ReaderSpec => []ReleasedForTools
<1>1. ReaderInv => ReleasedForTools
  BY DEF ReaderInv, ScriptInv, ReleasedForTools
<1>. QED
  BY <1>1, ReaderInvariance, PTL

(* test_nfc.py: the unchecked methods are called on an open device. *)
THEOREM CalledOnOpenDeviceTheorem == ReaderSpec => []CalledOnOpenDevice
<1>1. ReaderInv => CalledOnOpenDevice
  BY DEF ReaderInv, ScriptInv, CalledOnOpenDevice
<1>. QED
  BY <1>1, ReaderInvariance, PTL

(* write_signed_ndef_on_desfire.py: an error leaves no file behind. *)
THEOREM ErrorLeavesNoFileTheorem == ReaderSpec => []ErrorLeavesNoFile
<1>1. ReaderInv => ErrorLeavesNoFile
  BY DEF ReaderInv, FileInv, ErrorLeavesNoFile
<1>. QED
  BY <1>1, ReaderInvariance, PTL

(* readDesfireNDEF: a search that is over, in a container whose offsets fit *)
(* eight bits, has come to the end of the walk: every earlier TLV is one    *)
(* the search goes on from.                                                *)
THEOREM SearchExactTheorem == ReaderSpec => []SearchExact
<1>1. ReaderInv => SearchExact
  <2> SUFFICES ASSUME ReaderInv, NEW p \in Proc, pc[p] = "search", ~Searching(cc, off),
                      FitsOffset(cc)
               PROVE  off = Starts[cc][Len(Starts[cc])]
    BY DEF SearchExact
  <2>1. PICK k \in 1..Len(Starts[cc]) : off = Starts[cc][k]
    BY DEF ReaderInv, SearchInv
  <2>2. Walk(cc, Starts[cc])
    BY ContainerAssumption DEF ReaderInv, SearchInv
  <2>3. Len(Starts[cc]) \in Nat
    BY <2>2 DEF Walk
  <2>4. k \notin 1..(Len(Starts[cc]) - 1)
    BY <2>1, <2>2 DEF Walk
  <2>. QED
    BY <2>1, <2>3, <2>4
<1>. QED
  BY <1>1, ReaderInvariance, PTL

(* Only the last tool brings the script to its end. *)
LEMMA DoneByTool ==
  ASSUME pc \in [Proc -> Places], NEW p \in Proc, Process(p), pc[p] = "write", pc'[p] = "done"
  PROVE  ToolFindsNothing(p) \/ WriteNdef(p)
<1> USE DEF GoTo, End, TryBody, Finally, Tools
<1>1. ~(\/ Construction(p) \/ NoReader(p) \/ ScanUid(p) \/ ScanThrows(p)
        \/ CloseDevice(p) \/ UnloadDevice(p) \/ Die(p))
  BY DEF Construction, NoReader, ScanUid, ScanThrows, CloseDevice, UnloadDevice, Die
<1>2. ~(Read(p) \/ Apdus(p) \/ Call(p) \/ Crash(p))
  BY DEF Read, Search, ReadReturns, ReadThrows, BeginRead, Apdus, Call, Crash
<1>3. ~(\/ MakeFile(p) \/ FillFile(p) \/ PrepareThrows(p) \/ Interrupt(p) \/ Format(p)
        \/ CreateNdef(p) \/ ToolFails(p) \/ AllDone(p))
  BY DEF MakeFile, FillFile, PrepareThrows, Interrupt, Format, CreateNdef, ToolFails, AllDone,
     ToolRuns, At
<1>. QED
  BY <1>1, <1>2, <1>3 DEF Process, Write

(* write_signed_ndef_on_desfire.py: a run that gets through its tools, with *)
(* the card it scanned still in the field, leaves its signature on it.      *)
THEOREM DoneMeansSignedTheorem == ReaderSpec => DoneMeansSigned
<1> DEFINE Signed == \A p \in Proc : pc[p] = "write" /\ pc'[p] = "done" /\ stayed[p]
                                        => content'[uid[p]] = uid[p]
<1>1. ReaderInv /\ [ReaderNext]_readerVars => [Signed]_readerVars
  <2> SUFFICES ASSUME ReaderInv, ReaderNext, NEW p \in Proc,
                      pc[p] = "write", pc'[p] = "done", stayed[p]
               PROVE  content'[uid[p]] = uid[p]
    OBVIOUS
  <2>1. /\ pc \in [Proc -> Places] /\ content \in [Card -> Card \cup {NoCard, Blank, App}]
        /\ uid[p] \in Card /\ field = uid[p] /\ field # NoCard /\ file[p] = uid[p]
    BY DeviceAssumption DEF ReaderInv, ReaderTypeOK, StayedInv, FileInv, Tools
  <2>2. ASSUME NEW q \in Proc, Process(q) PROVE WriteNdef(p)
    <3>1. q = p
      BY <2>1, <2>2, PcFrame
    <3>. QED
      BY <2>1, <2>2, <3>1, DoneByTool DEF ToolFindsNothing
  <2>3. WriteNdef(p)
    BY <2>1, <2>2 DEF ReaderNext, World, PlaceCard, RemoveCard
  <2>. QED
    BY <2>1, <2>3 DEF WriteNdef
<1>. QED
  BY <1>1, ReaderInvariance, PTL DEF ReaderSpec, DoneMeansSigned

(* readDesfireNDEF: in a container whose offsets fit eight bits, a search   *)
(* only ever goes on inside the container and forwards, by the two octets   *)
(* of tag and length at least, and no other process disturbs it.            *)
SearchAdvances ==
    [][\A p \in Proc :
         pc[p] = "search" /\ FitsOffset(cc) /\ pc'[p] = "search" /\ <<cc, off>>' # <<cc, off>> =>
             cc' = cc /\ off + 2 <= off' /\ off + 7 < Size[cc]]_readerVars

(* A step of the search moves on by tag, length and content. *)
LEMMA SkipAdvances ==
  ASSUME ReaderTypeOK, cc \in Container, SkipTlv, FitsOffset(cc),
         \E k \in 1..Len(Starts[cc]) : off = Starts[cc][k]
  PROVE  off + 2 <= off' /\ off + 7 < Size[cc]
<1>1. off' = off + Octets[cc][off + 1] + 2
  BY SkipFollowsWalk
<1>2. off \in Nat /\ Octets[cc][off + 1] \in Nat /\ Searching(cc, off)
  BY SkipTypes DEF ReaderTypeOK, Byte
<1>3. off + 2 <= off'
  <2> DEFINE length == Octets[cc][off + 1]
  <2> HIDE DEF length
  <2>1. off' = off + length + 2 /\ length \in Nat
    BY <1>1, <1>2 DEF length
  <2>. QED
    BY <1>2, <2>1
<1>. QED
  BY <1>2, <1>3 DEF Searching

(* A search takes at most one step for every two octets of the container: *)
(* SearchEnds then only needs the process to run.                         *)
THEOREM SearchAdvancesTheorem == ReaderSpec => SearchAdvances
<1> DEFINE Advance == \A p \in Proc :
         pc[p] = "search" /\ FitsOffset(cc) /\ pc'[p] = "search" /\ <<cc, off>>' # <<cc, off>> =>
             cc' = cc /\ off + 2 <= off' /\ off + 7 < Size[cc]
<1>1. ReaderInv /\ [ReaderNext]_readerVars => [Advance]_readerVars
  <2> SUFFICES ASSUME ReaderInv, ReaderNext, NEW p \in Proc, pc[p] = "search", FitsOffset(cc),
                      pc'[p] = "search", <<cc, off>>' # <<cc, off>>
               PROVE  cc' = cc /\ off + 2 <= off' /\ off + 7 < Size[cc]
    OBVIOUS
  <2>1. ReaderTypeOK /\ DeviceInv /\ SearchInv /\ pc \in [Proc -> Places]
    BY DEF ReaderInv, ReaderTypeOK
  <2>2. ~World
    BY DEF World, PlaceCard, RemoveCard, ndefVars
  <2>3. PICK q \in Proc : Process(q)
    BY <2>2 DEF ReaderNext
  <2>4. CASE Search(q)
    <3>1. cc \in Container /\ SkipTlv /\ UNCHANGED cc
      BY <2>1, <2>4 DEF Search, SkipTlv, SearchInv
    <3>. QED
      BY <2>1, <3>1, SkipAdvances DEF SearchInv
  <2>5. ASSUME NEW c \in Container, BeginRead(q, c) PROVE FALSE
    BY <2>1, <2>5, OneSearch DEF BeginRead
  <2>6. CASE ~Search(q) /\ \A c \in Container : ~BeginRead(q, c)
    <3>1. pc'[q] # "search" /\ (pc[q] = "search" \/ UNCHANGED ndefVars)
      BY <2>1, <2>3, <2>6, Elsewhere
    <3>2. p # q /\ pc[q] = "search"
      BY <3>1 DEF ndefVars
    <3>. QED
      BY <2>1, <3>2, OneSearch DEF SearchInv
  <2>. QED
    BY <2>4, <2>5, <2>6
<1>. QED
  BY <1>1, ReaderInvariance, PTL DEF ReaderSpec, SearchAdvances
==============================================================================
