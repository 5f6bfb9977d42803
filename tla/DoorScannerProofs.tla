-------------------------- MODULE DoorScannerProofs --------------------------
(***************************************************************************)
(* Proofs about DoorScanner, for every set of cards, keys and database     *)
(* contents and without the bounds mattering: type correctness, the safety *)
(* properties, and that the thread implements AccessPromise.               *)
(***************************************************************************)
EXTENDS DoorScanner, TLAPS

(***************************************************************************)
(* The invariant.  What was read from the database in an earlier step of a *)
(* visit is still true of one content seen since the scan: this is what    *)
(* lets a later step act on it without reading it again.                   *)
(***************************************************************************)
Acting == {"tell", "put", "unlock", "held", "denyWait"}

(* Where control is, and what the locals hold there. *)
ControlInv ==
    /\ InVisit <=> spc \in Deciding \cup Acting
    /\ spc \in Acting <=> verdict # "none"
    /\ spc \in {"unlock", "held"} => verdict = "granted"
    /\ spc = "denyWait" => verdict = "denied"

(* The histories cover the present. *)
SeenInv ==
    /\ InVisit => db \in dbSeen /\ (field # NoCard => field \in shown)
    /\ ~InVisit => dbSeen = {} /\ shown = {}

(* What the thread knows of its visitor. *)
KnowledgeInv ==
    /\ spc \in {"hmacSelect", "hmacChallenge"} =>
           key # NoKey /\ \E d \in dbSeen : d.hmac[uid] = key
    /\ spc = "ndefRead" => \E d \in dbSeen : uid \in d.desfire
    /\ spc \in Deciding \ {"uidQuery"} => \E d \in dbSeen : ~ByUid(d, uid)
    /\ verdict = "granted" => \E d \in dbSeen : Entitles(d, uid, shown)
    /\ verdict = "denied" => \E d \in dbSeen : ~ByUid(d, uid)

(* The pin and the way out. *)
ExitInv ==
    /\ spc \in Closing => interrupts > 0
    /\ spc = "kiLock" => nfc = "unloaded"
    /\ spc = "held" => pin = 1
    /\ CleanExit
    /\ LockedBetweenVisits

IInv == ScannerTypeOK /\ ControlInv /\ SeenInv /\ KnowledgeInv /\ ExitInv

(* Every step keeps the types. *)
LEMMA TypeStep == ScannerTypeOK /\ ControlInv /\ [DoorNext]_doorVars => ScannerTypeOK'
<1> SUFFICES ASSUME ScannerTypeOK /\ ControlInv, [DoorNext]_doorVars PROVE ScannerTypeOK'
  OBVIOUS
<1> USE DoorAssumption DEF ScannerTypeOK, ControlInv, Database, InVisit, Querying, Deciding,
      TryBody, Closing, Stopped, Acting,
     threadVars, worldVars, seenVars, boundVars, scannerVars, sharedVars
<1>1. CASE Start
  BY <1>1 DEF Start, Internal
<1>2. CASE StartFails
  BY <1>2 DEF StartFails, GoTo, Internal
<1>3. CASE ScanUID
  BY <1>3 DEF ScanUID
<1>4. CASE ScanEmpty
  BY <1>4 DEF ScanEmpty, GoTo, Internal
<1>5. CASE Pause
  BY <1>5 DEF Pause, GoTo, Internal
<1>6. CASE ScanFails
  BY <1>6 DEF ScanFails, Internal
<1>7. CASE Backoff
  BY <1>7 DEF Backoff, GoTo, Internal
<1>8. CASE FetchUidRecord
  BY <1>8 DEF FetchUidRecord, Decide, GoTo, Internal
<1>9. CASE HmacQuery
  BY <1>9 DEF HmacQuery, Internal
<1>10. CASE HmacSelect
  BY <1>10 DEF HmacSelect, GoTo, Internal
<1>11. CASE HmacChallenge
  BY <1>11 DEF HmacChallenge, Decide, Internal
<1>12. CASE HmacFails
  BY <1>12 DEF HmacFails, GoTo, Internal
<1>13. CASE DesfireQuery
  BY <1>13 DEF DesfireQuery, Decide, GoTo, Internal
<1>14. CASE NdefVerified
  BY <1>14 DEF NdefVerified, NdefSignature, Decide, Internal
<1>15. CASE NdefRefused
  BY <1>15 DEF NdefRefused, Decide, Internal
<1>16. CASE UnexpectedException
  BY <1>16 DEF UnexpectedException, EndVisit, Internal
<1>17. CASE SendIrcMessage
  BY <1>17 DEF SendIrcMessage, GoTo, AfterTelling, Internal
<1>18. CASE PutMessage
  BY <1>18 DEF PutMessage, GoTo, AfterTelling
<1>19. CASE Unlock
  BY <1>19 DEF Unlock, Internal
<1>20. CASE Relock
  BY <1>20 DEF Relock, EndVisit, Internal
<1>21. CASE DenyWait
  BY <1>21 DEF DenyWait, EndVisit, Internal
<1>22. CASE KeyboardInterrupt
  BY <1>22 DEF KeyboardInterrupt, EndVisit, Interruptible
<1>23. CASE UncaughtInterrupt
  BY <1>23 DEF UncaughtInterrupt, GoTo, Interruptible
<1>24. CASE CloseReader
  BY <1>24 DEF CloseReader, Internal
<1>25. CASE UnloadReader
  BY <1>25 DEF UnloadReader, Internal
<1>26. CASE LockAndExit
  BY <1>26 DEF LockAndExit, Internal
<1>27. CASE Kill
  BY <1>27 DEF Kill, EndVisit
<1>28. CASE Restart
  BY <1>28 DEF Restart
<1>29. ASSUME NEW c \in Card, PlaceCard(c) PROVE ScannerTypeOK'
  BY <1>29 DEF PlaceCard
<1>30. CASE RemoveCard
  BY <1>30 DEF RemoveCard
<1>31. ASSUME NEW d \in DbVersions, CommitDb(d) PROVE ScannerTypeOK'
  BY <1>31 DEF CommitDb
<1>32. CASE IrcHolds
  BY <1>32 DEF IrcHolds
<1>33. CASE IrcReleases
  BY <1>33 DEF IrcReleases
<1>34. CASE UNCHANGED doorVars
  BY <1>34 DEF doorVars
<1>. QED
  BY <1>1, <1>2, <1>3, <1>4, <1>5, <1>6, <1>7, <1>8, <1>9, <1>10, <1>11, <1>12,
     <1>13, <1>14, <1>15, <1>16, <1>17, <1>18, <1>19, <1>20, <1>21, <1>22, <1>23, <1>24,
     <1>25, <1>26, <1>27, <1>28, <1>29, <1>30, <1>31, <1>32, <1>33, <1>34
  DEF DoorNext, ScannerStep, Deliberate, Shutdown, Process, World

(* Every step keeps control and locals together. *)
LEMMA ControlStep == ScannerTypeOK /\ ControlInv /\ [DoorNext]_doorVars => ControlInv'
<1> SUFFICES ASSUME ScannerTypeOK /\ ControlInv, [DoorNext]_doorVars PROVE ControlInv'
  OBVIOUS
<1> USE DoorAssumption DEF ScannerTypeOK, ControlInv, InVisit, Querying, Deciding, TryBody,
      Closing, Stopped, Acting,
     threadVars, worldVars, seenVars, boundVars, scannerVars, sharedVars
<1>1. CASE Start
  BY <1>1 DEF Start, Internal
<1>2. CASE StartFails
  BY <1>2 DEF StartFails, GoTo, Internal
<1>3. CASE ScanUID
  BY <1>3 DEF ScanUID
<1>4. CASE ScanEmpty
  BY <1>4 DEF ScanEmpty, GoTo, Internal
<1>5. CASE Pause
  BY <1>5 DEF Pause, GoTo, Internal
<1>6. CASE ScanFails
  BY <1>6 DEF ScanFails, Internal
<1>7. CASE Backoff
  BY <1>7 DEF Backoff, GoTo, Internal
<1>8. CASE FetchUidRecord
  BY <1>8 DEF FetchUidRecord, Decide, GoTo, Internal
<1>9. CASE HmacQuery
  BY <1>9 DEF HmacQuery, Internal
<1>10. CASE HmacSelect
  BY <1>10 DEF HmacSelect, GoTo, Internal
<1>11. CASE HmacChallenge
  BY <1>11 DEF HmacChallenge, Decide, Internal
<1>12. CASE HmacFails
  BY <1>12 DEF HmacFails, GoTo, Internal
<1>13. CASE DesfireQuery
  BY <1>13 DEF DesfireQuery, Decide, GoTo, Internal
<1>14. CASE NdefVerified
  BY <1>14 DEF NdefVerified, NdefSignature, Decide, Internal
<1>15. CASE NdefRefused
  BY <1>15 DEF NdefRefused, Decide, Internal
<1>16. CASE UnexpectedException
  BY <1>16 DEF UnexpectedException, EndVisit, Internal
<1>17. CASE SendIrcMessage
  BY <1>17 DEF SendIrcMessage, GoTo, AfterTelling, Internal
<1>18. CASE PutMessage
  BY <1>18 DEF PutMessage, GoTo, AfterTelling
<1>19. CASE Unlock
  BY <1>19 DEF Unlock, Internal
<1>20. CASE Relock
  BY <1>20 DEF Relock, EndVisit, Internal
<1>21. CASE DenyWait
  BY <1>21 DEF DenyWait, EndVisit, Internal
<1>22. CASE KeyboardInterrupt
  BY <1>22 DEF KeyboardInterrupt, EndVisit, Interruptible
<1>23. CASE UncaughtInterrupt
  BY <1>23 DEF UncaughtInterrupt, GoTo, Interruptible
<1>24. CASE CloseReader
  BY <1>24 DEF CloseReader, Internal
<1>25. CASE UnloadReader
  BY <1>25 DEF UnloadReader, Internal
<1>26. CASE LockAndExit
  BY <1>26 DEF LockAndExit, Internal
<1>27. CASE Kill
  BY <1>27 DEF Kill, EndVisit
<1>28. CASE Restart
  BY <1>28 DEF Restart
<1>29. ASSUME NEW c \in Card, PlaceCard(c) PROVE ControlInv'
  BY <1>29 DEF PlaceCard
<1>30. CASE RemoveCard
  BY <1>30 DEF RemoveCard
<1>31. ASSUME NEW d \in DbVersions, CommitDb(d) PROVE ControlInv'
  BY <1>31 DEF CommitDb
<1>32. CASE IrcHolds
  BY <1>32 DEF IrcHolds
<1>33. CASE IrcReleases
  BY <1>33 DEF IrcReleases
<1>34. CASE UNCHANGED doorVars
  BY <1>34 DEF doorVars
<1>. QED
  BY <1>1, <1>2, <1>3, <1>4, <1>5, <1>6, <1>7, <1>8, <1>9, <1>10, <1>11, <1>12,
     <1>13, <1>14, <1>15, <1>16, <1>17, <1>18, <1>19, <1>20, <1>21, <1>22, <1>23, <1>24,
     <1>25, <1>26, <1>27, <1>28, <1>29, <1>30, <1>31, <1>32, <1>33, <1>34
  DEF DoorNext, ScannerStep, Deliberate, Shutdown, Process, World

(* Every step keeps the histories up to date. *)
LEMMA SeenStep == ScannerTypeOK /\ ControlInv /\ SeenInv /\ [DoorNext]_doorVars => SeenInv'
<1> SUFFICES ASSUME ScannerTypeOK /\ ControlInv /\ SeenInv, [DoorNext]_doorVars PROVE SeenInv'
  OBVIOUS
<1> USE DoorAssumption DEF ScannerTypeOK, ControlInv, SeenInv, InVisit, Querying, Deciding,
      TryBody, Closing, Stopped, Acting,
     threadVars, worldVars, seenVars, boundVars, scannerVars, sharedVars
<1>1. CASE Start
  BY <1>1 DEF Start, Internal
<1>2. CASE StartFails
  BY <1>2 DEF StartFails, GoTo, Internal
<1>3. CASE ScanUID
  BY <1>3 DEF ScanUID
<1>4. CASE ScanEmpty
  BY <1>4 DEF ScanEmpty, GoTo, Internal
<1>5. CASE Pause
  BY <1>5 DEF Pause, GoTo, Internal
<1>6. CASE ScanFails
  BY <1>6 DEF ScanFails, Internal
<1>7. CASE Backoff
  BY <1>7 DEF Backoff, GoTo, Internal
<1>8. CASE FetchUidRecord
  BY <1>8 DEF FetchUidRecord, Decide, GoTo, Internal
<1>9. CASE HmacQuery
  BY <1>9 DEF HmacQuery, Internal
<1>10. CASE HmacSelect
  BY <1>10 DEF HmacSelect, GoTo, Internal
<1>11. CASE HmacChallenge
  BY <1>11 DEF HmacChallenge, Decide, Internal
<1>12. CASE HmacFails
  BY <1>12 DEF HmacFails, GoTo, Internal
<1>13. CASE DesfireQuery
  BY <1>13 DEF DesfireQuery, Decide, GoTo, Internal
<1>14. CASE NdefVerified
  BY <1>14 DEF NdefVerified, NdefSignature, Decide, Internal
<1>15. CASE NdefRefused
  BY <1>15 DEF NdefRefused, Decide, Internal
<1>16. CASE UnexpectedException
  BY <1>16 DEF UnexpectedException, EndVisit, Internal
<1>17. CASE SendIrcMessage
  BY <1>17 DEF SendIrcMessage, GoTo, AfterTelling, Internal
<1>18. CASE PutMessage
  BY <1>18 DEF PutMessage, GoTo, AfterTelling
<1>19. CASE Unlock
  BY <1>19 DEF Unlock, Internal
<1>20. CASE Relock
  BY <1>20 DEF Relock, EndVisit, Internal
<1>21. CASE DenyWait
  BY <1>21 DEF DenyWait, EndVisit, Internal
<1>22. CASE KeyboardInterrupt
  BY <1>22 DEF KeyboardInterrupt, EndVisit, Interruptible
<1>23. CASE UncaughtInterrupt
  BY <1>23 DEF UncaughtInterrupt, GoTo, Interruptible
<1>24. CASE CloseReader
  BY <1>24 DEF CloseReader, Internal
<1>25. CASE UnloadReader
  BY <1>25 DEF UnloadReader, Internal
<1>26. CASE LockAndExit
  BY <1>26 DEF LockAndExit, Internal
<1>27. CASE Kill
  BY <1>27 DEF Kill, EndVisit
<1>28. CASE Restart
  BY <1>28 DEF Restart
<1>29. ASSUME NEW c \in Card, PlaceCard(c) PROVE SeenInv'
  BY <1>29 DEF PlaceCard
<1>30. CASE RemoveCard
  BY <1>30 DEF RemoveCard
<1>31. ASSUME NEW d \in DbVersions, CommitDb(d) PROVE SeenInv'
  BY <1>31 DEF CommitDb
<1>32. CASE IrcHolds
  BY <1>32 DEF IrcHolds
<1>33. CASE IrcReleases
  BY <1>33 DEF IrcReleases
<1>34. CASE UNCHANGED doorVars
  BY <1>34 DEF doorVars
<1>. QED
  BY <1>1, <1>2, <1>3, <1>4, <1>5, <1>6, <1>7, <1>8, <1>9, <1>10, <1>11, <1>12,
     <1>13, <1>14, <1>15, <1>16, <1>17, <1>18, <1>19, <1>20, <1>21, <1>22, <1>23, <1>24,
     <1>25, <1>26, <1>27, <1>28, <1>29, <1>30, <1>31, <1>32, <1>33, <1>34
  DEF DoorNext, ScannerStep, Deliberate, Shutdown, Process, World

(* Every step keeps the pin and the way out in order. *)
LEMMA ExitStep == ScannerTypeOK /\ ControlInv /\ ExitInv /\ [DoorNext]_doorVars => ExitInv'
<1> SUFFICES ASSUME ScannerTypeOK /\ ControlInv /\ ExitInv, [DoorNext]_doorVars PROVE ExitInv'
  OBVIOUS
<1> USE DoorAssumption DEF ScannerTypeOK, ControlInv, ExitInv, CleanExit, LockedBetweenVisits,
      InVisit, Querying, Deciding, TryBody, Closing, Stopped, Acting,
     threadVars, worldVars, seenVars, boundVars, scannerVars, sharedVars
<1>1. CASE Start
  BY <1>1 DEF Start, Internal
<1>2. CASE StartFails
  BY <1>2 DEF StartFails, GoTo, Internal
<1>3. CASE ScanUID
  BY <1>3 DEF ScanUID
<1>4. CASE ScanEmpty
  BY <1>4 DEF ScanEmpty, GoTo, Internal
<1>5. CASE Pause
  BY <1>5 DEF Pause, GoTo, Internal
<1>6. CASE ScanFails
  BY <1>6 DEF ScanFails, Internal
<1>7. CASE Backoff
  BY <1>7 DEF Backoff, GoTo, Internal
<1>8. CASE FetchUidRecord
  BY <1>8 DEF FetchUidRecord, Decide, GoTo, Internal
<1>9. CASE HmacQuery
  BY <1>9 DEF HmacQuery, Internal
<1>10. CASE HmacSelect
  BY <1>10 DEF HmacSelect, GoTo, Internal
<1>11. CASE HmacChallenge
  BY <1>11 DEF HmacChallenge, Decide, Internal
<1>12. CASE HmacFails
  BY <1>12 DEF HmacFails, GoTo, Internal
<1>13. CASE DesfireQuery
  BY <1>13 DEF DesfireQuery, Decide, GoTo, Internal
<1>14. CASE NdefVerified
  BY <1>14 DEF NdefVerified, NdefSignature, Decide, Internal
<1>15. CASE NdefRefused
  BY <1>15 DEF NdefRefused, Decide, Internal
<1>16. CASE UnexpectedException
  BY <1>16 DEF UnexpectedException, EndVisit, Internal
<1>17. CASE SendIrcMessage
  BY <1>17 DEF SendIrcMessage, GoTo, AfterTelling, Internal
<1>18. CASE PutMessage
  BY <1>18 DEF PutMessage, GoTo, AfterTelling
<1>19. CASE Unlock
  BY <1>19 DEF Unlock, Internal
<1>20. CASE Relock
  BY <1>20 DEF Relock, EndVisit, Internal
<1>21. CASE DenyWait
  BY <1>21 DEF DenyWait, EndVisit, Internal
<1>22. CASE KeyboardInterrupt
  BY <1>22 DEF KeyboardInterrupt, EndVisit, Interruptible
<1>23. CASE UncaughtInterrupt
  BY <1>23 DEF UncaughtInterrupt, GoTo, Interruptible
<1>24. CASE CloseReader
  BY <1>24 DEF CloseReader, Internal
<1>25. CASE UnloadReader
  BY <1>25 DEF UnloadReader, Internal
<1>26. CASE LockAndExit
  BY <1>26 DEF LockAndExit, Internal
<1>27. CASE Kill
  BY <1>27 DEF Kill, EndVisit
<1>28. CASE Restart
  BY <1>28 DEF Restart
<1>29. ASSUME NEW c \in Card, PlaceCard(c) PROVE ExitInv'
  BY <1>29 DEF PlaceCard
<1>30. CASE RemoveCard
  BY <1>30 DEF RemoveCard
<1>31. ASSUME NEW d \in DbVersions, CommitDb(d) PROVE ExitInv'
  BY <1>31 DEF CommitDb
<1>32. CASE IrcHolds
  BY <1>32 DEF IrcHolds
<1>33. CASE IrcReleases
  BY <1>33 DEF IrcReleases
<1>34. CASE UNCHANGED doorVars
  BY <1>34 DEF doorVars
<1>. QED
  BY <1>1, <1>2, <1>3, <1>4, <1>5, <1>6, <1>7, <1>8, <1>9, <1>10, <1>11, <1>12,
     <1>13, <1>14, <1>15, <1>16, <1>17, <1>18, <1>19, <1>20, <1>21, <1>22, <1>23, <1>24,
     <1>25, <1>26, <1>27, <1>28, <1>29, <1>30, <1>31, <1>32, <1>33, <1>34
  DEF DoorNext, ScannerStep, Deliberate, Shutdown, Process, World

(* Every step keeps what was read true of a content seen in the visit. *)
LEMMA KnowledgeStep == ScannerTypeOK /\ ControlInv /\ SeenInv /\ KnowledgeInv /\ [DoorNext]_doorVars => KnowledgeInv'
<1> SUFFICES ASSUME ScannerTypeOK /\ ControlInv /\ SeenInv /\ KnowledgeInv,
      [DoorNext]_doorVars PROVE KnowledgeInv'
  OBVIOUS
<1> USE DoorAssumption DEF ScannerTypeOK, ControlInv, SeenInv, KnowledgeInv, InVisit, Querying,
      Deciding, TryBody, Closing, Stopped, Acting,
     threadVars, worldVars, seenVars, boundVars, scannerVars, sharedVars
<1>1. CASE Start
  BY <1>1 DEF Start, Internal
<1>2. CASE StartFails
  BY <1>2 DEF StartFails, GoTo, Internal
<1>3. CASE ScanUID
  BY <1>3 DEF ScanUID
<1>4. CASE ScanEmpty
  BY <1>4 DEF ScanEmpty, GoTo, Internal
<1>5. CASE Pause
  BY <1>5 DEF Pause, GoTo, Internal
<1>6. CASE ScanFails
  BY <1>6 DEF ScanFails, Internal
<1>7. CASE Backoff
  BY <1>7 DEF Backoff, GoTo, Internal
<1>8. CASE FetchUidRecord
  BY <1>8 DEF FetchUidRecord, Decide, GoTo, Internal, ByUid, ByHmac, ByNdef, Entitles
<1>9. CASE HmacQuery
  BY <1>9 DEF HmacQuery, Internal
<1>10. CASE HmacSelect
  BY <1>10 DEF HmacSelect, GoTo, Internal
<1>11. CASE HmacChallenge
  BY <1>11 DEF HmacChallenge, Decide, Internal, ByUid, ByHmac, ByNdef, Entitles
<1>12. CASE HmacFails
  BY <1>12 DEF HmacFails, GoTo, Internal
<1>13. CASE DesfireQuery
  BY <1>13 DEF DesfireQuery, Decide, GoTo, Internal, ByUid, ByHmac, ByNdef, Entitles
<1>14. CASE NdefVerified
  BY <1>14 DEF NdefVerified, NdefSignature, Decide, Internal, ByUid, ByHmac, ByNdef, Entitles
<1>15. CASE NdefRefused
  BY <1>15 DEF NdefRefused, Decide, Internal, ByUid, ByHmac, ByNdef, Entitles
<1>16. CASE UnexpectedException
  BY <1>16 DEF UnexpectedException, EndVisit, Internal
<1>17. CASE SendIrcMessage
  BY <1>17 DEF SendIrcMessage, GoTo, AfterTelling, Internal
<1>18. CASE PutMessage
  BY <1>18 DEF PutMessage, GoTo, AfterTelling
<1>19. CASE Unlock
  BY <1>19 DEF Unlock, Internal
<1>20. CASE Relock
  BY <1>20 DEF Relock, EndVisit, Internal
<1>21. CASE DenyWait
  BY <1>21 DEF DenyWait, EndVisit, Internal
<1>22. CASE KeyboardInterrupt
  BY <1>22 DEF KeyboardInterrupt, EndVisit, Interruptible
<1>23. CASE UncaughtInterrupt
  BY <1>23 DEF UncaughtInterrupt, GoTo, Interruptible
<1>24. CASE CloseReader
  BY <1>24 DEF CloseReader, Internal
<1>25. CASE UnloadReader
  BY <1>25 DEF UnloadReader, Internal
<1>26. CASE LockAndExit
  BY <1>26 DEF LockAndExit, Internal
<1>27. CASE Kill
  BY <1>27 DEF Kill, EndVisit
<1>28. CASE Restart
  BY <1>28 DEF Restart
<1>29. ASSUME NEW c \in Card, PlaceCard(c) PROVE KnowledgeInv'
  BY <1>29 DEF PlaceCard, ByUid, ByHmac, ByNdef, Entitles
<1>30. CASE RemoveCard
  BY <1>30 DEF RemoveCard
<1>31. ASSUME NEW d \in DbVersions, CommitDb(d) PROVE KnowledgeInv'
  BY <1>31 DEF CommitDb
<1>32. CASE IrcHolds
  BY <1>32 DEF IrcHolds
<1>33. CASE IrcReleases
  BY <1>33 DEF IrcReleases
<1>34. CASE UNCHANGED doorVars
  BY <1>34 DEF doorVars
<1>. QED
  BY <1>1, <1>2, <1>3, <1>4, <1>5, <1>6, <1>7, <1>8, <1>9, <1>10, <1>11, <1>12,
     <1>13, <1>14, <1>15, <1>16, <1>17, <1>18, <1>19, <1>20, <1>21, <1>22, <1>23, <1>24,
     <1>25, <1>26, <1>27, <1>28, <1>29, <1>30, <1>31, <1>32, <1>33, <1>34
  DEF DoorNext, ScannerStep, Deliberate, Shutdown, Process, World

(* The invariant holds at the start. *)
LEMMA InitInv == DoorInit => IInv
  BY DoorAssumption DEF DoorInit, ScannerInit, SharedInit, IInv, ScannerTypeOK, ControlInv,
     SeenInv, KnowledgeInv, ExitInv, CleanExit, LockedBetweenVisits, InVisit, Querying,
     Deciding, TryBody, Closing, Stopped, Acting

(* Every step keeps all of it. *)
LEMMA StepInv == IInv /\ [DoorNext]_doorVars => IInv'
  BY TypeStep, ControlStep, SeenStep, KnowledgeStep, ExitStep DEF IInv

(* IInv is an invariant of the scanner thread. *)
THEOREM Invariance == DoorSpec => []IInv
<1>1. DoorInit => IInv
  BY InitInv
<1>2. IInv /\ [DoorNext]_doorVars => IInv'
  BY StepInv
<1>. QED
  BY <1>1, <1>2, PTL DEF DoorSpec

(* Every variable of the thread always has a value of its kind. *)
THEOREM TypeCorrect == DoorSpec => []ScannerTypeOK
<1>1. IInv => ScannerTypeOK
  BY DEF IInv
<1>. QED
  BY <1>1, Invariance, PTL

(* NFCScanner.actOnUid: a card that every database in force during the visit *)
(* lists by UID is never turned away.                                        *)
THEOREM StandingCardTheorem == DoorSpec => []StandingCardNotDenied
<1>1. IInv => StandingCardNotDenied
  BY DEF IInv, ControlInv, KnowledgeInv, StandingCardNotDenied
<1>. QED
  BY <1>1, Invariance, PTL

(* The KeyboardInterrupt clause of NFCScanner.run leaves the lock engaged and *)
(* the reader unloaded.                                                       *)
THEOREM CleanExitTheorem == DoorSpec => []CleanExit
<1>1. IInv => CleanExit
  BY DEF IInv, ExitInv
<1>. QED
  BY <1>1, Invariance, PTL

(* A daemon never killed, and interrupted at most once, has the pin high only *)
(* while it holds the door or is on its way out.                              *)
THEOREM LockedBetweenVisitsTheorem == DoorSpec => []LockedBetweenVisits
<1>1. IInv => LockedBetweenVisits
  BY DEF IInv, ExitInv
<1>. QED
  BY <1>1, Invariance, PTL

(* NFCScanner.actOnUid and UnlockerWiringPi.unlock: the pin goes high only for *)
(* a visitor entitled by a content of the database seen during the visit.      *)
THEOREM OnlyEntitledOpensTheorem == DoorSpec => OnlyEntitledOpens
<1>1. IInv /\ [DoorNext]_doorVars
        => [pin = 0 /\ pin' = 1 => \E d \in dbSeen : Entitles(d, uid, shown)]_doorVars
  <2> SUFFICES ASSUME IInv, DoorNext, pin = 0, pin' = 1
               PROVE  \E d \in dbSeen : Entitles(d, uid, shown)
    OBVIOUS
  <2>1. Unlock
    BY DEF DoorNext, ScannerStep, Deliberate, Shutdown, Process, World, Start, StartFails,
       ScanUID, ScanEmpty, Pause, ScanFails, Backoff, FetchUidRecord, HmacQuery, HmacSelect,
       HmacChallenge, HmacFails, DesfireQuery, NdefVerified, NdefRefused, UnexpectedException,
       SendIrcMessage, PutMessage, Relock, DenyWait, KeyboardInterrupt, UncaughtInterrupt,
       CloseReader, UnloadReader, LockAndExit, Kill, Restart, PlaceCard, RemoveCard, CommitDb,
       IrcHolds, IrcReleases, GoTo, Decide, threadVars, scannerVars
  <2>2. verdict = "granted"
    BY <2>1 DEF Unlock, IInv, ControlInv
  <2>. QED
    BY <2>2 DEF IInv, KnowledgeInv
<1>. QED
  BY <1>1, Invariance, PTL DEF DoorSpec, OnlyEntitledOpens

(***************************************************************************)
(* The refinement.                                                         *)
(***************************************************************************)
(* The scanner starts where the promise starts. *)
LEMMA PromiseInitial == DoorInit => Promise!PromiseInit
  BY DEF DoorInit, ScannerInit, Promise!PromiseInit

(* Every step is a step of the promise or leaves it as it is: opening the   *)
(* door needs an entitled visitor, turning one away an unlisted UID.        *)
LEMMA PromiseStep ==
    IInv /\ [DoorNext]_doorVars => [Promise!PromiseNext]_(Promise!promiseVars)
<1> SUFFICES ASSUME IInv, [DoorNext]_doorVars
             PROVE  [Promise!PromiseNext]_(Promise!promiseVars)
  OBVIOUS
<1> USE DoorAssumption DEF IInv, ScannerTypeOK, ControlInv, SeenInv, InVisit, Querying, Deciding,
     Acting, Promise!promiseVars, worldVars, seenVars
<1>1. CASE ScanUID
  <2>1. Promise!Present(field)
    BY <1>1 DEF ScanUID, Promise!Present
  <2>. QED
    BY <1>1, <2>1 DEF ScanUID, Promise!PromiseNext
<1>2. ASSUME spc' = "denyWait", verdict' = "denied", IInv',
             UNCHANGED <<uid, pin, seenVars, worldVars>>, spc \notin {"held", "denyWait"}, InVisit
      PROVE  Promise!Deny
  <2>1. \E d \in dbSeen : ~ByUid(d, uid)
    BY <1>2 DEF KnowledgeInv
  <2>. QED
    BY <1>2, <2>1 DEF Promise!Deny, Promise!ByUid, ByUid
<1>3. IInv'
  BY StepInv
<1>4. CASE FetchUidRecord \/ HmacChallenge \/ DesfireQuery \/ NdefVerified \/ NdefRefused
           \/ SendIrcMessage \/ PutMessage
  <2>1. /\ InVisit /\ spc \notin {"held", "denyWait"} /\ spc' # "held"
        /\ UNCHANGED <<uid, pin, seenVars, worldVars>>
    BY <1>4 DEF FetchUidRecord, HmacChallenge, DesfireQuery, NdefVerified, NdefRefused,
       SendIrcMessage, PutMessage, Decide, GoTo, AfterTelling, Internal
  <2>2. CASE spc' = "denyWait"
    <3>1. Promise!Deny
      BY <1>2, <1>3, <2>1, <2>2
    <3>. QED
      BY <3>1 DEF Promise!PromiseNext
  <2>3. CASE spc' # "denyWait"
    BY <2>1, <2>3
  <2>. QED
    BY <2>2, <2>3
<1>5. CASE Unlock
  <2>1. \E d \in dbSeen : Entitles(d, uid, shown)
    BY <1>5 DEF Unlock, KnowledgeInv
  <2>2. Promise!Open
    BY <1>5, <2>1 DEF Unlock, Internal, Promise!Open, Promise!Entitles, Promise!ByUid,
       Promise!ByHmac, Promise!ByNdef, Entitles, ByUid, ByHmac, ByNdef
  <2>. QED
    BY <2>2 DEF Promise!PromiseNext
<1>6. CASE Relock \/ DenyWait \/ UnexpectedException \/ KeyboardInterrupt \/ Kill
  <2>1. /\ uid' = NoCard /\ dbSeen' = {} /\ shown' = {} /\ pin' \in {pin, 0}
        /\ UNCHANGED worldVars /\ (pin' # pin => InVisit)
    BY <1>6 DEF Relock, DenyWait, UnexpectedException, KeyboardInterrupt, Kill, EndVisit, Internal
  <2>2. CASE InVisit
    <3>1. Promise!Leave
      BY <2>1, <2>2 DEF Promise!Leave
    <3>. QED
      BY <3>1 DEF Promise!PromiseNext
  <2>3. CASE ~InVisit
    BY <2>1, <2>3
  <2>. QED
    BY <2>2, <2>3
<1>7. CASE LockAndExit
  <2>1. Promise!Secure
    BY <1>7 DEF LockAndExit, Internal, Promise!Secure
  <2>. QED
    BY <2>1 DEF Promise!PromiseNext
<1>8. ASSUME NEW c \in Card, PlaceCard(c)
      PROVE  [Promise!PromiseNext]_(Promise!promiseVars)
  <2>1. CASE InVisit
    <3>1. Promise!Show(c)
      BY <1>8, <2>1 DEF PlaceCard, threadVars, Promise!Show
    <3>. QED
      BY <3>1 DEF Promise!PromiseNext
  <2>2. CASE ~InVisit
    BY <1>8, <2>2 DEF PlaceCard, threadVars
  <2>. QED
    BY <2>1, <2>2
<1>9. ASSUME NEW d \in DbVersions, CommitDb(d)
      PROVE  [Promise!PromiseNext]_(Promise!promiseVars)
  <2>1. Promise!Commit(d)
    BY <1>9 DEF CommitDb, threadVars, Promise!Commit
  <2>. QED
    BY <2>1 DEF Promise!PromiseNext
<1>10. CASE HmacQuery \/ HmacSelect \/ HmacFails
  BY <1>10 DEF HmacQuery, HmacSelect, HmacFails, GoTo, Internal
<1>11. CASE Start \/ StartFails \/ ScanEmpty \/ Pause \/ ScanFails \/ Backoff
            \/ UncaughtInterrupt \/ CloseReader \/ UnloadReader \/ Restart
  BY <1>11 DEF Start, StartFails, ScanEmpty, Pause, ScanFails, Backoff, UncaughtInterrupt,
     CloseReader, UnloadReader, Restart, GoTo, Internal, Closing, Stopped
<1>12. CASE RemoveCard \/ IrcHolds \/ IrcReleases \/ UNCHANGED doorVars
  BY <1>12 DEF RemoveCard, IrcHolds, IrcReleases, doorVars, scannerVars, threadVars
<1>. QED
  BY <1>1, <1>4, <1>5, <1>6, <1>7, <1>8, <1>9, <1>10, <1>11, <1>12
  DEF DoorNext, ScannerStep, Deliberate, Shutdown, Process, World

(* The scanner thread, with everything that can happen around it, implements *)
(* AccessPromise.                                                            *)
THEOREM DoorKeepsPromise == DoorSpec => KeepsPromise
<1>1. DoorInit => Promise!PromiseInit
  BY PromiseInitial
<1>2. IInv /\ [DoorNext]_doorVars => [Promise!PromiseNext]_(Promise!promiseVars)
  BY PromiseStep
<1>. QED
  BY <1>1, <1>2, Invariance, PTL DEF DoorSpec, KeepsPromise, Promise!PromiseSpec

(***************************************************************************)
(* That a visit ends is a question of fairness, but that it cannot go on   *)
(* for ever is one of safety.                                              *)
(***************************************************************************)
(* How far a visit has come. *)
Stage(p) ==
    CASE p = "uidQuery" -> 1
      [] p = "hmacQuery" -> 2
      [] p = "hmacSelect" -> 3
      [] p = "hmacChallenge" -> 4
      [] p = "desfireQuery" -> 5
      [] p = "ndefRead" -> 6
      [] p = "tell" -> 7
      [] p = "put" -> 8
      [] p = "unlock" -> 9
      [] p = "denyWait" -> 10
      [] p = "held" -> 10

(* NFCScanner.actOnUid: in a visit, every step of the thread brings it      *)
(* closer to its end or ends it, and nothing else that happens sets it back *)
(* or touches the locals it decides by.                                     *)
VisitAdvances ==
    [][InVisit =>
         \/ ~InVisit'
         \/ Stage(spc') > Stage(spc) /\ Stage(spc') <= 10
         \/ ~ScannerStep /\ UNCHANGED <<spc, uid, key, verdict, pin>>]_doorVars

(* What a step of the thread itself does to a visit. *)
LEMMA ThreadAdvances ==
  ASSUME ScannerTypeOK, ControlInv, InVisit, ScannerStep
  PROVE  ~InVisit' \/ (Stage(spc') > Stage(spc) /\ Stage(spc') <= 10)
<1> USE DEF ControlInv, Deciding, Querying, Acting, GoTo, Decide, Stage
<1>1. CASE Start \/ ScanUID \/ ScanEmpty \/ Pause \/ ScanFails \/ Backoff
  BY <1>1 DEF Start, ScanUID, ScanEmpty, Pause, ScanFails, Backoff
<1>2. CASE Relock \/ DenyWait \/ UnexpectedException
  BY <1>2 DEF Relock, DenyWait, UnexpectedException, EndVisit, InVisit
<1>3. CASE FetchUidRecord \/ HmacQuery \/ HmacSelect \/ HmacChallenge
  BY <1>3 DEF FetchUidRecord, HmacQuery, HmacSelect, HmacChallenge
<1>4. CASE HmacFails \/ DesfireQuery \/ NdefVerified \/ NdefRefused
  BY <1>4 DEF HmacFails, DesfireQuery, NdefVerified, NdefRefused
<1>5. CASE SendIrcMessage \/ PutMessage \/ Unlock
  BY <1>5 DEF SendIrcMessage, PutMessage, Unlock, AfterTelling
<1>. QED
  BY <1>1, <1>2, <1>3, <1>4, <1>5 DEF ScannerStep, Deliberate

(* A visit takes at most ten steps of the thread. *)
THEOREM VisitAdvancesTheorem == DoorSpec => VisitAdvances
<1> DEFINE Advance == InVisit =>
                        \/ ~InVisit'
                        \/ Stage(spc') > Stage(spc) /\ Stage(spc') <= 10
                        \/ ~ScannerStep /\ UNCHANGED <<spc, uid, key, verdict, pin>>
<1>1. IInv /\ [DoorNext]_doorVars => [Advance]_doorVars
  <2> SUFFICES ASSUME IInv, DoorNext, InVisit, InVisit', ~ScannerStep
               PROVE  UNCHANGED <<spc, uid, key, verdict, pin>>
    BY ThreadAdvances DEF IInv
  <2>1. ~Shutdown
    BY DEF IInv, ControlInv, Shutdown, CloseReader, UnloadReader, LockAndExit, Deciding,
       Querying, Acting
  <2>2. ~Process
    BY DEF IInv, ControlInv, Process, StartFails, KeyboardInterrupt, UncaughtInterrupt, Kill,
       Restart, EndVisit, InVisit, Deciding, Querying, Acting, Closing, Stopped
  <2>. QED
    BY <2>1, <2>2 DEF DoorNext, World, PlaceCard, RemoveCard, CommitDb, IrcHolds, IrcReleases,
       threadVars, scannerVars
<1>. QED
  BY <1>1, Invariance, PTL DEF DoorSpec, VisitAdvances
==============================================================================
