---------------------------- MODULE CardDbProofs ----------------------------
(***************************************************************************)
(* Proofs about CardDb, for any number of tools, cards, keys and command   *)
(* lines: type correctness, and that every content the daemon can read is  *)
(* one that CardStore allows.                                              *)
(***************************************************************************)
EXTENDS CardDb, TLAPS

(***************************************************************************)
(* The invariant: what the writer sees is the committed content, changed   *)
(* by exactly the part of its command line that it has carried out.        *)
(***************************************************************************)
CommandLines == Jobs \cup {Second(j) : j \in {i \in Jobs : i.kind = "sync"}}

JobInv ==
    \A t \in Tool :
        /\ tpc[t] # "idle" => job[t] \in CommandLines
        /\ tpc[t] \in {"delete", "rows"} => Importing(job[t])
        /\ tpc[t] \in {"add", "addNdef", "commit"} => job[t].kind = "add"
        /\ tpc[t] = "add" => job[t].table \in {"uids", "hmac"}
        /\ tpc[t] \in {"connect", "create", "delete"} => left[t] = ListOf(job[t])
        /\ tpc[t] = "rows" => left[t] \subseteq job[t].list
        /\ tpc[t] = "commit" => job[t].uid \in Card
        /\ tpc[t] = "delete" => found[t]
        /\ tpc[t] = "create" /\ Importing(job[t]) => ~found[t]

Imported(t) == job[t].list \ left[t]

WithImported(t) == IF found[t] THEN Imported(t) ELSE db[job[t].table] \cup Imported(t)

ImportInv ==
    \A t \in Tool : tpc[t] = "rows" =>
        IF writer = t
          THEN /\ job[t].table \in schema
               /\ Imported(t) \subseteq Card
               /\ pending = [db EXCEPT ![job[t].table] = WithImported(t)]
          ELSE ~found[t] /\ left[t] = job[t].list

AddInv ==
    \A t \in Tool : writer = t =>
        /\ tpc[t] = "addNdef" => 
             /\ job[t].uid \in Card
             /\ pending = Added(db, job[t].table, job[t].uid, job[t].key)
        /\ tpc[t] = "commit" =>
             pending \in {Added(d, "desfire", job[t].uid, job[t].key) :
                            d \in {db, Added(db, job[t].table, job[t].uid, job[t].key)}}

LockInv ==
    /\ writer = NoTool => pending = db
    /\ \A t \in Tool : writer = t => tpc[t] \in {"rows", "addNdef", "commit"}

IInv == CardDbTypeOK /\ JobInv /\ ImportInv /\ AddInv /\ LockInv

(***************************************************************************)
(* Lemmas about contents.                                                  *)
(***************************************************************************)
(* The content of one of the tables of UIDs is replaced. *)
LEMMA SetTable ==
    ASSUME NEW d \in Database, NEW table \in {"uids", "desfire"}, NEW S \in SUBSET Card
    PROVE  /\ [d EXCEPT ![table] = S] \in Database
           /\ d[table] \in SUBSET Card
           /\ [d EXCEPT ![table] = S][table] = S
           /\ \A T \in SUBSET Card :
                [[d EXCEPT ![table] = S] EXCEPT ![table] = T] = [d EXCEPT ![table] = T]
<1>1. CASE table = "uids"
  BY <1>1 DEF Database
<1>2. CASE table = "desfire"
  BY <1>2 DEF Database
<1> QED
  BY <1>1, <1>2

(* An addition gives a content, and loses nothing of the one before. *)
LEMMA AddedKeeps ==
    ASSUME NEW d \in Database, NEW table \in Tables, NEW c \in Card, NEW k \in Key
    PROVE  /\ Added(d, table, c, k) \in Database
           /\ Added(d, table, c, k).uids \in {d.uids, d.uids \cup {c}}
           /\ Added(d, table, c, k).desfire \in {d.desfire, d.desfire \cup {c}}
           /\ \/ Added(d, table, c, k).hmac = d.hmac
              \/ d.hmac[c] = NoKey /\ Added(d, table, c, k).hmac = [d.hmac EXCEPT ![c] = k]
<1>1. CASE table = "uids"
  BY <1>1 DEF Database, Added
<1>2. CASE table = "desfire"
  BY <1>2 DEF Database, Added
<1>3. CASE table = "hmac"
  <2>1. Added(d, table, c, k) = [d EXCEPT !.hmac[c] = IF @ = NoKey THEN k ELSE @]
    BY <1>3 DEF Added
  <2>2. CASE d.hmac[c] = NoKey
    BY <2>1, <2>2 DEF Database
  <2>3. CASE d.hmac[c] # NoKey
    <3>1. [d.hmac EXCEPT ![c] = d.hmac[c]] = d.hmac
      BY DEF Database
    <3> QED
      BY <2>1, <2>3, <3>1 DEF Database
  <2> QED
    BY <2>2, <2>3
<1> QED
  BY <1>1, <1>2, <1>3 DEF Tables

(* What the command lines are. *)
LEMMA CommandLineKinds ==
    ASSUME NEW j \in CommandLines
    PROVE  /\ j \in CreateJob \cup AddJob \cup ImportJob \cup SyncJob
           /\ ListOf(j) \in UidLists
           /\ Importing(j) => j.table \in {"uids", "desfire"} /\ j.list \in UidLists
           /\ j.kind = "add" => j.table \in Tables /\ j.uid \in Card \cup {Malformed} /\ j.key \in Key
           /\ j.kind = "sync" => Second(j) \in CommandLines /\ j.second \in UidLists
           /\ j.kind = "sync" => Second(j).kind = "import" /\ Second(j).list = j.second
           /\ Importing(j) /\ j.list \subseteq Card => j.list \in ImportLists
<1> USE CardDbAssumption
<1>1. CASE j \in Jobs
  BY <1>1 DEF CommandLines, CreateJob, AddJob, ImportJob, SyncJob, Importing, ListOf, UidLists,
              Second, Tables, ImportLists
<1>2. CASE \E i \in Jobs : i.kind = "sync" /\ j = Second(i)
  BY <1>2 DEF CommandLines, CreateJob, AddJob, ImportJob, SyncJob, Importing, ListOf, UidLists,
              Second, Tables, ImportLists
<1> QED
  BY <1>1, <1>2 DEF CommandLines

(***************************************************************************)
(* The invariant is kept.                                                  *)
(***************************************************************************)
(* The initial states satisfy the invariant. *)
LEMMA InitInv == CardDbInit => IInv
<1> SUFFICES ASSUME CardDbInit PROVE IInv
  OBVIOUS
<1>1. EmptyDb \in Database
  BY DEF EmptyDb, Database
<1>2. CardDbTypeOK
  <2>1. db \in Database /\ schema \subseteq Tables /\ exists \in BOOLEAN
    BY <1>1, CardDbAssumption DEF CardDbInit
  <2>2. [kind |-> "create"] \in CreateJob \cup AddJob \cup ImportJob \cup SyncJob
    BY DEF CreateJob
  <2>3. todo \in [Tool -> Seq(Tables)] /\ left \in [Tool -> UidLists]
    BY DEF CardDbInit, UidLists
  <2> QED
    BY <2>1, <2>2, <2>3 DEF CardDbInit, CardDbTypeOK
<1>3. JobInv /\ ImportInv /\ AddInv /\ LockInv
  BY CardDbAssumption DEF CardDbInit, JobInv, ImportInv, AddInv, LockInv
<1> QED
  BY <1>2, <1>3 DEF IInv

(* Every step keeps the types. *)
LEMMA TypeStep == IInv /\ [CardDbNext]_dbVars => CardDbTypeOK'
<1> SUFFICES ASSUME IInv, [CardDbNext]_dbVars PROVE CardDbTypeOK'
  OBVIOUS
<1> USE CardDbAssumption DEF IInv, CardDbTypeOK, fileVars, toolVars, dbVars
<1>1. ASSUME NEW t \in Tool, NEW j \in Jobs, Launch(t, j) PROVE CardDbTypeOK'
  <2>1. ListOf(j) \in UidLists /\ j \in CreateJob \cup AddJob \cup ImportJob \cup SyncJob
    BY CommandLineKinds DEF CommandLines
  <2> QED
    BY <1>1, <2>1 DEF Launch, GoTo, TableOrder, Tables
<1>2. CASE DaemonConnects
  BY <1>2 DEF DaemonConnects
<1>3. ASSUME NEW t \in Tool, Connect(t) PROVE CardDbTypeOK'
  <2>1. FirstStep(t) \in {"create", "add", "addNdef", "delete"}
    BY DEF FirstStep
  <2> QED
    BY <1>3, <2>1 DEF Connect, GoTo
<1>4. ASSUME NEW t \in Tool, CreateTable(t) PROVE CardDbTypeOK'
  <2>1. Head(todo[t]) \in Tables /\ Tail(todo[t]) \in Seq(Tables)
    BY <1>4 DEF CreateTable
  <2> QED
    BY <1>4, <2>1 DEF CreateTable, GoTo
<1>5. ASSUME NEW t \in Tool, DeleteRows(t) PROVE CardDbTypeOK'
  <2>1. job[t].table \in {"uids", "desfire"}
    BY <1>5, CommandLineKinds DEF DeleteRows, JobInv
  <2>2. [pending EXCEPT ![job[t].table] = {}] \in Database
    BY <2>1, SetTable
  <2> QED
    BY <1>5, <2>2 DEF DeleteRows, GoTo, Write
<1>6. ASSUME NEW t \in Tool, ImportRow(t) PROVE CardDbTypeOK'
  <2>1. job[t].table \in {"uids", "desfire"}
    BY <1>6, CommandLineKinds DEF ImportRow, JobInv
  <2>2. PICK c \in left[t] \ {Malformed} :
          /\ Write(t, [pending EXCEPT ![job[t].table] = @ \cup {c}])
          /\ left' = [left EXCEPT ![t] = @ \ {c}]
    BY <1>6 DEF ImportRow
  <2>3. c \in Card /\ left[t] \ {c} \in UidLists
    BY DEF UidLists
  <2>4. pending[job[t].table] \in SUBSET Card
    BY <2>1 DEF Database
  <2>5. pending[job[t].table] \cup {c} \in SUBSET Card
    BY <2>3, <2>4
  <2>6. [pending EXCEPT ![job[t].table] = pending[job[t].table] \cup {c}] \in Database
    BY <2>1, <2>5, SetTable
  <2> QED
    BY <1>6, <2>2, <2>3, <2>6 DEF ImportRow, Write
<1>7. ASSUME NEW t \in Tool, AddRow(t) PROVE CardDbTypeOK'
  <2>1. job[t].table \in Tables /\ job[t].uid \in Card /\ job[t].key \in Key
    BY <1>7, CommandLineKinds DEF AddRow, JobInv
  <2>2. Added(pending, job[t].table, job[t].uid, job[t].key) \in Database
    BY <2>1, AddedKeeps
  <2> QED
    BY <1>7, <2>2 DEF AddRow, GoTo, Write
<1>8. ASSUME NEW t \in Tool, AddNdefRow(t) PROVE CardDbTypeOK'
  <2>1. job[t].uid \in Card /\ job[t].key \in Key
    BY <1>8, CommandLineKinds DEF AddNdefRow, JobInv
  <2>2. Added(pending, "desfire", job[t].uid, job[t].key) \in Database
    BY <2>1, AddedKeeps DEF Tables
  <2> QED
    BY <1>8, <2>2 DEF AddNdefRow, GoTo, Write
<1>9. ASSUME NEW t \in Tool, Commit(t) PROVE CardDbTypeOK'
  <2>1. job[t].kind = "sync" =>
          /\ job[t].second \in UidLists
          /\ Second(job[t]) \in CreateJob \cup AddJob \cup ImportJob \cup SyncJob
    BY <1>9, CommandLineKinds DEF Commit, JobInv
  <2> QED
    BY <1>9, <2>1 DEF Commit, GoTo
<1>10. ASSUME NEW t \in Tool, Quit(t), fails' \in Nat PROVE CardDbTypeOK'
  BY <1>10 DEF Quit, GoTo
<1>11. ASSUME NEW t \in Tool, BadArgument(t) \/ SqlError(t) \/ Fail(t) PROVE CardDbTypeOK'
  BY <1>10, <1>11 DEF BadArgument, SqlError, Fail
<1>12. CASE UNCHANGED dbVars
  BY <1>12
<1> QED
  BY <1>1, <1>2, <1>3, <1>4, <1>5, <1>6, <1>7, <1>8, <1>9, <1>11, <1>12 DEF CardDbNext, ToolStep

(* Control, command lines and what is left of them. *)
LEMMA JobStep == IInv /\ [CardDbNext]_dbVars => JobInv'
<1> SUFFICES ASSUME IInv, [CardDbNext]_dbVars PROVE JobInv'
  OBVIOUS
<1> USE CardDbAssumption DEF IInv, CardDbTypeOK, JobInv, fileVars, toolVars, dbVars
<1>1. ASSUME NEW t \in Tool, NEW j \in Jobs, Launch(t, j) PROVE JobInv'
  BY <1>1 DEF Launch, GoTo, CommandLines
<1>2. CASE DaemonConnects
  BY <1>2 DEF DaemonConnects
<1>3. ASSUME NEW t \in Tool, Connect(t) PROVE JobInv'
  <2>1. job[t] \in CommandLines
    BY <1>3 DEF Connect
  <2>2. job[t].kind \in {"create", "add", "import", "sync"}
        /\ (job[t].kind = "add" => job[t].table \in Tables)
    BY <2>1, CommandLineKinds DEF CreateJob, AddJob, ImportJob, SyncJob
  <2>3. /\ FirstStep(t) \in {"create", "add", "addNdef", "delete"}
        /\ FirstStep(t) = "delete" => Importing(job[t]) /\ found[t]
        /\ FirstStep(t) = "create" /\ Importing(job[t]) => ~found[t]
        /\ FirstStep(t) \in {"add", "addNdef"} => job[t].kind = "add"
        /\ FirstStep(t) = "add" => job[t].table \in {"uids", "hmac"}
    BY <2>2 DEF FirstStep, Importing, Tables
  <2> QED
    BY <1>3, <2>1, <2>3 DEF Connect, GoTo
<1>4. ASSUME NEW t \in Tool, CreateTable(t) PROVE JobInv'
  BY <1>4 DEF CreateTable, GoTo, ListOf
<1>5. ASSUME NEW t \in Tool, DeleteRows(t) PROVE JobInv'
  BY <1>5 DEF DeleteRows, GoTo, Write, ListOf
<1>6. ASSUME NEW t \in Tool, ImportRow(t) PROVE JobInv'
  BY <1>6 DEF ImportRow, Write
<1>7. ASSUME NEW t \in Tool, AddRow(t) PROVE JobInv'
  BY <1>7 DEF AddRow, GoTo, Write
<1>8. ASSUME NEW t \in Tool, AddNdefRow(t) PROVE JobInv'
  <2>1. job[t].uid \in Card
    BY <1>8, CommandLineKinds DEF AddNdefRow
  <2> QED
    BY <1>8, <2>1 DEF AddNdefRow, GoTo, Write
<1>9. ASSUME NEW t \in Tool, Commit(t) PROVE JobInv'
  <2>1. CASE job[t].kind = "sync"
    <3>1. /\ Second(job[t]) \in CommandLines
          /\ ListOf(Second(job[t])) = job[t].second
      BY <1>9, <2>1, CommandLineKinds DEF Commit, ListOf, Importing
    <3>2. /\ tpc' = [tpc EXCEPT ![t] = "connect"]
          /\ job' = [job EXCEPT ![t] = Second(job[t])]
          /\ left' = [left EXCEPT ![t] = job[t].second]
          /\ found' = [found EXCEPT ![t] = exists]
      BY <1>9, <2>1 DEF Commit, GoTo
    <3>3. ASSUME NEW u \in Tool \ {t}
          PROVE  tpc'[u] = tpc[u] /\ job'[u] = job[u] /\ left'[u] = left[u] /\ found'[u] = found[u]
      BY <3>2
    <3>4. tpc'[t] = "connect" /\ job'[t] = Second(job[t]) /\ left'[t] = job[t].second
      BY <3>2
    <3>5. JobInv
      OBVIOUS
    <3> HIDE DEF IInv, CardDbTypeOK
    <3> QED
      BY <3>1, <3>3, <3>4, <3>5
  <2>2. CASE job[t].kind # "sync"
    BY <1>9, <2>2 DEF Commit, GoTo
  <2> QED
    BY <2>1, <2>2
<1>10. ASSUME NEW t \in Tool, Quit(t) PROVE JobInv'
  BY <1>10 DEF Quit, GoTo
<1>11. ASSUME NEW t \in Tool, BadArgument(t) \/ SqlError(t) \/ Fail(t) PROVE JobInv'
  BY <1>10, <1>11 DEF BadArgument, SqlError, Fail
<1>12. CASE UNCHANGED dbVars
  BY <1>12
<1> QED
  BY <1>1, <1>2, <1>3, <1>4, <1>5, <1>6, <1>7, <1>8, <1>9, <1>11, <1>12 DEF CardDbNext, ToolStep

(* What a writing import has written is what it has taken from its list. *)
LEMMA ImportStep == IInv /\ [CardDbNext]_dbVars => ImportInv'
<1> SUFFICES ASSUME IInv, [CardDbNext]_dbVars PROVE ImportInv'
  OBVIOUS
<1> USE CardDbAssumption DEF IInv, CardDbTypeOK, LockInv, ImportInv, Imported, WithImported,
                             fileVars, toolVars, dbVars
<1>1. ASSUME NEW t \in Tool, NEW j \in Jobs, Launch(t, j) PROVE ImportInv'
  BY <1>1 DEF Launch, GoTo
<1>2. CASE DaemonConnects
  BY <1>2 DEF DaemonConnects
<1>3. ASSUME NEW t \in Tool, Connect(t) PROVE ImportInv'
  <2>1. FirstStep(t) # "rows"
    BY DEF FirstStep
  <2> QED
    BY <1>3, <2>1 DEF Connect, GoTo
<1>4. ASSUME NEW t \in Tool, CreateTable(t) PROVE ImportInv'
  <2>1. Importing(job[t]) => ~found[t] /\ left[t] = job[t].list
    BY <1>4 DEF CreateTable, JobInv, ListOf
  <2> QED
    BY <1>4, <2>1 DEF CreateTable, GoTo
<1>5. ASSUME NEW t \in Tool, DeleteRows(t) PROVE ImportInv'
  <2>1. found[t] /\ left[t] = job[t].list /\ writer = NoTool /\ pending = db
    BY <1>5 DEF DeleteRows, Write, JobInv, ListOf
  <2> QED
    BY <1>5, <2>1 DEF DeleteRows, GoTo, Write
<1>6. ASSUME NEW t \in Tool, ImportRow(t) PROVE ImportInv'
  <2> DEFINE table == job[t].table
  <2>1. /\ table \in {"uids", "desfire"} /\ left[t] \subseteq job[t].list
        /\ tpc[t] = "rows" /\ table \in schema
        /\ db \in Database /\ pending \in Database /\ job[t] \in CommandLines
    BY <1>6, CommandLineKinds DEF ImportRow, JobInv
  <2>2. PICK c \in left[t] \ {Malformed} :
          /\ Write(t, [pending EXCEPT ![table] = @ \cup {c}])
          /\ left' = [left EXCEPT ![t] = @ \ {c}]
    BY <1>6 DEF ImportRow
  <2>3. c \in Card /\ Imported(t)' = Imported(t) \cup {c}
    BY <1>6, <2>1, <2>2 DEF ImportRow, UidLists
  <2>4. /\ UNCHANGED <<db, schema, tpc, job, found>>
        /\ writer' = t /\ writer \in {NoTool, t}
        /\ pending' = [pending EXCEPT ![table] = pending[table] \cup {c}]
        /\ \A u \in Tool \ {t} : left'[u] = left[u]
    BY <1>6, <2>2 DEF ImportRow, Write
  <2>5. ImportInv /\ LockInv
    OBVIOUS
  <2>6. WithImported(t)' = WithImported(t) \cup {c}
    BY <2>3, <2>4
  <2> HIDE DEF IInv, CardDbTypeOK, ImportInv, LockInv, Imported, WithImported
  <2>7. ASSUME writer = t
        PROVE  Imported(t) \subseteq Card /\ pending' = [db EXCEPT ![table] = WithImported(t) \cup {c}]
    <3>1. /\ Imported(t) \subseteq Card
          /\ pending = [db EXCEPT ![table] = WithImported(t)]
      BY <2>1, <2>5, <2>7 DEF ImportInv
    <3>2. WithImported(t) \in SUBSET Card /\ WithImported(t) \cup {c} \in SUBSET Card
      BY <2>1, <2>3, <3>1 DEF Database, WithImported
    <3>3. pending[table] = WithImported(t)
      BY <2>1, <3>1 DEF Database
    <3>4. [pending EXCEPT ![table] = WithImported(t) \cup {c}]
            = [db EXCEPT ![table] = WithImported(t) \cup {c}]
      BY <2>1, <3>1, <3>2, SetTable
    <3> QED
      BY <2>4, <3>1, <3>3, <3>4
  <2>8. ASSUME writer = NoTool
        PROVE  Imported(t) \subseteq Card /\ pending' = [db EXCEPT ![table] = WithImported(t) \cup {c}]
    <3>1. pending = db /\ ~found[t] /\ left[t] = job[t].list
      BY <2>1, <2>5, <2>8, CardDbAssumption DEF ImportInv, LockInv
    <3>2. Imported(t) = {} /\ WithImported(t) = db[table]
      BY <3>1 DEF Imported, WithImported
    <3> QED
      BY <2>4, <3>1, <3>2
  <2>9. /\ Imported(t)' \subseteq Card
        /\ pending' = [db EXCEPT ![table] = WithImported(t)']
    BY <2>3, <2>4, <2>6, <2>7, <2>8
  <2>10. ASSUME NEW u \in Tool \ {t}, tpc[u] = "rows"
         PROVE  ~found[u] /\ left[u] = job[u].list
    BY <2>4, <2>5, <2>10, CardDbAssumption DEF ImportInv
  <2> QED
    BY <2>1, <2>4, <2>9, <2>10 DEF ImportInv
<1>7. ASSUME NEW t \in Tool, AddRow(t) \/ AddNdefRow(t) PROVE ImportInv'
  <2>1. /\ writer \in {NoTool, t} /\ writer' = t
        /\ tpc'[t] # "rows"
        /\ \A u \in Tool \ {t} : tpc'[u] = tpc[u]
        /\ UNCHANGED <<job, found, left>>
    BY <1>7 DEF AddRow, AddNdefRow, GoTo, Write
  <2> QED
    BY <2>1
<1>8. ASSUME NEW t \in Tool, Commit(t) PROVE ImportInv'
  <2>1. /\ tpc'[t] # "rows"
        /\ \A u \in Tool \ {t} :
             tpc'[u] = tpc[u] /\ job'[u] = job[u] /\ found'[u] = found[u] /\ left'[u] = left[u]
    BY <1>8 DEF Commit, GoTo
  <2>2. \/ writer = t /\ writer' = NoTool
        \/ writer # t /\ UNCHANGED <<writer, db, pending, schema>>
    BY <1>8 DEF Commit
  <2>3. ImportInv
    OBVIOUS
  <2>4. UNCHANGED schema
    BY <1>8 DEF Commit
  <2> HIDE DEF IInv, CardDbTypeOK, LockInv
  <2>5. CASE writer = t
    BY <2>1, <2>2, <2>3, <2>5, CardDbAssumption
  <2>6. CASE writer # t
    BY <2>1, <2>2, <2>3, <2>6
  <2> QED
    BY <2>5, <2>6
<1>9. ASSUME NEW t \in Tool, Quit(t) PROVE ImportInv'
  BY <1>9 DEF Quit, GoTo
<1>10. ASSUME NEW t \in Tool, BadArgument(t) \/ SqlError(t) \/ Fail(t) PROVE ImportInv'
  BY <1>9, <1>10 DEF BadArgument, SqlError, Fail
<1>11. CASE UNCHANGED dbVars
  BY <1>11
<1> QED
  BY <1>1, <1>2, <1>3, <1>4, <1>5, <1>6, <1>7, <1>8, <1>10, <1>11 DEF CardDbNext, ToolStep

(* What a writing addition has written is one or two rows for its card. *)
LEMMA AddStep == IInv /\ [CardDbNext]_dbVars => AddInv'
<1> SUFFICES ASSUME IInv, [CardDbNext]_dbVars PROVE AddInv'
  OBVIOUS
<1> USE CardDbAssumption DEF IInv, CardDbTypeOK, LockInv, AddInv, fileVars, toolVars, dbVars
<1>1. ASSUME NEW t \in Tool, NEW j \in Jobs, Launch(t, j) PROVE AddInv'
  BY <1>1 DEF Launch, GoTo
<1>2. CASE DaemonConnects
  BY <1>2 DEF DaemonConnects
<1>3. ASSUME NEW t \in Tool, Connect(t) PROVE AddInv'
  BY <1>3 DEF Connect, GoTo
<1>4. ASSUME NEW t \in Tool, CreateTable(t) PROVE AddInv'
  BY <1>4 DEF CreateTable, GoTo
<1>5. ASSUME NEW t \in Tool, DeleteRows(t) \/ ImportRow(t) PROVE AddInv'
  BY <1>5 DEF DeleteRows, ImportRow, GoTo, Write
<1>6. ASSUME NEW t \in Tool, AddRow(t) PROVE AddInv'
  <2>1. job[t].uid \in Card
    BY <1>6, CommandLineKinds DEF AddRow, JobInv
  <2> QED
    BY <1>6, <2>1 DEF AddRow, GoTo, Write
<1>7. ASSUME NEW t \in Tool, AddNdefRow(t) PROVE AddInv'
  <2>1. pending \in {db, Added(db, job[t].table, job[t].uid, job[t].key)}
    BY <1>7 DEF AddNdefRow, Write
  <2> QED
    BY <1>7, <2>1 DEF AddNdefRow, GoTo, Write
<1>8. ASSUME NEW t \in Tool, Commit(t) PROVE AddInv'
  BY <1>8 DEF Commit, GoTo
<1>9. ASSUME NEW t \in Tool, Quit(t) PROVE AddInv'
  BY <1>9 DEF Quit, GoTo
<1>10. ASSUME NEW t \in Tool, BadArgument(t) \/ SqlError(t) \/ Fail(t) PROVE AddInv'
  BY <1>9, <1>10 DEF BadArgument, SqlError, Fail
<1>11. CASE UNCHANGED dbVars
  BY <1>11
<1> QED
  BY <1>1, <1>2, <1>3, <1>4, <1>5, <1>6, <1>7, <1>8, <1>10, <1>11 DEF CardDbNext, ToolStep

(* The write lock is held from the first write to the end. *)
LEMMA LockStep == IInv /\ [CardDbNext]_dbVars => LockInv'
<1> SUFFICES ASSUME IInv, [CardDbNext]_dbVars PROVE LockInv'
  OBVIOUS
<1> USE CardDbAssumption DEF IInv, CardDbTypeOK, LockInv, fileVars, toolVars, dbVars
<1>1. ASSUME NEW t \in Tool, NEW j \in Jobs, Launch(t, j) PROVE LockInv'
  BY <1>1 DEF Launch, GoTo
<1>2. CASE DaemonConnects
  BY <1>2 DEF DaemonConnects
<1>3. ASSUME NEW t \in Tool, Connect(t) \/ CreateTable(t) PROVE LockInv'
  BY <1>3 DEF Connect, CreateTable, GoTo
<1>4. ASSUME NEW t \in Tool, DeleteRows(t) \/ ImportRow(t) \/ AddRow(t) \/ AddNdefRow(t)
      PROVE LockInv'
  BY <1>4 DEF DeleteRows, ImportRow, AddRow, AddNdefRow, GoTo, Write
<1>5. ASSUME NEW t \in Tool, Commit(t) PROVE LockInv'
  BY <1>5 DEF Commit, GoTo
<1>6. ASSUME NEW t \in Tool, Quit(t) PROVE LockInv'
  BY <1>6 DEF Quit, GoTo
<1>7. ASSUME NEW t \in Tool, BadArgument(t) \/ SqlError(t) \/ Fail(t) PROVE LockInv'
  BY <1>6, <1>7 DEF BadArgument, SqlError, Fail
<1>8. CASE UNCHANGED dbVars
  BY <1>8
<1> QED
  BY <1>1, <1>2, <1>3, <1>4, <1>5, <1>7, <1>8 DEF CardDbNext, ToolStep

(* The invariant holds of every behaviour. *)
THEOREM CardDbInvariance == CardDbSpec => []IInv
<1>1. IInv /\ [CardDbNext]_dbVars => IInv'
  BY TypeStep, JobStep, ImportStep, AddStep, LockStep DEF IInv
<1> QED
  BY <1>1, InitInv, PTL DEF CardDbSpec

(***************************************************************************)
(* What follows from the invariant.                                        *)
(***************************************************************************)
(* Type correctness of the tools and the file. *)
THEOREM CardDbTypeCorrect == CardDbSpec => []CardDbTypeOK
BY CardDbInvariance, PTL DEF IInv

(* Only a commit changes what the daemon reads. *)
LEMMA OnlyCommitWrites ==
    ASSUME IInv, [CardDbNext]_dbVars, db' # db
    PROVE  \E t \in Tool : Commit(t) /\ writer = t /\ db' = pending /\ UNCHANGED schema
<1> USE DEF fileVars, toolVars, dbVars
<1>1. ASSUME NEW t \in Tool, NEW j \in Jobs, Launch(t, j) PROVE FALSE
  BY <1>1 DEF Launch
<1>2. CASE DaemonConnects
  BY <1>2 DEF DaemonConnects
<1>3. ASSUME NEW t \in Tool, Connect(t) \/ CreateTable(t) \/ DeleteRows(t) \/ ImportRow(t)
                               \/ AddRow(t) \/ AddNdefRow(t)
      PROVE  FALSE
  BY <1>3 DEF Connect, CreateTable, DeleteRows, ImportRow, AddRow, AddNdefRow, Write
<1>4. ASSUME NEW t \in Tool, BadArgument(t) \/ SqlError(t) \/ Fail(t) PROVE FALSE
  BY <1>4 DEF BadArgument, SqlError, Fail, Quit
<1>5. ASSUME NEW t \in Tool, Commit(t)
      PROVE  Commit(t) /\ writer = t /\ db' = pending /\ UNCHANGED schema
  BY <1>5 DEF Commit
<1> QED
  BY <1>1, <1>2, <1>3, <1>4, <1>5 DEF CardDbNext, ToolStep

(* An addition's commit adds one or two rows for a card. *)
LEMMA AdditionCommitted ==
    ASSUME IInv, NEW t \in Tool, Commit(t), writer = t, job[t].kind = "add"
    PROVE  \E c \in Card, k \in Key, table \in Tables :
             pending \in {Added(d, "desfire", c, k) : d \in {db, Added(db, table, c, k)}}
<1>1. tpc[t] = "commit"
  BY DEF Commit, IInv, JobInv, Importing
<1>2. job[t] \in CommandLines /\ job[t].uid \in Card
  BY <1>1 DEF IInv, JobInv
<1>3. job[t].table \in Tables /\ job[t].key \in Key
  BY <1>2, CommandLineKinds
<1> QED
  BY <1>1, <1>2, <1>3 DEF IInv, AddInv

(* An import's commit leaves its list, or adds it to tables it has made. *)
LEMMA ImportCommitted ==
    ASSUME IInv, NEW t \in Tool, Commit(t), writer = t, tpc[t] = "rows"
    PROVE  /\ job[t].table \in {"uids", "desfire"} /\ job[t].table \in schema
           /\ job[t].list \in ImportLists
           /\ pending = [db EXCEPT ![job[t].table] =
                            IF found[t] THEN job[t].list ELSE @ \cup job[t].list]
<1>1. job[t] \in CommandLines /\ Importing(job[t]) /\ left[t] = {}
  BY DEF Commit, IInv, JobInv
<1>2. Imported(t) = job[t].list
  BY <1>1 DEF Imported
<1>3. /\ job[t].table \in schema
      /\ job[t].list \subseteq Card
      /\ pending = [db EXCEPT ![job[t].table] = WithImported(t)]
  BY <1>2 DEF IInv, ImportInv
<1> QED
  BY <1>1, <1>2, <1>3, CommandLineKinds DEF WithImported

(* import_jendasap_cards.py: an import into an existing database replaces   *)
(* its table by its list and keeps whatever other tools have committed.     *)
THEOREM ImportOverwritesTheorem == CardDbSpec => ImportOverwrites
<1>1. IInv /\ [CardDbNext]_dbVars
        => [\A t \in Tool :
              writer = t /\ tpc[t] = "rows" /\ found[t] /\ db' # db
                => db' = [db EXCEPT ![job[t].table] = job[t].list]]_dbVars
  <2> SUFFICES ASSUME IInv, [CardDbNext]_dbVars, NEW t \in Tool,
                      writer = t, tpc[t] = "rows", found[t], db' # db
               PROVE  db' = [db EXCEPT ![job[t].table] = job[t].list]
    OBVIOUS
  <2>1. Commit(t) /\ db' = pending
    BY OnlyCommitWrites
  <2> QED
    BY <2>1, ImportCommitted
<1> QED
  BY <1>1, CardDbInvariance, PTL DEF CardDbSpec, ImportOverwrites

(* Rows that are added entitle nobody to less. *)
LEMMA AddedMonotone ==
    ASSUME NEW d \in Database, NEW table \in Tables, NEW c \in Card, NEW k \in Key,
           NEW x \in Card, NEW s \in SUBSET Card, Entitles(d, x, s)
    PROVE  Entitles(Added(d, table, c, k), x, s)
<1> DEFINE e == Added(d, table, c, k)
<1>1. /\ d.uids \subseteq e.uids /\ d.desfire \subseteq e.desfire
      /\ e.hmac = d.hmac \/ (d.hmac[c] = NoKey /\ e.hmac = [d.hmac EXCEPT ![c] = k])
  BY AddedKeeps
<1>2. d.hmac \in [Card -> Key \cup {NoKey}]
  BY DEF Database
<1>3. d.hmac[x] # NoKey => e.hmac[x] = d.hmac[x]
  BY <1>1, <1>2
<1> HIDE DEF e
<1> QED
  BY <1>1, <1>3 DEF Entitles, ByUid, ByHmac, ByNdef, e

(* brmdoor_adduser.py: no addition takes anything from anybody. *)
THEOREM AddNeverRevokesTheorem == CardDbSpec => AddNeverRevokes
<1>1. IInv /\ [CardDbNext]_dbVars
        => [\A t \in Tool :
              writer = t /\ job[t].kind = "add" /\ db' # db
                => \A c \in Card, s \in SUBSET Card :
                     Entitles(db, c, s) => Entitles(db', c, s)]_dbVars
  <2> SUFFICES ASSUME IInv, [CardDbNext]_dbVars, NEW t \in Tool,
                      writer = t, job[t].kind = "add", db' # db,
                      NEW x \in Card, NEW s \in SUBSET Card, Entitles(db, x, s)
               PROVE  Entitles(db', x, s)
    OBVIOUS
  <2>1. Commit(t) /\ db' = pending
    BY OnlyCommitWrites
  <2>2. PICK c \in Card, k \in Key, table \in Tables :
          pending \in {Added(d, "desfire", c, k) : d \in {db, Added(db, table, c, k)}}
    BY <2>1, AdditionCommitted
  <2>3. /\ db \in Database /\ Added(db, table, c, k) \in Database
        /\ Entitles(Added(db, table, c, k), x, s)
    BY AddedKeeps, AddedMonotone DEF IInv, CardDbTypeOK
  <2>4. /\ Entitles(Added(db, "desfire", c, k), x, s)
        /\ Entitles(Added(Added(db, table, c, k), "desfire", c, k), x, s)
    BY <2>3, AddedMonotone DEF Tables
  <2> QED
    BY <2>1, <2>2, <2>4
<1> QED
  BY <1>1, CardDbInvariance, PTL DEF CardDbSpec, AddNeverRevokes

(***************************************************************************)
(* The creation of the tables.  The first table decides a race: whoever    *)
(* creates it is the only tool that is part of the way, and stays so until *)
(* all tables are there, unless it is killed.                              *)
(***************************************************************************)
PartWay(t) ==
    /\ tpc[t] = "create"
    /\ \/ schema = {"uids"} /\ todo[t] = <<"hmac", "desfire">>
       \/ schema = {"uids", "hmac"} /\ todo[t] = <<"desfire">>

SchemaInv ==
    /\ schema \in {{}, {"uids"}, {"uids", "hmac"}, Tables}
    /\ \A t \in Tool :
         /\ tpc[t] \notin {"idle", "connect"} => exists
         /\ tpc[t] = "connect" => todo[t] = TableOrder \/ (job[t].kind = "import" /\ found[t])
         /\ tpc[t] = "create" => todo[t] = TableOrder \/ PartWay(t)
    /\ \A t, u \in Tool : PartWay(t) /\ PartWay(u) => t = u
    /\ fails = 0 => schema \in {{}, Tables} \/ \E t \in Tool : PartWay(t)

(* What is left to create after each table. *)
LEMMA TheOrder ==
    /\ Head(TableOrder) = "uids" /\ Tail(TableOrder) = <<"hmac", "desfire">> /\ Len(TableOrder) = 3
    /\ Head(<<"hmac", "desfire">>) = "hmac" /\ Tail(<<"hmac", "desfire">>) = <<"desfire">>
    /\ Len(<<"hmac", "desfire">>) = 2
    /\ Head(<<"desfire">>) = "desfire" /\ Len(<<"desfire">>) = 1
    /\ TableOrder # <<"hmac", "desfire">> /\ TableOrder # <<"desfire">>
BY DEF TableOrder

(* Every step keeps the account of the tables. *)
LEMMA SchemaStep == IInv /\ SchemaInv /\ [CardDbNext]_dbVars => SchemaInv'
<1> SUFFICES ASSUME IInv, SchemaInv, [CardDbNext]_dbVars PROVE SchemaInv'
  OBVIOUS
<1> USE CardDbAssumption DEF SchemaInv, PartWay, fileVars, toolVars, dbVars
<1>0. CardDbTypeOK
  BY DEF IInv
<1>1. ASSUME NEW t \in Tool, NEW j \in Jobs, Launch(t, j) PROVE SchemaInv'
  <2>1. /\ UNCHANGED <<exists, schema, fails>>
        /\ tpc[t] = "idle" /\ tpc'[t] = "connect" /\ todo'[t] = TableOrder
        /\ \A u \in Tool \ {t} :
             tpc'[u] = tpc[u] /\ todo'[u] = todo[u] /\ job'[u] = job[u] /\ found'[u] = found[u]
    BY <1>0, <1>1 DEF Launch, GoTo, CardDbTypeOK
  <2> QED
    BY <2>1
<1>2. CASE DaemonConnects
  BY <1>0, <1>2 DEF DaemonConnects, CardDbTypeOK
<1>3. ASSUME NEW t \in Tool, Connect(t) PROVE SchemaInv'
  <2>1. FirstStep(t) = "create" => todo[t] = TableOrder
    BY <1>3 DEF Connect, FirstStep
  <2>2. /\ UNCHANGED <<schema, todo, job, found, fails>> /\ exists'
        /\ tpc[t] = "connect" /\ tpc'[t] = FirstStep(t)
        /\ FirstStep(t) # "connect"
        /\ \A u \in Tool \ {t} : tpc'[u] = tpc[u]
    BY <1>0, <1>3 DEF Connect, GoTo, CardDbTypeOK, FirstStep
  <2>3. schema = {} \/ ~PartWay(t)'
    BY <2>1, <2>2, TheOrder
  <2> QED
    BY <2>1, <2>2, <2>3, TheOrder
<1>4. ASSUME NEW t \in Tool, CreateTable(t) PROVE SchemaInv'
  <2>1. /\ tpc[t] = "create" /\ Head(todo[t]) \notin schema
        /\ schema' = schema \cup {Head(todo[t])}
        /\ todo' = [todo EXCEPT ![t] = Tail(todo[t])]
        /\ tpc'[t] \in {"create", "rows", "idle"}
        /\ tpc'[t] = "create" <=> Len(todo[t]) > 1
        /\ \A u \in Tool \ {t} : tpc'[u] = tpc[u] /\ todo'[u] = todo[u]
        /\ UNCHANGED <<exists, job, found, fails>>
    BY <1>0, <1>4 DEF CreateTable, GoTo, CardDbTypeOK
  <2>2. todo'[t] = Tail(todo[t])
    BY <1>0, <2>1 DEF CardDbTypeOK
  <2>3. CASE todo[t] = TableOrder
    <3>1. schema = {} /\ schema' = {"uids"} /\ PartWay(t)'
      <4>1. Head(todo[t]) = "uids" /\ Len(todo[t]) > 1 /\ Tail(todo[t]) = <<"hmac", "desfire">>
        BY <2>3, TheOrder
      <4>2. schema = {}
        BY <2>1, <4>1 DEF Tables
      <4>3. schema' = {"uids"}
        BY <2>1, <4>1, <4>2
      <4> QED
        BY <2>1, <2>2, <4>1, <4>2, <4>3
    <3>2. \A u \in Tool \ {t} : ~PartWay(u) /\ ~PartWay(u)'
      BY <2>1, <3>1, TheOrder
    <3> QED
      BY <2>1, <3>1, <3>2
  <2>4. CASE schema = {"uids"} /\ todo[t] = <<"hmac", "desfire">>
    <3>1. schema' = {"uids", "hmac"} /\ PartWay(t)'
      BY <2>1, <2>2, <2>4, TheOrder
    <3>2. \A u \in Tool \ {t} : ~PartWay(u) /\ ~PartWay(u)'
      BY <2>1, <2>4, <3>1, TheOrder
    <3> QED
      BY <2>1, <3>1, <3>2
  <2>5. CASE schema = {"uids", "hmac"} /\ todo[t] = <<"desfire">>
    <3>1. schema' = Tables /\ tpc'[t] # "create"
      BY <2>1, <2>2, <2>5, TheOrder DEF Tables
    <3>2. \A u \in Tool \ {t} : ~PartWay(u) /\ ~PartWay(u)'
      BY <2>1, <2>5, <3>1, TheOrder DEF Tables
    <3> QED
      BY <2>1, <3>1, <3>2
  <2> QED
    BY <2>1, <2>3, <2>4, <2>5
<1>5. ASSUME NEW t \in Tool, DeleteRows(t) \/ ImportRow(t) \/ AddRow(t) \/ AddNdefRow(t)
      PROVE  SchemaInv'
  <2>1. /\ UNCHANGED <<exists, schema, todo, found, job, fails>>
        /\ tpc[t] \notin {"idle", "connect", "create"}
        /\ tpc'[t] \notin {"idle", "connect", "create"}
        /\ \A u \in Tool \ {t} : tpc'[u] = tpc[u]
    BY <1>0, <1>5 DEF DeleteRows, ImportRow, AddRow, AddNdefRow, GoTo, Write, CardDbTypeOK
  <2> QED
    BY <2>1
<1>6. ASSUME NEW t \in Tool, Commit(t) PROVE SchemaInv'
  <2>1. /\ UNCHANGED <<exists, schema, todo, fails>> /\ exists
        /\ tpc[t] \notin {"idle", "connect", "create"}
        /\ tpc'[t] = "idle" \/ (tpc'[t] = "connect" /\ job'[t].kind = "import" /\ found'[t])
        /\ \A u \in Tool \ {t} : tpc'[u] = tpc[u] /\ job'[u] = job[u] /\ found'[u] = found[u]
    BY <1>0, <1>6 DEF Commit, GoTo, CardDbTypeOK, Second
  <2> QED
    BY <2>1
<1>7. ASSUME NEW t \in Tool, Quit(t), tpc[t] # "idle",
             \/ fails' = fails /\ ~PartWay(t)
             \/ fails' = fails + 1
      PROVE  SchemaInv'
  <2>1. /\ UNCHANGED <<exists, schema, todo, found, job>>
        /\ tpc'[t] = "idle"
        /\ \A u \in Tool \ {t} : tpc'[u] = tpc[u]
        /\ fails' = 0 => fails = 0 /\ ~PartWay(t)
    BY <1>0, <1>7 DEF Quit, GoTo, CardDbTypeOK
  <2> QED
    BY <2>1
<1>8. ASSUME NEW t \in Tool, BadArgument(t) \/ SqlError(t) PROVE SchemaInv'
  <2>1. Quit(t) /\ tpc[t] # "idle" /\ fails' = fails /\ ~PartWay(t)
    BY <1>8, TheOrder DEF BadArgument, SqlError
  <2> QED
    BY <1>7, <2>1
<1>9. ASSUME NEW t \in Tool, Fail(t) PROVE SchemaInv'
  BY <1>7, <1>9 DEF Fail
<1>10. CASE UNCHANGED dbVars
  BY <1>10
<1> QED
  BY <1>1, <1>2, <1>3, <1>4, <1>5, <1>6, <1>8, <1>9, <1>10 DEF CardDbNext, ToolStep

(* createTables: however many tools race to create the tables, they leave   *)
(* none or all of them, unless one was killed.                              *)
THEOREM SchemaWholeTheorem == CardDbSpec => []SchemaWhole
<1>1. CardDbInit => SchemaInv
  BY DEF CardDbInit, SchemaInv, PartWay
<1>2. SchemaInv => SchemaWhole
  BY DEF SchemaInv, SchemaWhole, PartWay
<1> QED
  BY <1>1, <1>2, SchemaStep, CardDbInvariance, PTL DEF CardDbSpec

(* CardDb implements CardStore. *)
LEMMA StoreInitial == CardDbInit => Store!StoreInit
BY DEF CardDbInit, Store!StoreInit, EmptyDb, Store!EmptyDb, Tables, Store!Tables

(* One or two rows for a card are an enrolment. *)
LEMMA AddedEnrols ==
    ASSUME NEW d \in Database, NEW table \in Tables, NEW c \in Card, NEW k \in Key,
           NEW e \in {Added(f, "desfire", c, k) : f \in {d, Added(d, table, c, k)}}
    PROVE  /\ e.uids \in {d.uids, d.uids \cup {c}}
           /\ e.desfire \in {d.desfire, d.desfire \cup {c}}
           /\ \/ e.hmac = d.hmac
              \/ d.hmac[c] = NoKey /\ e.hmac = [d.hmac EXCEPT ![c] = k]
<1>1. ASSUME NEW f \in Database, e = Added(f, "desfire", c, k)
      PROVE  e.uids = f.uids /\ e.hmac = f.hmac /\ e.desfire = f.desfire \cup {c}
  BY <1>1 DEF Added, Database
<1>2. CASE e = Added(d, "desfire", c, k)
  BY <1>1, <1>2
<1>3. CASE e = Added(Added(d, table, c, k), "desfire", c, k)
  BY <1>1, <1>3, AddedKeeps
<1> QED
  BY <1>2, <1>3

(* A step of a tool is a step of the store, or none. *)
LEMMA StoreStep ==
    IInv /\ [CardDbNext]_dbVars => [Store!StoreNext]_<<schema, db>>
<1> SUFFICES ASSUME IInv, [CardDbNext]_dbVars PROVE [Store!StoreNext]_<<schema, db>>
  OBVIOUS
<1>1. CASE db' # db
  <2>1. PICK t \in Tool : Commit(t) /\ writer = t /\ db' = pending /\ UNCHANGED schema
    BY <1>1, OnlyCommitWrites
  <2>2. CASE tpc[t] = "rows"
    <3>1. /\ job[t].table \in {"uids", "desfire"} /\ job[t].table \in schema
          /\ job[t].list \in ImportLists
          /\ pending = [db EXCEPT ![job[t].table] =
                           IF found[t] THEN job[t].list ELSE @ \cup job[t].list]
      BY <2>1, <2>2, ImportCommitted
    <3>2. \/ Store!Replace(job[t].table, job[t].list)
          \/ Store!Merge(job[t].table, job[t].list)
      BY <2>1, <3>1 DEF Store!Replace, Store!Merge
    <3> QED
      BY <3>1, <3>2 DEF Store!StoreNext
  <2>3. CASE tpc[t] # "rows"
    <3>1. job[t].kind = "add"
      BY <2>1, <2>3 DEF Commit, IInv, JobInv
    <3>2. PICK c \in Card, k \in Key, table \in Tables :
            pending \in {Added(d, "desfire", c, k) : d \in {db, Added(db, table, c, k)}}
      BY <2>1, <3>1, AdditionCommitted
    <3>3. db \in Database
      BY DEF IInv, CardDbTypeOK
    <3>4. /\ db'.uids \in {db.uids, db.uids \cup {c}}
          /\ db'.desfire \in {db.desfire, db.desfire \cup {c}}
          /\ \/ db'.hmac = db.hmac
             \/ db.hmac[c] = NoKey /\ db'.hmac = [db.hmac EXCEPT ![c] = k]
      BY <2>1, <3>2, <3>3, AddedEnrols
    <3>5. Store!Enrol(c)
      BY <2>1, <3>4 DEF Store!Enrol
    <3> QED
      BY <3>5 DEF Store!StoreNext
  <2> QED
    BY <2>2, <2>3
<1>2. CASE db' = db /\ schema' # schema
  <2>1. PICK t \in Tool : CreateTable(t)
    BY <1>2 DEF CardDbNext, ToolStep, Launch, DaemonConnects, Connect, DeleteRows, ImportRow,
                AddRow, AddNdefRow, Commit, BadArgument, SqlError, Fail, Quit, Write,
                fileVars, toolVars, dbVars
  <2>2. Head(todo[t]) \in Tables
    BY <2>1 DEF CreateTable, IInv, CardDbTypeOK
  <2>3. Store!MakeTable(Head(todo[t]))
    BY <1>2, <2>1 DEF CreateTable, Store!MakeTable
  <2> QED
    BY <2>2, <2>3 DEF Store!StoreNext, Tables, Store!Tables
<1>3. CASE UNCHANGED <<schema, db>>
  BY <1>3
<1> QED
  BY <1>1, <1>2, <1>3

(* What the daemon can read is at all times what CardStore promises. *)
THEOREM CardDbKeepsStore == CardDbSpec => KeepsStore
<1>1. CardDbSpec => Store!StoreInit /\ [][Store!StoreNext]_<<schema, db>>
  BY StoreInitial, StoreStep, CardDbInvariance, PTL DEF CardDbSpec
<1> QED
  BY <1>1 DEF KeepsStore, Store!StoreSpec
==============================================================================
