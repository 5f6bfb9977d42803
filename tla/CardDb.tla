------------------------------- MODULE CardDb -------------------------------
(***************************************************************************)
(* The tools that write the card database while the daemon reads it:       *)
(* create_authenticator_db.py, brmdoor_adduser.py,                         *)
(* import_jendasap_cards.py and SYNC_cards_from_vps.sh, which runs the     *)
(* import twice.  With Python 2's sqlite3 module a transaction begins at   *)
(* the first INSERT or DELETE, which takes sqlite's single write lock; a   *)
(* CREATE TABLE is a transaction of its own; connecting creates the file.  *)
(* A tool that dies leaves its transaction to be rolled back.              *)
(***************************************************************************)
EXTENDS Entitlement, Naturals, Sequences

CONSTANTS Tool, NoTool,      \* processes the administrators run; none
          Malformed,         \* an argument that is not hex
          Jobs,              \* the command lines they may give
          InitialContents,   \* contents of a database made earlier
          MaxJobs,           \* bound: command lines
          MaxFails           \* bound: tools killed, or out of patience for the lock

Tables == {"uids", "hmac", "desfire"}
TableOrder == <<"uids", "hmac", "desfire">>

UidLists == SUBSET (Card \cup {Malformed})
CreateJob == [kind : {"create"}]
AddJob == [kind : {"add"}, table : Tables, uid : Card \cup {Malformed}, key : Key]
ImportJob == [kind : {"import"}, table : {"uids", "desfire"}, list : UidLists]
SyncJob == [kind : {"sync"}, table : {"uids"}, list : UidLists, second : UidLists]

(* The sync's second command line. *)
Second(j) == [kind |-> "import", table |-> "desfire", list |-> j.second]

Importing(j) == j.kind \in {"import", "sync"}
ListOf(j) == IF Importing(j) THEN j.list ELSE {}

(* Lists without a bad line, which are those that can get in. *)
ImportLists ==
    (SUBSET Card) \cap ({ListOf(j) : j \in {i \in Jobs : Importing(i)}}
                          \cup {j.second : j \in {i \in Jobs : i.kind = "sync"}})

ASSUME CardDbAssumption ==
    /\ NoTool \notin Tool
    /\ Malformed \notin Card
    /\ NoKey \notin Key
    /\ Jobs \subseteq CreateJob \cup AddJob \cup ImportJob \cup SyncJob
    /\ InitialContents \subseteq Database
    /\ MaxJobs \in Nat /\ MaxFails \in Nat

VARIABLES exists,    \* is there a file?
          schema,    \* the tables in it
          db,        \* their committed content
          writer,    \* the tool in a transaction: it holds the write lock
          pending,   \* the content the writer sees; without one, db
          tpc,       \* where each tool is
          job,       \* its command line
          found,     \* local dbExists of the import
          todo,      \* tables it has still to create
          left,      \* lines it has still to import
          launched, fails    \* counters of the bounds

fileVars == <<exists, schema, db, writer, pending>>
toolVars == <<tpc, job, found, todo, left>>
dbVars == <<fileVars, toolVars, launched, fails>>

EmptyDb == [uids |-> {}, hmac |-> [c \in Card |-> NoKey], desfire |-> {}]

CardDbInit ==
    /\ \/ exists = FALSE /\ schema = {} /\ db = EmptyDb
       \/ exists = TRUE /\ schema = Tables /\ db \in InitialContents
    /\ writer = NoTool /\ pending = db
    /\ tpc = [t \in Tool |-> "idle"]
    /\ job = [t \in Tool |-> [kind |-> "create"]]
    /\ found = [t \in Tool |-> FALSE]
    /\ todo = [t \in Tool |-> <<>>]
    /\ left = [t \in Tool |-> {}]
    /\ launched = 0 /\ fails = 0

GoTo(t, there) == tpc' = [tpc EXCEPT ![t] = there]

(* A slip: the new key takes the place of the old one. *)
KeyReplaced(d, table, c, k) ==
    CASE table = "uids" -> [d EXCEPT !.uids = @ \cup {c}]
      [] table = "desfire" -> [d EXCEPT !.desfire = @ \cup {c}]
      [] table = "hmac" -> [d EXCEPT !.hmac[c] = k]

(* A further key for a UID comes after the first, which is the one read. *)
Added(d, table, c, k) ==
    CASE table = "uids" -> [d EXCEPT !.uids = @ \cup {c}]
      [] table = "desfire" -> [d EXCEPT !.desfire = @ \cup {c}]
      [] table = "hmac" -> [d EXCEPT !.hmac[c] = IF @ = NoKey THEN k ELSE @]

(* An INSERT or DELETE after which the writer sees d. *)
Write(t, d) ==
    /\ writer \in {NoTool, t}
    /\ writer' = t
    /\ pending' = d
    /\ UNCHANGED <<exists, schema, db>>

(***************************************************************************)
(* Starting.                                                               *)
(***************************************************************************)
(* A command line is given; the import reads its list and looks for a file. *)
Launch(t, j) ==
    /\ tpc[t] = "idle"
    /\ launched < MaxJobs
    /\ launched' = launched + 1
    /\ job' = [job EXCEPT ![t] = j]
    /\ found' = [found EXCEPT ![t] = exists]
    /\ todo' = [todo EXCEPT ![t] = TableOrder]
    /\ left' = [left EXCEPT ![t] = ListOf(j)]
    /\ GoTo(t, "connect")
    /\ UNCHANGED <<fileVars, fails>>

FirstStep(t) ==
    CASE job[t].kind = "create" -> "create"
      [] job[t].kind = "add" -> IF job[t].table = "desfire" THEN "addNdef" ELSE "add"
      [] OTHER -> IF found[t] THEN "delete" ELSE "create"

Connect(t) ==
    /\ tpc[t] = "connect"
    /\ exists' = TRUE
    /\ GoTo(t, FirstStep(t))
    /\ UNCHANGED <<schema, db, writer, pending, job, found, todo, left, launched, fails>>

(* The daemon's authenticators connect to the same file. *)
DaemonConnects ==
    /\ exists = FALSE
    /\ exists' = TRUE
    /\ UNCHANGED <<schema, db, writer, pending, toolVars, launched, fails>>

(***************************************************************************)
(* Writing.                                                                *)
(***************************************************************************)
(* A slip: the import makes only the table it fills. *)
OneTableOnly(t) ==
    /\ tpc[t] = "create"
    /\ writer = NoTool
    /\ todo[t] # <<>> /\ Head(todo[t]) \notin schema
    /\ schema' = schema \cup {Head(todo[t])}
    /\ todo' = [todo EXCEPT ![t] = Tail(@)]
    /\ GoTo(t, IF Importing(job[t]) THEN "rows" ELSE IF Len(todo[t]) > 1 THEN "create" ELSE "idle")
    /\ UNCHANGED <<exists, db, writer, pending, job, found, left, launched, fails>>

CreateTable(t) ==
    /\ tpc[t] = "create"
    /\ writer = NoTool
    /\ todo[t] # <<>> /\ Head(todo[t]) \notin schema
    /\ schema' = schema \cup {Head(todo[t])}
    /\ todo' = [todo EXCEPT ![t] = Tail(@)]
    /\ GoTo(t, IF Len(todo[t]) > 1 THEN "create" ELSE IF Importing(job[t]) THEN "rows" ELSE "idle")
    /\ UNCHANGED <<exists, db, writer, pending, job, found, left, launched, fails>>

(* A slip: the connection is in autocommit mode. *)
DeletedAtOnce(t) ==
    /\ tpc[t] = "delete"
    /\ job[t].table \in schema
    /\ writer \in {NoTool, t} /\ writer' = t
    /\ pending' = [pending EXCEPT ![job[t].table] = {}]
    /\ db' = pending'
    /\ GoTo(t, "rows")
    /\ UNCHANGED <<exists, schema, job, found, todo, left, launched, fails>>

DeleteRows(t) ==
    /\ tpc[t] = "delete"
    /\ job[t].table \in schema
    /\ Write(t, [pending EXCEPT ![job[t].table] = {}])
    /\ GoTo(t, "rows")
    /\ UNCHANGED <<job, found, todo, left, launched, fails>>

(* A slip: a UID that is not hex is let in. *)
BadLineImported(t) ==
    /\ tpc[t] = "rows"
    /\ job[t].table \in schema
    /\ \E c \in left[t] :
         /\ Write(t, [pending EXCEPT ![job[t].table] = @ \cup {c}])
         /\ left' = [left EXCEPT ![t] = @ \ {c}]
    /\ UNCHANGED <<tpc, job, found, todo, launched, fails>>

(* The lines are taken in some order. *)
ImportRow(t) ==
    /\ tpc[t] = "rows"
    /\ job[t].table \in schema
    /\ \E c \in left[t] \ {Malformed} :
         /\ Write(t, [pending EXCEPT ![job[t].table] = @ \cup {c}])
         /\ left' = [left EXCEPT ![t] = @ \ {c}]
    /\ UNCHANGED <<tpc, job, found, todo, launched, fails>>

(* addUidAuth or addHmacAuth *)
AddRow(t) ==
    /\ tpc[t] = "add"
    /\ job[t].table \in schema
    /\ job[t].uid # Malformed
    /\ Write(t, Added(pending, job[t].table, job[t].uid, job[t].key))
    /\ GoTo(t, "addNdef")
    /\ UNCHANGED <<job, found, todo, left, launched, fails>>

(* addNdefAuth, called after the if and its branches, whatever the method. *)
AddNdefRow(t) ==
    /\ tpc[t] = "addNdef"
    /\ "desfire" \in schema
    /\ job[t].uid # Malformed
    /\ Write(t, Added(pending, "desfire", job[t].uid, job[t].key))
    /\ GoTo(t, "commit")
    /\ UNCHANGED <<job, found, todo, left, launched, fails>>

(***************************************************************************)
(* Ending.                                                                 *)
(***************************************************************************)
(* An import of nothing into new tables has no transaction to commit. *)
Commit(t) ==
    /\ tpc[t] = "commit" \/ (tpc[t] = "rows" /\ left[t] = {})
    /\ IF writer = t
         THEN db' = pending /\ writer' = NoTool /\ UNCHANGED pending
         ELSE UNCHANGED <<db, writer, pending>>
    /\ IF job[t].kind = "sync"
         THEN /\ job' = [job EXCEPT ![t] = Second(job[t])]
              /\ found' = [found EXCEPT ![t] = exists]
              /\ left' = [left EXCEPT ![t] = job[t].second]
              /\ GoTo(t, "connect")
         ELSE /\ GoTo(t, "idle")
              /\ UNCHANGED <<job, found, left>>
    /\ UNCHANGED <<exists, schema, todo, launched, fails>>

(* A slip: what was written before the error stays to be committed. *)
NotRolledBack(t) ==
    /\ GoTo(t, "idle")
    /\ writer' = IF writer = t THEN NoTool ELSE writer
    /\ UNCHANGED <<pending, exists, schema, db, job, found, todo, left, launched>>

(* The process ends without a commit; for the sync, so does the script. *)
Quit(t) ==
    /\ GoTo(t, "idle")
    /\ IF writer = t
         THEN writer' = NoTool /\ pending' = db
         ELSE UNCHANGED <<writer, pending>>
    /\ UNCHANGED <<exists, schema, db, job, found, todo, left, launched>>

(* sys.exit(1) for a UID that is not hex; a key of the wrong length alike. *)
BadArgument(t) ==
    /\ \/ tpc[t] = "rows" /\ Malformed \in left[t]
       \/ tpc[t] \in {"add", "addNdef"} /\ job[t].uid = Malformed
    /\ Quit(t)
    /\ UNCHANGED fails

(* OperationalError: the table is there already, or there is none. *)
SqlError(t) ==
    /\ \/ tpc[t] = "create" /\ todo[t] # <<>> /\ Head(todo[t]) \in schema
       \/ tpc[t] \in {"delete", "add"} /\ job[t].table \notin schema
       \/ tpc[t] = "addNdef" /\ "desfire" \notin schema
    /\ Quit(t)
    /\ UNCHANGED fails

(* Killed, aborted with Ctrl-C, or "database is locked" for too long. *)
Fail(t) ==
    /\ tpc[t] # "idle"
    /\ fails < MaxFails
    /\ fails' = fails + 1
    /\ Quit(t)

ToolStep(t) ==
    \/ Connect(t) \/ CreateTable(t) \/ DeleteRows(t) \/ ImportRow(t)
    \/ AddRow(t) \/ AddNdefRow(t) \/ Commit(t) \/ BadArgument(t) \/ SqlError(t)

CardDbNext ==
    \/ \E t \in Tool : ToolStep(t) \/ Fail(t)
    \/ \E t \in Tool, j \in Jobs : Launch(t, j)
    \/ DaemonConnects

CardDbSpec == CardDbInit /\ [][CardDbNext]_dbVars

(***************************************************************************)
(* Properties.                                                             *)
(***************************************************************************)
(* Every variable has a value of its kind. *)
CardDbTypeOK ==
    /\ exists \in BOOLEAN
    /\ schema \subseteq Tables
    /\ db \in Database /\ pending \in Database
    /\ writer \in Tool \cup {NoTool}
    /\ tpc \in [Tool -> {"idle", "connect", "create", "delete", "rows", "add", "addNdef", "commit"}]
    /\ job \in [Tool -> CreateJob \cup AddJob \cup ImportJob \cup SyncJob]
    /\ found \in [Tool -> BOOLEAN]
    /\ todo \in [Tool -> Seq(Tables)]
    /\ left \in [Tool -> UidLists]
    /\ launched \in Nat /\ fails \in Nat

(* import_jendasap_cards.py:27-28, "COMPLETELY OVERWRITE the UID/Desfire    *)
(* table": an import into a database that was there leaves in its table     *)
(* exactly the list, and all that other tools have committed elsewhere.     *)
ImportOverwrites ==
    [][\A t \in Tool :
         writer = t /\ tpc[t] = "rows" /\ found[t] /\ db' # db
           => db' = [db EXCEPT ![job[t].table] = job[t].list]]_dbVars

(* brmdoor_adduser.py: an addition takes from nobody what they had.         *)
AddNeverRevokes ==
    [][\A t \in Tool :
         writer = t /\ job[t].kind = "add" /\ db' # db
           => \A c \in Card, s \in SUBSET Card :
                Entitles(db, c, s) => Entitles(db', c, s)]_dbVars

(* createTables: unless a tool was killed, there are no tables or all three *)
(* when the tools have ended, whichever of them raced to create them.       *)
SchemaWhole ==
    fails = 0 /\ (\A t \in Tool : tpc[t] = "idle") => schema \in {{}, Tables}

(* What the daemon reads is a database that CardStore allows.               *)
Store == INSTANCE CardStore WITH Lists <- ImportLists
KeepsStore == Store!StoreSpec

(* brmdoor_adduser.py:72, "Authenthication type - uid, hmac or ndef": a     *)
(* user added for one method is authorised for that method.                 *)
OnlyChosenMethod ==
    [][\A t \in Tool :
         writer = t /\ job[t].kind = "add" /\ db' # db
           => \A table \in Tables \ {job[t].table} : db'[table] = db[table]]_dbVars
==============================================================================
