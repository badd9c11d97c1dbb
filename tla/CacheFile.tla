----------------------------- MODULE CacheFile -----------------------------
(***************************************************************************)
(* The SQLite file of a profile as the processes that open it find and      *)
(* leave it (src/src/cache/schema.ts, index.ts): made statement by          *)
(* statement when it is new, built again in one transaction when an earlier *)
(* max wrote it, refused when a newer one did; and the search index over    *)
(* the messages, which triggers keep (src/src/cache/store.ts).              *)
(*                                                                          *)
(* Which messages a command reads and what it may conclude from them is     *)
(* MessageCache's matter, chats and people are ContactStore's.  A message   *)
(* here is its version, the count of its edits, which is also its one word. *)
(***************************************************************************)
EXTENDS Naturals, FiniteSets, FiniteSetsExt

CONSTANTS
  Openers,     \* processes
  CacheIds,    \* ids of messages
  LastVersion, \* bounds: the edits of a message, and what the openers write
  MaxStores

ASSUME CacheFileAssumption == IsFiniteSet(CacheIds) /\ LastVersion \in Nat /\ MaxStores \in Nat

VARIABLES
  db,       \* the file
  opener,   \* what each process is doing with it
  history,  \* what was told to the file and not taken back, message by message
  stores

cacheFileVars == << db, opener, history, stores >>

Unmade == 0
Earlier == 1
SchemaVersion == 2    \* SCHEMA_VERSION
Newer == 3

NoMessage == [rowid |-> 0, version |-> 0, heard |-> FALSE]
NothingTold == [version |-> 0, heard |-> FALSE, held |-> FALSE]
NoRows == [m \in CacheIds |-> NoMessage]
NoTable == "no table"

RowIds == 1 .. Cardinality(CacheIds)
EntryOf(row) == [rowid |-> row.rowid, word |-> row.version]
RowsIn(rows) == { m \in CacheIds : rows[m].rowid # 0 }
Entries(rows) == { EntryOf(rows[m]) : m \in RowsIn(rows) }

\* A file that is not there, or one that another version left, with its messages and their index.
CacheFileInit ==
  /\ \E version \in {Unmade, Earlier, Newer}, held \in SUBSET CacheIds, edits \in 0 .. LastVersion :
       /\ held = {} => edits = 0
       /\ version = Unmade => held = {}
       /\ \E rowid \in [CacheIds -> RowIds] :
            /\ \A m, n \in held : m # n => rowid[m] # rowid[n]
            /\ \A m \in CacheIds \ held : rowid[m] = 1
            /\ LET rows == [m \in CacheIds |-> IF m \in held THEN [rowid |-> rowid[m], version |-> edits, heard |-> FALSE] ELSE NoMessage]
               IN db = [version |-> version, made |-> IF version = Unmade THEN {} ELSE {"messages", "index"},
                        messages |-> rows, previous |-> NoRows, index |-> Entries(rows),
                        triggersOn |-> IF version = Unmade THEN NoTable ELSE "messages"]
       /\ history = [m \in CacheIds |->
            IF m \in held THEN [version |-> edits, heard |-> FALSE, held |-> TRUE] ELSE NothingTold]
  /\ opener = [p \in Openers |-> [at |-> "away", command |-> "work"]]
  /\ stores = 0

----------------------------------------------------------------------------
\* The statements, each of which leaves what it finds.
CreateTables(f) == [f EXCEPT !.made = @ \cup {"messages"}]
CreateIndex(f) == [f EXCEPT !.made = @ \cup {"index"}]
CreateTriggers(f) == IF f.triggersOn = NoTable THEN [f EXCEPT !.triggersOn = "messages"] ELSE f
SetVersion(f) == [f EXCEPT !.version = SchemaVersion]

\* What the triggers make of a table of messages that becomes another.
Follow(f, rows) ==
  [f EXCEPT !.messages = rows,
            !.index = IF f.triggersOn # "messages" THEN @
                      ELSE (@ \ { EntryOf(f.messages[m]) : m \in { n \in RowsIn(f.messages) : rows[n] # f.messages[n] } })
                             \cup { EntryOf(rows[m]) : m \in { n \in RowsIn(rows) : rows[n] # f.messages[n] } }]

\* rebuild: triggers and the index first; a renamed table takes its triggers along.
DropTriggersLate(f) == f    \* a mutant: they go with the table they are on
DropTriggers(f) == [f EXCEPT !.triggersOn = NoTable]
DropIndex(f) == [f EXCEPT !.index = {}, !.made = @ \ {"index"}]
SetAside(f) ==
  [f EXCEPT !.previous = f.messages, !.messages = NoRows, !.made = @ \ {"messages"},
            !.triggersOn = IF @ = "messages" THEN "previous" ELSE @]
RebuildFile(f) == SetAside(DropIndex(DropTriggers(f)))

\* restore: the rows in their order, with new row ids, past the triggers; then the old table goes.
Restore(f) ==
  LET old == f.previous
      place(m) == Cardinality({ n \in RowsIn(old) : old[n].rowid <= old[m].rowid })
      rows == [m \in CacheIds |-> IF m \in RowsIn(old) THEN [old[m] EXCEPT !.rowid = place(m)] ELSE NoMessage]
  IN [Follow(f, rows) EXCEPT !.previous = NoRows, !.triggersOn = IF @ = "previous" THEN NoTable ELSE @]

Upgraded(f) == SetVersion(Restore(CreateTriggers(CreateIndex(CreateTables(RebuildFile(f))))))

----------------------------------------------------------------------------
At(p, where) == opener' = [opener EXCEPT ![p].at = where]

Opens(p, command) ==
  /\ opener[p].at = "away" /\ (command = "clear" \/ stores < MaxStores)
  /\ opener' = [opener EXCEPT ![p] = [at |-> "opens", command |-> command]]
  /\ UNCHANGED << db, history, stores >>

\* migrate reads the version once, before it takes any lock.
ReadsVersion(p) ==
  /\ opener[p].at = "opens"
  /\ At(p, CASE db.version > SchemaVersion -> "without"
             [] db.version = Earlier -> "waits"
             [] db.version \in {Unmade, SchemaVersion} -> "tables")
  /\ UNCHANGED << db, history, stores >>

\* BEGIN IMMEDIATE to COMMIT; another max may have upgraded the file while this one waited.
Upgrades(p) ==
  /\ opener[p].at = "waits"
  /\ db' = IF db.version = SchemaVersion THEN db ELSE Upgraded(db)
  /\ At(p, "open")
  /\ UNCHANGED << history, stores >>

\* The statements for a new file, and for one of this version, one by one.
Makes(p) ==
  /\ \/ opener[p].at = "tables" /\ db' = CreateTables(db) /\ At(p, "index")
     \/ opener[p].at = "index" /\ db' = CreateIndex(db) /\ At(p, "triggers")
     \/ opener[p].at = "triggers" /\ db' = CreateTriggers(db) /\ At(p, "version")
     \/ opener[p].at = "version" /\ db' = SetVersion(db) /\ At(p, "open")
  /\ UNCHANGED << history, stores >>

\* A lock that is not had in five seconds: the command goes on without the file.
TooBusy(p) ==
  /\ opener[p].at \in {"waits", "tables", "index", "triggers", "version"}
  /\ At(p, "without")
  /\ UNCHANGED << db, history, stores >>

\* The end of the command, or of its process at any moment.
Leaves(p) ==
  /\ opener[p].at # "away"
  /\ opener' = [opener EXCEPT ![p] = [at |-> "away", command |-> "work"]]
  /\ UNCHANGED << db, history, stores >>

----------------------------------------------------------------------------
\* The store of an open file.  A new row takes the number after the last one.
Writes(p) == opener[p].at = "open" /\ opener[p].command = "work" /\ stores < MaxStores

NextRowId(rows) == 1 + Max({0} \cup { rows[m].rowid : m \in RowsIn(rows) })

PutMessage(p, m, version) ==
  LET rows == db.messages
      put == IF m \notin RowsIn(rows) THEN [rowid |-> NextRowId(rows), version |-> version, heard |-> FALSE]
             ELSE IF version >= rows[m].version THEN [rows[m] EXCEPT !.version = version] ELSE rows[m]
  IN
  /\ Writes(p)
  /\ db' = Follow(db, [rows EXCEPT ![m] = put])
  /\ history' = [history EXCEPT ![m].held = TRUE, ![m].version = Max({@, version})]
  /\ stores' = stores + 1 /\ UNCHANGED opener

ForgetRow(p, m) ==
  /\ Writes(p)
  /\ db' = Follow(db, [db.messages EXCEPT ![m] = NoMessage])
  /\ history' = [history EXCEPT ![m] = NothingTold]
  /\ stores' = stores + 1 /\ UNCHANGED opener

KeepTranscript(p, m) ==
  /\ Writes(p) /\ m \in RowsIn(db.messages)
  /\ db' = Follow(db, [db.messages EXCEPT ![m].heard = TRUE])
  /\ history' = [history EXCEPT ![m].heard = TRUE]
  /\ stores' = stores + 1 /\ UNCHANGED opener

\* `max cache clear`: the first of its tables; ContactStore has those after it.
Clears(p) ==
  /\ opener[p].at = "open" /\ opener[p].command = "clear"
  /\ db' = Follow(db, NoRows)
  /\ history' = [m \in CacheIds |-> NothingTold]
  /\ At(p, "cleared")
  /\ UNCHANGED stores

\* A newer max upgrades the file beside the others, and keeps its messages as this one does.
NewerUpgrades ==
  /\ db.version \in {Earlier, SchemaVersion}
  /\ db' = [db EXCEPT !.version = Newer]
  /\ UNCHANGED << opener, history, stores >>

CacheFileNext ==
  \/ NewerUpgrades
  \/ \E p \in Openers :
       \/ \E command \in {"work", "clear"} : Opens(p, command)
       \/ ReadsVersion(p) \/ Upgrades(p) \/ Makes(p) \/ TooBusy(p) \/ Leaves(p) \/ Clears(p)
       \/ \E m \in CacheIds :
            \/ \E version \in 0 .. LastVersion : PutMessage(p, m, version)
            \/ ForgetRow(p, m) \/ KeepTranscript(p, m)

CacheFileSpec == CacheFileInit /\ [][CacheFileNext]_cacheFileVars

----------------------------------------------------------------------------
MessageRow == [rowid : Nat, version : 0 .. LastVersion, heard : BOOLEAN]

CacheFileTypeOK ==
  /\ db.version \in {Unmade, Earlier, SchemaVersion, Newer}
  /\ db.made \subseteq {"messages", "index"}
  /\ db.messages \in [CacheIds -> MessageRow] /\ db.previous = NoRows
  /\ db.index \subseteq [rowid : Nat \ {0}, word : 0 .. LastVersion]
  /\ db.triggersOn \in {NoTable, "messages"}
  /\ opener \in [Openers ->
       [at : {"away", "opens", "without", "waits", "tables", "index", "triggers", "version", "open", "cleared"},
        command : {"work", "clear"}]]
  /\ history \in [CacheIds -> [version : 0 .. LastVersion, heard : BOOLEAN, held : BOOLEAN]]
  /\ stores \in 0 .. MaxStores

\* messages.search: the rows that the index names for a word.
Search(word) == { m \in RowsIn(db.messages) : [rowid |-> db.messages[m].rowid, word |-> word] \in db.index }

(***************************************************************************)
(* A file that is open answers what was told to it: each message in its     *)
(* newest version, with what was heard of it, and to a search for a word    *)
(* those that have it and no other -- after a creation that died half-way   *)
(* or that two processes shared, an upgrade ("a backup is exactly what      *)
(* cannot be allowed to vanish on the next upgrade", src/src/cache/         *)
(* schema.ts:225), rows that are written again, forgotten or cleared, and   *)
(* row ids that come back (schema.ts:163).                                  *)
(***************************************************************************)
FileAnswersTruly ==
  (\E p \in Openers : opener[p].at \in {"open", "cleared"}) =>
    /\ db.made = {"messages", "index"}
    /\ \A m \in CacheIds :
         LET row == db.messages[m] IN
         [version |-> row.version, heard |-> row.heard, held |-> row.rowid # 0] = history[m]
    /\ \A word \in 0 .. LastVersion : Search(word) = { m \in CacheIds : history[m].held /\ history[m].version = word }
=============================================================================
