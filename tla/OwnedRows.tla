------------------------------ MODULE OwnedRows ------------------------------
(***************************************************************************)
(* An account's rows (repositories/account.rs, notebook.rs, note.rs) and   *)
(* the handlers that read, change and delete them (api/settings.rs,        *)
(* notebooks.rs, notes.rs): an account and its settings, made on first     *)
(* use, a notebook, a note in it.                                          *)
(*                                                                         *)
(* A handler is a few statements without a transaction, and requests of    *)
(* the owner, of a stranger and the task that stores suggested questions   *)
(* interleave between them.  A column's value is the request that set it.  *)
(***************************************************************************)
EXTENDS Integers, FiniteSets

CONSTANTS
  Requests,           \* requests and tasks, one operation each
  Default             \* the value of a column that nobody has set

VARIABLES
  exists,             \* the rows that are there
  cell,               \* row -> column -> the request that set it, or Default
  chosen,             \* history: the same, by the calls that set columns
  demo,               \* notebooks.is_demo
  call                \* Requests -> its operation, where it is, its answer

rowVars == <<exists, cell, chosen, demo, call>>

Columns == [account |-> {}, settings |-> {"provider", "model"},
            notebook |-> {"title", "memory", "questions"}, note |-> {"title", "content"}]
Tables == DOMAIN Columns

Unset(table) == [c \in Columns[table] |-> Default]
NoCall == [op |-> "none", owner |-> TRUE, sets |-> {}, at |-> "idle", wrote |-> FALSE]

\* The calls on each row, with the columns they may set.
SettingsCalls == [ensure |-> {}, settings |-> {}, patch_settings |-> {"provider", "model"}]
NotebookCalls == [create_notebook |-> {}, get_notebook |-> {}, patch_notebook |-> {"title", "memory"},
                  delete_notebook |-> {}]
NoteCalls == [create_note |-> {}, get_note |-> {}, patch_note |-> {"title", "content"}, delete_note |-> {}]

OwnedInit ==
  /\ exists \in {{}, {"account"}, {"account", "notebook"}, {"account", "settings", "notebook", "note"}}
  /\ cell = [t \in Tables |-> Unset(t)] /\ chosen = cell
  /\ demo \in BOOLEAN /\ ("notebook" \notin exists => ~demo)
  /\ call = [r \in Requests |-> NoCall]

Is(r, op) == call[r].op \in op
Then(r, at) == call' = [call EXCEPT ![r].at = at]
Wrote(r, at) == call' = [call EXCEPT ![r].at = at, ![r].wrote = TRUE]
Found(table, at) == IF table \in exists THEN at ELSE "not_found"
Mine(r, table, at) == IF call[r].owner THEN Found(table, at) ELSE "not_found"
Rows == <<exists, cell, chosen, demo>>

Start(r, op, owner, sets, at) ==
  /\ call[r].at = "idle"
  /\ call' = [call EXCEPT ![r] = [op |-> op, owner |-> owner, sets |-> sets, at |-> at, wrote |-> FALSE]]
  /\ UNCHANGED Rows

\* ensure_exists has run for a request's account before any other handler.
BeginSettings(r) ==
  \E op \in DOMAIN SettingsCalls : \E sets \in SUBSET SettingsCalls[op] :
    /\ op # "ensure" => "account" \in exists
    /\ Start(r, op, TRUE, sets, "find")

BeginNotebook(r) ==
  \E op \in DOMAIN NotebookCalls, owner \in BOOLEAN : \E sets \in SUBSET NotebookCalls[op] :
    /\ "account" \in exists
    /\ Start(r, op, owner \/ op = "create_notebook", sets, IF op = "create_notebook" THEN "policy" ELSE "read")

BeginNote(r) ==
  \E op \in DOMAIN NoteCalls, owner \in BOOLEAN : \E sets \in SUBSET NoteCalls[op] :
    /\ "account" \in exists
    /\ Start(r, op, owner, sets, IF op = "create_note" THEN "read" ELSE "join")

\* generate_and_store, when a model gave it questions.
BeginSuggestions(r) == "account" \in exists /\ Start(r, "suggest", TRUE, {"questions"}, "read")

-----------------------------------------------------------------------------
(* ensure_exists and get_or_create: find, insert unless there, read back *)
TableOf(r) == IF Is(r, {"ensure"}) THEN "account" ELSE "settings"
Ready(r) == IF Is(r, {"patch_settings"}) THEN "write" ELSE "ok"

FindRow(r) ==
  /\ call[r].at = "find"
  /\ Then(r, IF TableOf(r) \in exists THEN Ready(r) ELSE "insert")
  /\ UNCHANGED Rows

\* Mutant: ON CONFLICT DO UPDATE.
InsertOrReset(r) ==
  /\ call[r].at = "insert"
  /\ exists' = exists \cup {TableOf(r)}
  /\ cell' = [cell EXCEPT ![TableOf(r)] = Unset(TableOf(r))]
  /\ Then(r, "reread")
  /\ UNCHANGED <<chosen, demo>>

\* ON CONFLICT DO NOTHING
InsertUnlessThere(r) ==
  /\ call[r].at = "insert"
  /\ exists' = exists \cup {TableOf(r)}
  /\ Then(r, "reread")
  /\ UNCHANGED <<cell, chosen, demo>>

ReadBack(r) ==
  /\ call[r].at = "reread"
  /\ Then(r, IF TableOf(r) \in exists THEN Ready(r) ELSE "missing")
  /\ UNCHANGED Rows

\* The ActiveModel of a row writes the columns that are Set, and no other.
SetColumns(r, table) ==
  LET Changed(old) == [c \in Columns[table] |-> IF c \in call[r].sets THEN r ELSE old[c]]
  IN  /\ cell' = [cell EXCEPT ![table] = Changed(@)]
      /\ chosen' = [chosen EXCEPT ![table] = Changed(@)]
      /\ UNCHANGED <<exists, demo>>

WriteSettings(r) ==
  /\ Is(r, {"patch_settings"}) /\ call[r].at = "write"
  /\ SetColumns(r, "settings") /\ Wrote(r, "ok")

-----------------------------------------------------------------------------
(* Notebooks *)
\* Bound: one notebook and one note; an id that was deleted is not used again.
Never(op) == \A r \in Requests : call[r].op # op

\* The policy is asked before anything is created.
CreateNotebook(r) ==
  /\ Is(r, {"create_notebook"}) /\ call[r].at = "policy"
  /\ "notebook" \notin exists /\ Never("delete_notebook")
  /\ \/ Then(r, "denied") /\ UNCHANGED Rows
     \/ /\ exists' = exists \cup {"notebook"} /\ Wrote(r, "ok")
        /\ UNCHANGED <<cell, chosen, demo>>

\* get_for_user, or find_by_id for the task that stores suggestions.
ReadNotebook(r) ==
  /\ call[r].at = "read"
  /\ Then(r, Mine(r, "notebook", CASE call[r].op = "get_notebook" -> "count"
                                   [] call[r].op = "delete_notebook" -> "demo"
                                   [] OTHER -> "write"))
  /\ UNCHANGED Rows

CountSources(r) ==
  /\ call[r].at = "count"
  /\ Then(r, "ok") /\ UNCHANGED Rows

\* update: a row that has gone meanwhile is an error; the handler then reads it again.
UpdateNotebook(r) ==
  /\ Is(r, {"patch_notebook"}) /\ call[r].at = "write"
  /\ IF "notebook" \in exists
     THEN SetColumns(r, "notebook") /\ Wrote(r, "answer")
     ELSE Then(r, "not_found") /\ UNCHANGED Rows

AnswerPatched(r) ==
  /\ call[r].at = "answer"
  /\ Then(r, Found("notebook", "count")) /\ UNCHANGED Rows

\* update_suggested_questions
StoreQuestions(r) ==
  /\ Is(r, {"suggest"}) /\ call[r].at = "write"
  /\ IF "notebook" \in exists
     THEN SetColumns(r, "notebook") /\ Wrote(r, "ok")
     ELSE Then(r, "not_found") /\ UNCHANGED Rows

RefuseDemo(r) ==
  /\ call[r].at = "demo"
  /\ Then(r, IF demo THEN "denied" ELSE "recheck") /\ UNCHANGED Rows

RecheckOwner(r) ==
  /\ call[r].at = "recheck"
  /\ Then(r, Found("notebook", "delete")) /\ UNCHANGED Rows

\* The cascade takes the notes.
DeleteNotebookRow(r) ==
  /\ Is(r, {"delete_notebook"}) /\ call[r].at = "delete"
  /\ IF "notebook" \in exists
     THEN /\ exists' = exists \ {"notebook", "note"}
          /\ cell' = [cell EXCEPT !["notebook"] = Unset("notebook"), !["note"] = Unset("note")]
          /\ chosen' = [chosen EXCEPT !["notebook"] = Unset("notebook"), !["note"] = Unset("note")]
          /\ Wrote(r, "ok")
     ELSE Then(r, "not_found") /\ UNCHANGED <<exists, cell, chosen>>
  /\ UNCHANGED demo

-----------------------------------------------------------------------------
(* Notes *)
\* A note of a notebook that has gone since is refused by the foreign key.
CreateNote(r) ==
  /\ Is(r, {"create_note"}) /\ call[r].at = "write"
  /\ "note" \notin exists /\ Never("delete_note")
  /\ IF "notebook" \in exists
     THEN exists' = exists \cup {"note"} /\ Wrote(r, "ok") /\ UNCHANGED <<cell, chosen, demo>>
     ELSE Then(r, "error") /\ UNCHANGED Rows

\* get_for_user: the note joined with the notebook of its owner.
ReadNote(r) ==
  /\ call[r].at = "join"
  /\ Then(r, Mine(r, "note", IF Is(r, {"get_note"}) THEN "ok" ELSE "fetch"))
  /\ UNCHANGED Rows

FetchNote(r) ==
  /\ call[r].at = "fetch"
  /\ Then(r, Found("note", "owner")) /\ UNCHANGED Rows

CheckNotebook(r) ==
  /\ call[r].at = "owner"
  /\ Then(r, Found("notebook", "change")) /\ UNCHANGED Rows

UpdateNote(r) ==
  /\ Is(r, {"patch_note"}) /\ call[r].at = "change"
  /\ IF "note" \in exists
     THEN SetColumns(r, "note") /\ Wrote(r, "ok")
     ELSE Then(r, "not_found") /\ UNCHANGED Rows

\* The number of rows that were deleted is not looked at: a note that has just gone is
\* reported as deleted.
DeleteNoteRow(r) ==
  /\ Is(r, {"delete_note"}) /\ call[r].at = "change"
  /\ exists' = exists \ {"note"}
  /\ cell' = [cell EXCEPT !["note"] = Unset("note")]
  /\ chosen' = [chosen EXCEPT !["note"] = Unset("note")]
  /\ Wrote(r, "ok")
  /\ UNCHANGED demo

\* A payload out of its bounds, a failing statement, a client that left.
Ended == {"ok", "denied", "not_found", "missing", "error"}
Abandon(r) ==
  /\ call[r].at \notin Ended \cup {"idle"}
  /\ Then(r, "error") /\ UNCHANGED Rows

CallStep(r) ==
  \/ BeginSettings(r) \/ BeginNotebook(r) \/ BeginNote(r) \/ BeginSuggestions(r)
  \/ FindRow(r) \/ InsertUnlessThere(r) \/ ReadBack(r) \/ WriteSettings(r)
  \/ CreateNotebook(r) \/ ReadNotebook(r) \/ CountSources(r) \/ UpdateNotebook(r)
  \/ AnswerPatched(r) \/ StoreQuestions(r) \/ RefuseDemo(r) \/ RecheckOwner(r)
  \/ DeleteNotebookRow(r) \/ CreateNote(r) \/ ReadNote(r) \/ FetchNote(r) \/ CheckNotebook(r)
  \/ UpdateNote(r) \/ DeleteNoteRow(r) \/ Abandon(r)

OwnedNext == \E r \in Requests : CallStep(r)

OwnedSpec == OwnedInit /\ [][OwnedNext]_rowVars

-----------------------------------------------------------------------------
OwnedTypeOK ==
  /\ exists \subseteq Tables /\ demo \in BOOLEAN
  /\ \A t \in Tables : cell[t] \in [Columns[t] -> Requests \cup {Default}]
  /\ \A r \in Requests : call[r].owner \in BOOLEAN /\ call[r].wrote \in BOOLEAN

\* Calls that change different columns of a row do not undo each other, however their
\* reads and writes interleave, and a default never comes back once it was replaced.
NoChangeIsUndone == cell = chosen

\* Of several first requests all get the row: none fails for another's insert.
FirstUseFindsItsRow == \A r \in Requests : call[r].at # "missing"

\* No row without the row it belongs to, whatever is deleted while it is made.
RowsHaveOwners ==
  /\ "note" \in exists => "notebook" \in exists
  /\ exists # {} => "account" \in exists

\* Of the calls that delete a notebook one reports that it did, and one that reports the
\* notebook missing has changed nothing that is still there.
DeletionIsToldOnce ==
  Cardinality({r \in Requests : Is(r, {"delete_notebook"}) /\ call[r].at = "ok"}) <= 1

\* A call that is denied, or made by a stranger, or answered by "not found" while its row
\* is there, has written nothing.
RefusedWroteNothing ==
  \A r \in Requests :
    /\ call[r].at = "denied" \/ ~call[r].owner => ~call[r].wrote
    /\ call[r].at = "not_found" /\ call[r].wrote => "notebook" \notin exists

\* The rows of an account under concurrent requests.
OwnedInv ==
  /\ OwnedTypeOK /\ NoChangeIsUndone /\ FirstUseFindsItsRow /\ RowsHaveOwners
  /\ DeletionIsToldOnce /\ RefusedWroteNothing
=============================================================================
