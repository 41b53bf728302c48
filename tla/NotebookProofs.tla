--------------------------- MODULE NotebookProofs ---------------------------
(***************************************************************************)
(* Proofs about the rows of an account and the conversation of a notebook, *)
(* for any number of requests that interleave between their statements;    *)
(* and about the events of a notebook, for any publishers and clients.     *)
(***************************************************************************)
EXTENDS OwnedRows, Conversation, SourceEvents, PlacesProofs, FiniteSetTheorems, TLAPS

-----------------------------------------------------------------------------
(* The rows of an account. *)

Places ==
  {"idle", "find", "insert", "reread", "write", "policy", "read", "count", "answer", "demo",
   "recheck", "delete", "join", "fetch", "owner", "change"} \cup Ended

SettingsOps == {"ensure", "settings", "patch_settings"}
NotebookOps == {"create_notebook", "get_notebook", "patch_notebook", "delete_notebook"}
NoteOps == {"create_note", "get_note", "patch_note", "delete_note"}
Ops == SettingsOps \cup NotebookOps \cup NoteOps \cup {"none", "suggest"}

ColumnNames == {"provider", "model", "title", "memory", "questions", "content"}

CallSet ==
  [op : Ops, owner : BOOLEAN, sets : SUBSET ColumnNames, at : Places, wrote : BOOLEAN]

(* The operations that pass a place.                                       *)
Passing(op, at) ==
  /\ at = "idle" => op = "none"
  /\ at \in {"find", "insert", "reread"} => op \in SettingsOps
  /\ at = "policy" => op = "create_notebook"
  /\ at = "read" => op \in {"get_notebook", "patch_notebook", "delete_notebook", "create_note", "suggest"}
  /\ at = "write" => op \in {"patch_settings", "patch_notebook", "suggest", "create_note"}
  /\ at = "answer" => op = "patch_notebook"
  /\ at = "count" => op \in {"get_notebook", "patch_notebook"}
  /\ at \in {"demo", "recheck", "delete"} => op = "delete_notebook"
  /\ at = "join" => op \in {"get_note", "patch_note", "delete_note"}
  /\ at \in {"fetch", "owner", "change"} => op \in {"patch_note", "delete_note"}

FirstRow(op) == IF op = "ensure" THEN "account" ELSE "settings"

(* What a call where it is says of the rows.                               *)
CallOK(c, rows) ==
  /\ c \in CallSet /\ Passing(c.op, c.at)
  /\ c.wrote => c.at \in {"ok", "answer", "count", "not_found", "error"}
  /\ c.wrote /\ c.at \in {"answer", "count", "not_found"} => c.op = "patch_notebook"
  /\ ~c.owner => ~c.wrote /\ c.at \in {"read", "join", "not_found", "error"}
  /\ c.at # "missing"
  /\ c.at = "reread" => FirstRow(c.op) \in rows
  /\ c.op \notin {"none", "ensure"} => "account" \in rows
  /\ c.at = "not_found" /\ c.wrote => "notebook" \notin rows
  /\ c.op = "delete_notebook" /\ c.at = "ok" => "notebook" \notin rows

RowsOK(rows) ==
  /\ rows \subseteq Tables
  /\ "note" \in rows => "notebook" \in rows
  /\ rows # {} => "account" \in rows

Deleted(c) == c.op = "delete_notebook" /\ c.at = "ok"
Patched(c) == c.op = "patch_notebook" /\ c.wrote

(* A notebook that was changed is there, or a call to delete it was made,  *)
(* after which none is created any more.                                   *)
ChangedThenDeleted ==
  (\E r \in Requests : Patched(call[r])) => "notebook" \in exists \/ ~Never("delete_notebook")

CellsOK ==
  /\ cell = chosen /\ DOMAIN cell = Tables
  /\ \A t \in Tables : cell[t] \in [Columns[t] -> Requests \cup {Default}]

OwnedIInv ==
  /\ RowsOK(exists) /\ demo \in BOOLEAN /\ CellsOK
  /\ DOMAIN call = Requests /\ \A r \in Requests : CallOK(call[r], exists)
  /\ \A r, s \in Requests : Deleted(call[r]) /\ Deleted(call[s]) => r = s
  /\ ChangedThenDeleted

LEMMA TablesAre == Tables = {"account", "settings", "notebook", "note"}
BY DEF Tables, Columns

LEMMA OwnedStarts == OwnedInit => OwnedIInv
<1> SUFFICES ASSUME OwnedInit PROVE OwnedIInv
  OBVIOUS
<1>1. RowsOK(exists) /\ demo \in BOOLEAN
  BY TablesAre DEF OwnedInit, RowsOK
<1>2. CellsOK
  BY DEF OwnedInit, CellsOK, Unset
<1>3. DOMAIN call = Requests /\ \A r \in Requests : call[r] = NoCall
  BY DEF OwnedInit
<1>4. CallOK(NoCall, exists) /\ ~Deleted(NoCall) /\ ~Patched(NoCall)
  BY DEF CallOK, CallSet, NoCall, Passing, Places, Ops, Deleted, Patched
<1>. QED
  BY <1>1, <1>2, <1>3, <1>4 DEF OwnedIInv, ChangedThenDeleted

(* One call moves, and what rows it takes or makes does not disturb the    *)
(* others.                                                                 *)
OneMoves(r) ==
  /\ DOMAIN call' = Requests
  /\ \A s \in Requests \ {r} : call'[s] = call[s]
  /\ call'[r].op = call[r].op \/ call[r].at = "idle"

RowsMove ==
  /\ exists \cap {"account", "settings"} \subseteq exists'
  /\ "notebook" \in exists' => "notebook" \in exists \/ Never("delete_notebook")

LEMMA OthersKeep ==
  ASSUME OwnedIInv, NEW r \in Requests, OneMoves(r), RowsMove
  PROVE  \A s \in Requests \ {r} : CallOK(call'[s], exists')
<1> SUFFICES ASSUME NEW s \in Requests \ {r} PROVE CallOK(call[s], exists')
  BY DEF OneMoves
<1>1. CallOK(call[s], exists)
  BY DEF OwnedIInv
<1>2. "notebook" \in exists' /\ "notebook" \notin exists => ~Patched(call[s]) /\ ~Deleted(call[s])
  BY DEF OwnedIInv, RowsMove, ChangedThenDeleted, Never, Deleted
<1>. QED
  BY <1>1, <1>2 DEF CallOK, RowsMove, FirstRow, Patched, Deleted

(* What a step of one call has to show.                                    *)
LEMMA OwnedByParts ==
  ASSUME OwnedIInv, NEW r \in Requests, OneMoves(r), RowsMove,
         RowsOK(exists'), demo' \in BOOLEAN, CellsOK', CallOK(call'[r], exists'),
         Deleted(call'[r]) => Deleted(call[r]) \/ "notebook" \in exists,
         Patched(call'[r]) => Patched(call[r]) \/ "notebook" \in exists',
         "notebook" \in exists /\ "notebook" \notin exists' => call[r].op = "delete_notebook" /\ call[r].at # "idle"
  PROVE  OwnedIInv'
<1>1. \A s \in Requests : CallOK(call'[s], exists')
  BY OthersKeep
<1>2. \A s, t \in Requests : Deleted(call'[s]) /\ Deleted(call'[t]) => s = t
  <2>1. \A s \in Requests : CallOK(call[s], exists)
    BY DEF OwnedIInv
  <2>2. \A s \in Requests \ {r} : Deleted(call'[s]) => Deleted(call[s]) /\ "notebook" \notin exists
    BY <2>1 DEF OneMoves, Deleted, CallOK
  <2>3. \A s, t \in Requests : Deleted(call[s]) /\ Deleted(call[t]) => s = t
    BY DEF OwnedIInv
  <2>. QED
    BY <2>2, <2>3
<1>3. ChangedThenDeleted'
  <2> SUFFICES ASSUME NEW s \in Requests, Patched(call'[s]), "notebook" \notin exists'
               PROVE  \E t \in Requests : call'[t].op = "delete_notebook"
    BY DEF ChangedThenDeleted, Never
  <2>1. Patched(call[s])
    BY DEF OneMoves
  <2>2. "notebook" \in exists \/ \E t \in Requests : call[t].op = "delete_notebook"
    BY <2>1 DEF OwnedIInv, ChangedThenDeleted, Never
  <2>3. CASE "notebook" \in exists
    BY <2>3 DEF OneMoves
  <2>4. CASE \E t \in Requests : call[t].op = "delete_notebook"
    <3>1. PICK t \in Requests : call[t].op = "delete_notebook"
      BY <2>4
    <3>2. call[t].at # "idle"
      BY <3>1 DEF OwnedIInv, CallOK, Passing
    <3>. QED
      BY <3>1, <3>2 DEF OneMoves
  <2>. QED
    BY <2>2, <2>3, <2>4
<1>. QED
  BY <1>1, <1>2, <1>3 DEF OwnedIInv, OneMoves

(* The record a step leaves for its call.                                  *)
LEMMA ThenIs ==
  ASSUME OwnedIInv, NEW r \in Requests, NEW x \in Places, Then(r, x)
  PROVE  /\ OneMoves(r) /\ call'[r] \in CallSet
         /\ call'[r].at = x /\ call'[r].op = call[r].op /\ call'[r].owner = call[r].owner
         /\ call'[r].wrote = call[r].wrote /\ call'[r].sets = call[r].sets
<1>1. call[r] \in CallSet /\ DOMAIN call = Requests
  BY DEF OwnedIInv, CallOK
<1>2. call' = [call EXCEPT ![r] = [call[r] EXCEPT !.at = x]]
  BY DEF Then
<1>. QED
  BY <1>1, <1>2 DEF OneMoves, CallSet

LEMMA WroteIs ==
  ASSUME OwnedIInv, NEW r \in Requests, NEW x \in Places, Wrote(r, x)
  PROVE  /\ OneMoves(r) /\ call'[r] \in CallSet
         /\ call'[r].at = x /\ call'[r].op = call[r].op /\ call'[r].owner = call[r].owner
         /\ call'[r].wrote = TRUE /\ call'[r].sets = call[r].sets
<1>1. call[r] \in CallSet /\ DOMAIN call = Requests
  BY DEF OwnedIInv, CallOK
<1>2. call' = [call EXCEPT ![r] = [call[r] EXCEPT !.at = x, !.wrote = TRUE]]
  BY <1>1 DEF Wrote
<1>. QED
  BY <1>1, <1>2 DEF OneMoves, CallSet

(* A step that only moves its call.                                        *)
LEMMA MovesQuietly ==
  ASSUME OwnedIInv, NEW r \in Requests, NEW x \in Places, Then(r, x), UNCHANGED Rows,
         Passing(call[r].op, x), x # "missing",
         call[r].wrote => x \in {"ok", "answer", "count", "not_found", "error"},
         call[r].wrote /\ x \in {"answer", "count", "not_found"} => call[r].op = "patch_notebook",
         ~call[r].owner => x \in {"read", "join", "not_found", "error"},
         x = "reread" => FirstRow(call[r].op) \in exists,
         x = "not_found" /\ call[r].wrote => "notebook" \notin exists,
         x = "ok" => call[r].op # "delete_notebook"
  PROVE  OwnedIInv'
<1>1. UNCHANGED <<exists, cell, chosen, demo>>
  BY DEF Rows
<1>2. CallOK(call[r], exists)
  BY DEF OwnedIInv
<1>3. CallOK(call'[r], exists')
  BY <1>1, <1>2, ThenIs DEF CallOK
<1>4. RowsMove /\ RowsOK(exists') /\ demo' \in BOOLEAN /\ CellsOK'
  BY <1>1 DEF OwnedIInv, RowsMove, CellsOK
<1>5. /\ Deleted(call'[r]) => Deleted(call[r]) \/ "notebook" \in exists
      /\ Patched(call'[r]) => Patched(call[r]) \/ "notebook" \in exists'
  BY <1>2, ThenIs DEF Deleted, Patched
<1>. QED
  BY <1>1, <1>3, <1>4, <1>5, ThenIs, OwnedByParts

LEMMA OwnedQuietSteps ==
  ASSUME OwnedIInv, NEW r \in Requests,
         \/ FindRow(r) \/ ReadBack(r) \/ ReadNotebook(r) \/ CountSources(r) \/ AnswerPatched(r)
         \/ RefuseDemo(r) \/ RecheckOwner(r) \/ ReadNote(r) \/ FetchNote(r) \/ CheckNotebook(r)
         \/ Abandon(r)
  PROVE  OwnedIInv'
<1>1. CallOK(call[r], exists) /\ call[r].op \in Ops /\ call[r].at \in Places
  BY DEF OwnedIInv, CallOK, CallSet
<1> USE DEF Passing, Places, Ended, Is, Found
<1>2. CASE FindRow(r) \/ ReadBack(r)
  <2>1. TableOf(r) = FirstRow(call[r].op)
    BY DEF TableOf, FirstRow
  <2>2. \E x \in {"write", "ok", "insert"} :
          /\ Then(r, x) /\ UNCHANGED Rows
          /\ x = "write" => call[r].op = "patch_settings"
    BY <1>1, <1>2, <2>1 DEF FindRow, ReadBack, Ready, CallOK
  <2>. QED
    BY <1>1, <1>2, <2>2, MovesQuietly DEF CallOK, FindRow, ReadBack, SettingsOps
<1>3. CASE ReadNotebook(r)
  <2>1. \E x \in {"count", "demo", "write", "not_found"} :
          /\ Then(r, x) /\ UNCHANGED Rows
          /\ x = "count" => call[r].op = "get_notebook"
          /\ x = "demo" => call[r].op = "delete_notebook"
          /\ x = "write" => call[r].op \notin {"get_notebook", "delete_notebook"}
          /\ x # "not_found" => call[r].owner
    BY <1>3 DEF ReadNotebook, Mine
  <2>. QED
    BY <1>1, <1>3, <2>1, MovesQuietly DEF CallOK, ReadNotebook
<1>4. CASE CountSources(r) \/ AnswerPatched(r)
  BY <1>1, <1>4, MovesQuietly DEF CallOK, CountSources, AnswerPatched
<1>5. CASE RefuseDemo(r) \/ RecheckOwner(r)
  BY <1>1, <1>5, MovesQuietly DEF CallOK, RefuseDemo, RecheckOwner
<1>6. CASE ReadNote(r) \/ FetchNote(r) \/ CheckNotebook(r)
  BY <1>1, <1>6, MovesQuietly DEF CallOK, ReadNote, FetchNote, CheckNotebook, Mine
<1>7. CASE Abandon(r)
  BY <1>1, <1>7, MovesQuietly DEF CallOK, Abandon
<1>. QED
  BY <1>2, <1>3, <1>4, <1>5, <1>6, <1>7

LEMMA CallBegins ==
  ASSUME OwnedIInv, NEW r \in Requests, NEW op \in Ops, NEW owner \in BOOLEAN,
         NEW sets \in SUBSET ColumnNames, NEW at \in Places, Start(r, op, owner, sets, at),
         Passing(op, at), op # "ensure" => "account" \in exists,
         at \in {"find", "policy", "read", "join"}, ~owner => at \in {"read", "join"}
  PROVE  OwnedIInv'
<1> DEFINE new == [op |-> op, owner |-> owner, sets |-> sets, at |-> at, wrote |-> FALSE]
<1>1. call[r].at = "idle" /\ call' = [call EXCEPT ![r] = new] /\ UNCHANGED <<exists, cell, chosen, demo>>
  BY DEF Start, Rows
<1>2. CallOK(new, exists) /\ ~Deleted(new) /\ ~Patched(new)
  BY DEF CallOK, CallSet, Deleted, Patched
<1> HIDE DEF new
<1>3. OneMoves(r) /\ call'[r] = new
  BY <1>1 DEF OneMoves, OwnedIInv
<1>4. RowsMove /\ RowsOK(exists') /\ demo' \in BOOLEAN /\ CellsOK'
  BY <1>1 DEF OwnedIInv, RowsMove, CellsOK
<1>. QED
  BY <1>1, <1>2, <1>3, <1>4, OwnedByParts

LEMMA OwnedBegins ==
  ASSUME OwnedIInv, NEW r \in Requests,
         BeginSettings(r) \/ BeginNotebook(r) \/ BeginNote(r) \/ BeginSuggestions(r)
  PROVE  OwnedIInv'
<1> USE DEF Passing, Places, Ops, SettingsOps, NotebookOps, NoteOps, ColumnNames
<1>1. CASE BeginSettings(r)
  <2>0. \A op \in DOMAIN SettingsCalls : op \in SettingsOps /\ SettingsCalls[op] \subseteq ColumnNames
    BY DEF SettingsCalls
  <2>1. PICK op \in SettingsOps, sets \in SUBSET ColumnNames :
          (op # "ensure" => "account" \in exists) /\ Start(r, op, TRUE, sets, "find")
    <3>1. \E op \in DOMAIN SettingsCalls : \E sets \in SUBSET SettingsCalls[op] :
            (op # "ensure" => "account" \in exists) /\ Start(r, op, TRUE, sets, "find")
      BY <1>1 DEF BeginSettings
    <3>. QED
      BY <2>0, <3>1
  <2>. QED
    BY <2>1, CallBegins
<1>2. CASE BeginNotebook(r)
  <2>1. PICK op \in NotebookOps, owner \in BOOLEAN, sets \in SUBSET ColumnNames :
          /\ "account" \in exists
          /\ Start(r, op, owner \/ op = "create_notebook", sets,
                   IF op = "create_notebook" THEN "policy" ELSE "read")
    BY <1>2 DEF BeginNotebook, NotebookCalls
  <2>2. CASE op = "create_notebook"
    <3>1. Start(r, op, TRUE, sets, "policy")
      BY <2>1, <2>2 DEF Start
    <3>. QED
      BY <2>1, <2>2, <3>1, CallBegins
  <2>3. CASE op # "create_notebook"
    <3>1. Start(r, op, owner, sets, "read")
      BY <2>1, <2>3 DEF Start
    <3>. QED
      BY <2>1, <2>3, <3>1, CallBegins
  <2>. QED
    BY <2>2, <2>3
<1>3. CASE BeginNote(r)
  <2>1. PICK op \in NoteOps, owner \in BOOLEAN, sets \in SUBSET ColumnNames :
          /\ "account" \in exists
          /\ Start(r, op, owner, sets, IF op = "create_note" THEN "read" ELSE "join")
    BY <1>3 DEF BeginNote, NoteCalls
  <2>. QED
    BY <2>1, CallBegins
<1>4. CASE BeginSuggestions(r)
  BY <1>4, CallBegins DEF BeginSuggestions
<1>. QED
  BY <1>1, <1>2, <1>3, <1>4

LEMMA ColumnsSet ==
  ASSUME OwnedIInv, NEW r \in Requests, NEW table \in Tables, SetColumns(r, table)
  PROVE  CellsOK' /\ UNCHANGED <<exists, demo>>
<1> DEFINE Changed(old) == [c \in Columns[table] |-> IF c \in call[r].sets THEN r ELSE old[c]]
<1>1. /\ cell' = [cell EXCEPT ![table] = Changed(cell[table])]
      /\ chosen' = [chosen EXCEPT ![table] = Changed(chosen[table])]
      /\ UNCHANGED <<exists, demo>>
  BY DEF SetColumns
<1>2. Changed(cell[table]) \in [Columns[table] -> Requests \cup {Default}]
  BY DEF OwnedIInv, CellsOK
<1> HIDE DEF Changed
<1>. QED
  BY <1>1, <1>2 DEF OwnedIInv, CellsOK

(* A change of columns, made to a row that is there.                       *)
LEMMA ChangesColumns ==
  ASSUME OwnedIInv, NEW r \in Requests, NEW table \in Tables, NEW x \in {"ok", "answer"},
         table \in exists, SetColumns(r, table), Wrote(r, x),
         call[r].at \in {"write", "change"}, call[r].op \in {"patch_settings", "patch_notebook",
                                                             "suggest", "patch_note"},
         x = "answer" => call[r].op = "patch_notebook",
         call[r].op = "patch_notebook" => table = "notebook"
  PROVE  OwnedIInv'
<1>1. CellsOK' /\ UNCHANGED <<exists, demo>>
  BY ColumnsSet
<1>2. CallOK(call[r], exists)
  BY DEF OwnedIInv
<1>3. CallOK(call'[r], exists')
  BY <1>1, <1>2, WroteIs, ZenonT(40) DEF CallOK, Passing, Places, Ended
<1>4. RowsMove /\ RowsOK(exists') /\ demo' \in BOOLEAN
  BY <1>1 DEF OwnedIInv, RowsMove
<1>5. /\ Deleted(call'[r]) => Deleted(call[r]) \/ "notebook" \in exists
      /\ Patched(call'[r]) => Patched(call[r]) \/ "notebook" \in exists'
  BY <1>1, WroteIs DEF Deleted, Patched, Places, Ended
<1>6. OneMoves(r)
  BY WroteIs DEF Places, Ended
<1>. QED
  BY <1>1, <1>3, <1>4, <1>5, <1>6, OwnedByParts

(* A step that makes or takes rows and leaves the columns' values, or      *)
(* resets them.                                                            *)
LEMMA MakesRow ==
  ASSUME OwnedIInv, NEW r \in Requests, NEW table \in Tables, exists' = exists \cup {table},
         UNCHANGED <<cell, chosen, demo>>, OneMoves(r), CallOK(call'[r], exists'),
         table \in {"settings", "notebook"} => "account" \in exists,
         table = "note" => "notebook" \in exists,
         table = "notebook" => Never("delete_notebook"),
         ~Deleted(call'[r]), Patched(call'[r]) => Patched(call[r])
  PROVE  OwnedIInv'
<1>1. RowsMove /\ RowsOK(exists') /\ demo' \in BOOLEAN /\ CellsOK'
  BY TablesAre DEF OwnedIInv, RowsMove, RowsOK, CellsOK
<1>. QED
  BY <1>1, OwnedByParts

LEMMA RowReset ==
  ASSUME NEW cells, DOMAIN cells = Tables, NEW table \in Tables,
         \A t \in Tables : cells[t] \in [Columns[t] -> Requests \cup {Default}]
  PROVE  LET new == [cells EXCEPT ![table] = Unset(table)]
         IN  DOMAIN new = Tables /\ \A t \in Tables : new[t] \in [Columns[t] -> Requests \cup {Default}]
<1>1. Unset(table) \in [Columns[table] -> Requests \cup {Default}]
  BY DEF Unset
<1>. QED
  BY <1>1

(* A write that answers its request.                                       *)
LEMMA WroteOk ==
  ASSUME OwnedIInv, NEW r \in Requests, Wrote(r, "ok"),
         call[r].at \in {"write", "change", "policy", "delete"},
         exists \cap {"account"} \subseteq exists',
         call[r].op = "delete_notebook" => "notebook" \notin exists'
  PROVE  /\ CallOK(call'[r], exists') /\ OneMoves(r)
         /\ Deleted(call'[r]) => call[r].op = "delete_notebook"
         /\ Patched(call'[r]) => call[r].op = "patch_notebook"
<1>1. CallOK(call[r], exists)
  BY DEF OwnedIInv
<1>2. "ok" \in Places
  BY DEF Places, Ended
<1>3. /\ OneMoves(r) /\ call'[r] \in CallSet
      /\ call'[r].at = "ok" /\ call'[r].op = call[r].op /\ call'[r].owner = call[r].owner
      /\ call'[r].wrote = TRUE
  BY <1>2, WroteIs
<1>4. call[r].owner /\ call[r].op \notin {"none", "ensure"}
  BY <1>1 DEF CallOK, Passing
<1>5. CallOK(call'[r], exists')
  BY <1>1, <1>3, <1>4 DEF CallOK, Passing
<1>. QED
  BY <1>3, <1>5 DEF Deleted, Patched

LEMMA OwnedWrites ==
  ASSUME OwnedIInv, NEW r \in Requests,
         \/ InsertUnlessThere(r) \/ WriteSettings(r) \/ CreateNotebook(r) \/ UpdateNotebook(r)
         \/ StoreQuestions(r) \/ CreateNote(r) \/ UpdateNote(r)
  PROVE  OwnedIInv'
<1>1. CallOK(call[r], exists)
  BY DEF OwnedIInv
<1> USE DEF Is
<1>2. CASE InsertUnlessThere(r)
  <2>1. TableOf(r) = FirstRow(call[r].op) /\ TableOf(r) \in {"account", "settings"}
    BY DEF TableOf, FirstRow
  <2>2. Then(r, "reread") /\ exists' = exists \cup {TableOf(r)} /\ UNCHANGED <<cell, chosen, demo>>
        /\ call[r].at = "insert"
    BY <1>2 DEF InsertUnlessThere
  <2>3. OneMoves(r) /\ call'[r].at = "reread" /\ call'[r] \in CallSet /\ call'[r].op = call[r].op
        /\ call'[r].wrote = call[r].wrote /\ call'[r].owner = call[r].owner
    BY <2>2, ThenIs DEF Places
  <2>4. CallOK(call'[r], exists')
    BY <1>1, <2>1, <2>2, <2>3 DEF CallOK, Passing
  <2>5. ~Deleted(call'[r]) /\ (Patched(call'[r]) => Patched(call[r]))
    BY <2>3 DEF Deleted, Patched
  <2>6. TableOf(r) = "settings" => "account" \in exists
    BY <1>1, <2>1, <2>2 DEF CallOK, Passing, SettingsOps, FirstRow
  <2>. QED
    BY <2>1, <2>2, <2>3, <2>4, <2>5, <2>6, MakesRow, TablesAre
<1>3. CASE WriteSettings(r)
  <2>1. call[r].at = "write" /\ call[r].op = "patch_settings" /\ SetColumns(r, "settings") /\ Wrote(r, "ok")
    BY <1>3 DEF WriteSettings
  <2>2. CellsOK' /\ UNCHANGED <<exists, demo>>
    BY <2>1, ColumnsSet, TablesAre
  <2>3. CallOK(call'[r], exists') /\ OneMoves(r) /\ ~Deleted(call'[r]) /\ ~Patched(call'[r])
    BY <2>1, <2>2, WroteOk
  <2>5. RowsMove /\ RowsOK(exists') /\ demo' \in BOOLEAN
    BY <2>2 DEF OwnedIInv, RowsMove
  <2>. QED
    BY <2>2, <2>3, <2>5, OwnedByParts
<1>4. CASE CreateNotebook(r)
  <2>1. CASE Then(r, "denied") /\ UNCHANGED Rows
    BY <1>1, <1>4, <2>1, MovesQuietly DEF CallOK, CreateNotebook, Passing, Places, Ended
  <2>2. CASE exists' = exists \cup {"notebook"} /\ Wrote(r, "ok") /\ UNCHANGED <<cell, chosen, demo>>
    <3>1. call[r].op = "create_notebook" /\ call[r].at = "policy" /\ Never("delete_notebook")
      BY <1>4 DEF CreateNotebook
    <3>2. CallOK(call'[r], exists') /\ OneMoves(r) /\ ~Deleted(call'[r]) /\ ~Patched(call'[r])
      BY <2>2, <3>1, WroteOk
    <3>. QED
      BY <1>1, <2>2, <3>1, <3>2, MakesRow, TablesAre DEF CallOK
  <2>. QED
    BY <1>4, <2>1, <2>2 DEF CreateNotebook
<1>5. CASE UpdateNotebook(r)
  <2>1. CASE "notebook" \in exists
    BY <1>5, <2>1, ChangesColumns, TablesAre DEF UpdateNotebook
  <2>2. CASE "notebook" \notin exists
    BY <1>1, <1>5, <2>2, MovesQuietly DEF CallOK, UpdateNotebook, Passing, Places, Ended
  <2>. QED
    BY <2>1, <2>2
<1>6. CASE StoreQuestions(r)
  <2>1. CASE "notebook" \in exists
    BY <1>6, <2>1, ChangesColumns, TablesAre DEF StoreQuestions
  <2>2. CASE "notebook" \notin exists
    BY <1>1, <1>6, <2>2, MovesQuietly DEF CallOK, StoreQuestions, Passing, Places, Ended
  <2>. QED
    BY <2>1, <2>2
<1>7. CASE CreateNote(r)
  <2>1. CASE "notebook" \in exists
    <3>1. /\ call[r].op = "create_note" /\ call[r].at = "write"
          /\ exists' = exists \cup {"note"} /\ Wrote(r, "ok") /\ UNCHANGED <<cell, chosen, demo>>
      BY <1>7, <2>1 DEF CreateNote
    <3>2. CallOK(call'[r], exists') /\ OneMoves(r) /\ ~Deleted(call'[r]) /\ ~Patched(call'[r])
      BY <3>1, WroteOk
    <3>. QED
      BY <2>1, <3>1, <3>2, MakesRow, TablesAre
  <2>2. CASE "notebook" \notin exists
    BY <1>1, <1>7, <2>2, MovesQuietly DEF CallOK, CreateNote, Passing, Places, Ended
  <2>. QED
    BY <2>1, <2>2
<1>8. CASE UpdateNote(r)
  <2>1. CASE "note" \in exists
    BY <1>1, <1>8, <2>1, ChangesColumns, TablesAre DEF UpdateNote
  <2>2. CASE "note" \notin exists
    BY <1>1, <1>8, <2>2, MovesQuietly DEF CallOK, UpdateNote, Passing, Places, Ended
  <2>. QED
    BY <2>1, <2>2
<1>. QED
  BY <1>2, <1>3, <1>4, <1>5, <1>6, <1>7, <1>8

LEMMA OwnedDeletes ==
  ASSUME OwnedIInv, NEW r \in Requests, DeleteNotebookRow(r) \/ DeleteNoteRow(r)
  PROVE  OwnedIInv'
<1>1. CallOK(call[r], exists) /\ DOMAIN cell = Tables /\ DOMAIN chosen = Tables
  BY DEF OwnedIInv, CellsOK
<1> USE DEF Is
<1>2. CASE DeleteNotebookRow(r)
  <2>1. call[r].op = "delete_notebook" /\ call[r].at = "delete" /\ UNCHANGED demo
    BY <1>2 DEF DeleteNotebookRow
  <2>2. CASE "notebook" \in exists
    <3>1. exists' = exists \ {"notebook", "note"} /\ Wrote(r, "ok")
      BY <1>2, <2>2 DEF DeleteNotebookRow
    <3>2. CellsOK'
      <4> DEFINE once == [cell EXCEPT !["notebook"] = Unset("notebook")]
      <4>1. cell' = [once EXCEPT !["note"] = Unset("note")] /\ chosen' = cell'
        BY <1>2, <2>2 DEF DeleteNotebookRow, OwnedIInv, CellsOK
      <4>2. DOMAIN once = Tables /\ \A t \in Tables : once[t] \in [Columns[t] -> Requests \cup {Default}]
        BY RowReset, TablesAre DEF OwnedIInv, CellsOK
      <4> HIDE DEF once
      <4>. QED
        BY <4>1, <4>2, RowReset, TablesAre DEF CellsOK
    <3>3. CallOK(call'[r], exists') /\ OneMoves(r) /\ ~Patched(call'[r])
      BY <2>1, <3>1, WroteOk
    <3>5. RowsMove /\ RowsOK(exists') /\ demo' \in BOOLEAN
      BY <1>1, <2>1, <3>1 DEF CallOK, OwnedIInv, RowsMove, RowsOK
    <3>. QED
      BY <2>1, <2>2, <3>2, <3>3, <3>5, OwnedByParts
  <2>3. CASE "notebook" \notin exists
    BY <1>1, <1>2, <2>1, <2>3, MovesQuietly
    DEF CallOK, DeleteNotebookRow, Passing, Places, Ended, Rows
  <2>. QED
    BY <2>2, <2>3
<1>3. CASE DeleteNoteRow(r)
  <2>1. /\ call[r].op = "delete_note" /\ call[r].at = "change" /\ UNCHANGED demo
        /\ exists' = exists \ {"note"} /\ Wrote(r, "ok")
    BY <1>3 DEF DeleteNoteRow
  <2>2. CellsOK'
    <3>1. cell' = [cell EXCEPT !["note"] = Unset("note")] /\ chosen' = cell'
      BY <1>3 DEF DeleteNoteRow, OwnedIInv, CellsOK
    <3>. QED
      BY <3>1, RowReset, TablesAre DEF OwnedIInv, CellsOK
  <2>3. CallOK(call'[r], exists') /\ OneMoves(r) /\ ~Patched(call'[r]) /\ ~Deleted(call'[r])
    BY <2>1, WroteOk
  <2>5. RowsMove /\ RowsOK(exists') /\ demo' \in BOOLEAN
    BY <1>1, <2>1 DEF CallOK, OwnedIInv, RowsMove, RowsOK
  <2>. QED
    BY <2>1, <2>2, <2>3, <2>5, OwnedByParts
<1>. QED
  BY <1>2, <1>3

LEMMA OwnedKeeps == OwnedIInv /\ [OwnedNext]_rowVars => OwnedIInv'
<1>1. OwnedIInv /\ UNCHANGED rowVars => OwnedIInv'
  BY DEF OwnedIInv, CellsOK, ChangedThenDeleted, Never, rowVars
<1>. QED
  BY <1>1, OwnedBegins, OwnedQuietSteps, OwnedWrites, OwnedDeletes DEF OwnedNext, CallStep

(* An account's rows under any number of concurrent requests: no change of  *)
(* another column is undone, a first use always finds its row, no row is    *)
(* left without its owner, one of the calls that delete a notebook reports   *)
(* that it did, and a refused call has written nothing.                      *)
THEOREM RowsStayOwned == OwnedSpec => []OwnedInv
<1>1. OwnedIInv => DeletionIsToldOnce
  <2> SUFFICES ASSUME OwnedIInv PROVE DeletionIsToldOnce
    OBVIOUS
  <2> DEFINE told == {r \in Requests : Is(r, {"delete_notebook"}) /\ call[r].at = "ok"}
  <2>1. \A r, s \in told : r = s
    BY DEF OwnedIInv, Deleted, Is
  <2>2. CASE told = {}
    BY <2>2, FS_EmptySet DEF DeletionIsToldOnce
  <2>3. CASE told # {}
    <3>1. PICK r : told = {r}
      BY <2>1, <2>3
    <3>2. Cardinality(told) = 1
      <4> HIDE DEF told
      <4>. QED
        BY <3>1, FS_Singleton
    <3>. QED
      BY <3>2 DEF DeletionIsToldOnce
  <2>. QED
    BY <2>2, <2>3
<1>2. OwnedIInv => OwnedTypeOK /\ NoChangeIsUndone /\ FirstUseFindsItsRow
  BY DEF OwnedIInv, OwnedTypeOK, NoChangeIsUndone, FirstUseFindsItsRow, RowsOK, CellsOK, CallOK, CallSet
<1>3. OwnedIInv => RowsHaveOwners /\ RefusedWroteNothing
  BY DEF OwnedIInv, RowsHaveOwners, RefusedWroteNothing, RowsOK, CallOK
<1>4. OwnedIInv => OwnedInv
  BY <1>1, <1>2, <1>3 DEF OwnedInv
<1>. QED
  BY <1>4, OwnedStarts, OwnedKeeps, PTL DEF OwnedSpec

-----------------------------------------------------------------------------
(* The conversation of a notebook. *)

TurnPlaces ==
  {"idle", "policy", "model", "session", "store", "answering", "persist", "log", "done", "refused"}

MessageSet ==
  [turn : ChatTurns \cup {"earlier"}, role : {"user", "assistant"}, stamp : Nat, session : Nat, time : Nat]

LogSet == [of : Nat, answer : Nat, liked : BOOLEAN, slipped : BOOLEAN, time : Nat]

RequestSet == [at : TurnPlaces, session : Nat, stamp : Nat, since : Nat]

ClearSet == [at : {"idle", "messages", "commit"}, logs : SUBSET LogSet, messages : SUBSET MessageSet]

PageSet ==
  [at : {"idle", "fetch"}, offset : Nat, total : Nat, more : BOOLEAN,
   seen : SUBSET MessageSet, known : SUBSET MessageSet, late : SUBSET MessageSet]

RowTypes ==
  /\ open \in BOOLEAN /\ messages \subseteq MessageSet /\ IsFiniteSet(messages) /\ logs \subseteq LogSet
  /\ request \in [ChatTurns -> RequestSet] /\ clear \in ClearSet /\ page \in PageSet
  /\ clock \in 0 .. LastTick /\ nextStamp \in Nat /\ nextSession \in Nat

(* Stamps and sessions have been given out, and time has passed.           *)
Given ==
  /\ \A m \in messages : m.stamp \in 1 .. nextStamp - 1 /\ m.session \in 1 .. nextSession - 1 /\ m.time <= clock
  /\ \A l \in logs : l.of \in 1 .. nextStamp - 1 /\ l.answer < nextStamp /\ l.time <= clock
  /\ \A m \in page.known : m.stamp < nextStamp
  /\ raced \subseteq 1 .. nextSession - 1 /\ nextStamp > 0 /\ nextSession > 0

(* Where a turn has a session, and where it holds a stamp.                 *)
InSession == {"store", "answering", "persist", "log", "done"}

TurnsGiven ==
  \A t \in ChatTurns :
    /\ request[t].at \in InSession => request[t].session \in 1 .. nextSession - 1
    /\ request[t].at = "persist" => request[t].stamp \in 1 .. nextStamp - 1 /\ request[t].since <= clock

(* No stamp is given twice.                                                *)
StampsDiffer ==
  /\ \A m, o \in messages : m.stamp = o.stamp => m = o
  /\ \A t \in ChatTurns : request[t].at = "persist" =>
       /\ \A m \in messages \cup page.known : m.stamp # request[t].stamp
       /\ \A u \in ChatTurns : request[u].at = "persist" /\ request[u].stamp = request[t].stamp => u = t

(* Time passes in the order of the stamps.                                 *)
InOrder ==
  /\ \A m, o \in messages : m.stamp < o.stamp => m.time <= o.time
  /\ \A t \in ChatTurns : request[t].at = "persist" =>
       /\ \A m \in messages : /\ m.stamp < request[t].stamp => m.time <= request[t].since
                              /\ m.stamp > request[t].stamp => m.time >= request[t].since
       /\ \A u \in ChatTurns : request[u].at = "persist" /\ request[u].stamp < request[t].stamp
                               => request[u].since <= request[t].since

(* What a turn has stored, where it is.                                    *)
RowsOf(t) ==
  \A m \in messages : m.turn = t =>
    /\ request[t].at \in {"answering", "persist", "log", "done"}
    /\ m.session = request[t].session
    /\ m.role = "assistant" => request[t].at \in {"log", "done"}
    /\ m.role = "user" /\ request[t].at = "persist" => m.stamp < request[t].stamp

EarlierRows ==
  \A m \in messages : m.turn = "earlier" =>
    m.session = 1 /\ m.stamp = (IF m.role = "user" THEN 1 ELSE 2)

TurnRows == (\A t \in ChatTurns : RowsOf(t)) /\ EarlierRows /\ AnswersFollowQuestions

(* An answer that is not visible yet has overtaken every turn whose        *)
(* session is resolved.                                                    *)
Sessions ==
  /\ SessionsSplitOnSilence
  /\ \A t, u \in ChatTurns :
       request[t].at = "store" /\ request[u].at = "persist" => request[t].session \in raced

(* What a clear in progress has seen, and which traces it has not.         *)
Traces ==
  /\ TracesGoWithAnswers
  /\ clear.at # "commit" => clear.messages = {}
  /\ clear.at = "idle" => clear.logs = {}
  /\ clear.messages \subseteq messages
  /\ clear.at # "idle" => open
  /\ clear.at = "messages" => \A l \in logs \ clear.logs : l.slipped
  /\ clear.at = "commit" =>
       \A l \in logs \ clear.logs : (\E m \in clear.messages : m.stamp = l.answer) => l.slipped

(* The newest messages, as many as the offset skips, have been shown, as   *)
(* long as none was deleted; a clear in progress deletes one of those the  *)
(* reader knows, if any.                                                   *)
Paging ==
  /\ page.known \subseteq messages => page.known \cap NewestOf(messages, page.offset) \subseteq page.seen
  /\ page.known # {} /\ page.known \subseteq messages /\ clear.messages # {}
       => page.known \cap clear.messages # {}
  /\ page.at = "fetch" => /\ page.more /\ IsFiniteSet(page.late) /\ page.total = Cardinality(page.late)
  /\ IsFiniteSet(page.known) /\ IsFiniteSet(page.late)
  /\ PagesMissOnlyLate

ConversationIInv ==
  /\ RowTypes /\ Given /\ TurnsGiven /\ StampsDiffer /\ InOrder /\ TurnRows /\ Sessions /\ Traces
  /\ NothingOutlivesNotebook /\ Paging

LEMMA ConversationStarts == ConversationInit => ConversationIInv
<1> SUFFICES ASSUME ConversationInit PROVE ConversationIInv
  OBVIOUS
<1> USE ConversationAssumption
<1> DEFINE first == {Earlier("user", 1), Earlier("assistant", 2)}
<1>1. /\ messages = {} \/ messages = first
      /\ \A m \in messages : m \in first
      /\ logs = {[of |-> m.stamp, answer |-> m.stamp, liked |-> FALSE, slipped |-> FALSE, time |-> 0] :
                   m \in {m \in messages : m.role = "assistant"}}
      /\ request = [t \in ChatTurns |-> [at |-> "idle", session |-> 0, stamp |-> 0, since |-> 0]]
      /\ clear = NotClearing /\ page = NotPaging /\ open = TRUE
      /\ clock = 0 /\ nextStamp = 3 /\ nextSession = 2 /\ raced = {}
  BY DEF ConversationInit, NoStamp
<1>2. \A m \in first : /\ m \in MessageSet /\ m.turn = "earlier" /\ m.session = 1 /\ m.time = 0
                       /\ m.stamp = (IF m.role = "user" THEN 1 ELSE 2)
  BY DEF Earlier, MessageSet
<1>3. \A m, o \in first : (m.stamp = o.stamp => m = o) /\ (m.role = "user" /\ o.role = "assistant" => m.stamp < o.stamp)
  BY DEF Earlier
<1>4. IsFiniteSet(messages)
  <2>1. IsFiniteSet({Earlier("user", 1)}) /\ IsFiniteSet({Earlier("assistant", 2)})
    BY FS_Singleton
  <2>2. first = {Earlier("user", 1)} \cup {Earlier("assistant", 2)}
    OBVIOUS
  <2> HIDE DEF first
  <2>3. IsFiniteSet(first)
    BY <2>1, <2>2, FS_Union
  <2>. QED
    BY <1>1, <2>3, FS_EmptySet
<1> HIDE DEF first
<1>5. \A l \in logs : \E m \in messages : m.role = "assistant" /\ l.of = m.stamp /\ l.answer = m.stamp
                                            /\ l.slipped = FALSE /\ l.time = 0 /\ l \in LogSet
  <2> SUFFICES ASSUME NEW l \in logs
               PROVE  \E m \in messages : m.role = "assistant" /\ l.of = m.stamp /\ l.answer = m.stamp
                                            /\ l.slipped = FALSE /\ l.time = 0 /\ l \in LogSet
    OBVIOUS
  <2>1. PICK m \in messages : m.role = "assistant" /\
          l = [of |-> m.stamp, answer |-> m.stamp, liked |-> FALSE, slipped |-> FALSE, time |-> 0]
    BY <1>1
  <2>2. m.stamp = 2
    BY <1>1, <1>2, <2>1
  <2>. QED
    BY <2>1, <2>2 DEF LogSet
<1>6. \A t \in ChatTurns : request[t].at = "idle" /\ request[t] \in RequestSet
  BY <1>1 DEF RequestSet, TurnPlaces
<1>7. RowTypes
  BY <1>1, <1>2, <1>4, <1>5, <1>6
  DEF RowTypes, NotClearing, NotPaging, ClearSet, PageSet, LogSet
<1>8. Given
  BY <1>1, <1>2, <1>5 DEF Given, NotPaging, MessageSet
<1>9. TurnsGiven /\ StampsDiffer /\ InOrder
  BY <1>1, <1>2, <1>3, <1>6 DEF TurnsGiven, StampsDiffer, InOrder, InSession
<1>10. TurnRows
  BY <1>1, <1>2, <1>3 DEF TurnRows, RowsOf, EarlierRows, AnswersFollowQuestions
<1>11. Sessions
  BY <1>6 DEF Sessions, SessionsSplitOnSilence
<1>12. Traces
  BY <1>1, <1>2, <1>5 DEF Traces, TracesGoWithAnswers, NotClearing, NoStamp, MessageSet
<1>13. Paging
  BY <1>1, FS_EmptySet DEF Paging, NotPaging, PagesMissOnlyLate, NotClearing
<1>. QED
  BY <1>1, <1>7, <1>8, <1>9, <1>10, <1>11, <1>12, <1>13 DEF ConversationIInv, NothingOutlivesNotebook

(* The request a step leaves.                                              *)
LEMMA TurnGoes ==
  ASSUME request \in [ChatTurns -> RequestSet], NEW t \in ChatTurns, NEW next \in RequestSet, Go(t, next)
  PROVE  /\ request' \in [ChatTurns -> RequestSet] /\ request'[t] = next
         /\ \A u \in ChatTurns \ {t} : request'[u] = request[u]
BY DEF Go

LEMMA TurnMoves ==
  ASSUME request \in [ChatTurns -> RequestSet], NEW t \in ChatTurns, NEW x \in TurnPlaces, Move(t, x)
  PROVE  /\ request' \in [ChatTurns -> RequestSet] /\ request'[t].at = x
         /\ request'[t].session = request[t].session /\ request'[t].stamp = request[t].stamp
         /\ request'[t].since = request[t].since
         /\ \A u \in ChatTurns \ {t} : request'[u] = request[u]
<1>1. [request[t] EXCEPT !.at = x] \in RequestSet
  BY DEF RequestSet
<1>2. /\ request' \in [ChatTurns -> RequestSet] /\ request'[t] = [request[t] EXCEPT !.at = x]
      /\ \A u \in ChatTurns \ {t} : request'[u] = request[u]
  BY <1>1, TurnGoes DEF Move
<1>3. request[t] \in RequestSet
  OBVIOUS
<1>. QED
  BY <1>2, <1>3 DEF RequestSet

(* What leaves the rows, the clear and the reader alone.                   *)
LEMMA RowsAreLeft ==
  ASSUME ConversationIInv, UNCHANGED <<open, messages, logs, clear, page>>
  PROVE  Traces' /\ NothingOutlivesNotebook' /\ Paging'
BY DEF ConversationIInv, Traces, TracesGoWithAnswers, NothingOutlivesNotebook, Paging,
       PagesMissOnlyLate, NewestOf

LEMMA TurnsMoveOn ==
  ASSUME ConversationIInv, NEW t \in ChatTurns,
         NEW x \in {"policy", "refused", "model", "session", "done"}, Move(t, x),
         x = "done" => request[t].at \in {"answering", "persist", "log"},
         x = "refused" => request[t].at \in {"idle", "policy", "model", "store"},
         x \in {"policy", "model", "session"} => request[t].at \in {"idle", "policy", "model"},
         UNCHANGED <<open, messages, logs, clear, page, clock, nextStamp, nextSession, raced>>
  PROVE  ConversationIInv'
<1>1. /\ request' \in [ChatTurns -> RequestSet] /\ request'[t].at = x
      /\ request'[t].session = request[t].session /\ request'[t].stamp = request[t].stamp
      /\ request'[t].since = request[t].since
      /\ \A u \in ChatTurns \ {t} : request'[u] = request[u]
  BY TurnMoves DEF ConversationIInv, RowTypes, TurnPlaces
<1>2. RowTypes' /\ Given'
  BY <1>1 DEF ConversationIInv, RowTypes, Given
<1>3. TurnsGiven'
  BY <1>1 DEF ConversationIInv, TurnsGiven, InSession
<1>4. StampsDiffer' /\ InOrder'
  BY <1>1 DEF ConversationIInv, StampsDiffer, InOrder
<1>5. TurnRows'
  BY <1>1 DEF ConversationIInv, TurnRows, RowsOf, EarlierRows, AnswersFollowQuestions
<1>6. Sessions'
  BY <1>1 DEF ConversationIInv, Sessions, SessionsSplitOnSilence, Latest
<1>. QED
  BY <1>2, <1>3, <1>4, <1>5, <1>6, RowsAreLeft DEF ConversationIInv

(* A conversation that has messages has a latest one.                      *)
LEMMA SomeLatest ==
  ASSUME ConversationIInv, messages # {}
  PROVE  Latest # {}
<1> DEFINE ages == {nextStamp - m.stamp : m \in messages}
<1>1. \A m \in messages : m.stamp \in Nat /\ m.stamp < nextStamp /\ nextStamp \in Nat
  BY DEF ConversationIInv, RowTypes, Given, MessageSet
<1>2. ages \subseteq Nat /\ ages # {}
  BY <1>1
<1>3. PICK a \in ages : \A b \in ages : a <= b
  <2> HIDE DEF ages
  <2>. QED
    BY <1>2, LeastOf
<1>4. PICK m \in messages : a = nextStamp - m.stamp
  BY <1>3
<1>5. \A o \in messages : a <= nextStamp - o.stamp
  BY <1>3
<1>6. m \in Latest
  BY <1>1, <1>4, <1>5 DEF Latest
<1>. QED
  BY <1>6

LEMMA TurnJoins ==
  ASSUME ConversationIInv, NEW t \in ChatTurns, request[t].at = "session",
         UNCHANGED <<open, messages, logs, clear, page, clock, nextStamp>>,
         NEW session, Go(t, [request[t] EXCEPT !.at = "store", !.session = session]),
         nextSession' \in Nat, nextSession' >= nextSession, session \in 1 .. nextSession' - 1,
         raced \subseteq raced', raced' \subseteq raced \cup {session},
         Pending # {} => session \in raced',
         \/ session \in raced'
         \/ \E m \in Latest : m.session = session
         \/ \A m \in messages : m.session # session /\ clock - m.time >= SessionTimeout
  PROVE  ConversationIInv'
<1> DEFINE next == [request[t] EXCEPT !.at = "store", !.session = session]
<1>1. next \in RequestSet /\ next.at = "store" /\ next.session = session
  <2>1. session \in Nat /\ request[t] \in RequestSet
    BY DEF ConversationIInv, RowTypes
  <2>. QED
    BY <2>1 DEF RequestSet, TurnPlaces
<1>2. /\ request' \in [ChatTurns -> RequestSet] /\ request'[t] = next
      /\ \A u \in ChatTurns \ {t} : request'[u] = request[u]
  BY <1>1, TurnGoes DEF ConversationIInv, RowTypes
<1> HIDE DEF next
<1>3. RowTypes'
  BY <1>2 DEF ConversationIInv, RowTypes
<1>4. Given'
  BY DEF ConversationIInv, RowTypes, Given
<1>5. TurnsGiven'
  BY <1>1, <1>2 DEF ConversationIInv, RowTypes, TurnsGiven, InSession
<1>6. StampsDiffer' /\ InOrder'
  BY <1>1, <1>2 DEF ConversationIInv, StampsDiffer, InOrder
<1>7. TurnRows'
  BY <1>1, <1>2 DEF ConversationIInv, TurnRows, RowsOf, EarlierRows, AnswersFollowQuestions
<1>8. SessionsSplitOnSilence'
  BY <1>1, <1>2 DEF ConversationIInv, Sessions, SessionsSplitOnSilence, Latest
<1>9. \A a, u \in ChatTurns : request'[a].at = "store" /\ request'[u].at = "persist" => request'[a].session \in raced'
  BY <1>1, <1>2 DEF ConversationIInv, Sessions, Pending
<1>. QED
  BY <1>3, <1>4, <1>5, <1>6, <1>7, <1>8, <1>9, RowsAreLeft DEF ConversationIInv, Sessions

(* A turn that resolves its session joins the latest message's, or opens   *)
(* one of its own when nobody has spoken for the timeout.                  *)
LEMMA TurnResolves ==
  ASSUME ConversationIInv, NEW t \in ChatTurns, ResolveSession(t)
  PROVE  ConversationIInv'
<1> USE ConversationAssumption
<1>1. request[t].at = "session" /\ UNCHANGED <<open, messages, logs, clear, page, clock, nextStamp>>
  BY DEF ResolveSession, chatRows
<1>2. ASSUME NEW m \in Recent, Resolved(t, m.session, Pending # {}), UNCHANGED nextSession
      PROVE  ConversationIInv'
  <2>1. m \in Latest /\ m.session \in 1 .. nextSession - 1 /\ nextSession \in Nat
    BY DEF Recent, Latest, ConversationIInv, RowTypes, Given
  <2>2. /\ Go(t, [request[t] EXCEPT !.at = "store", !.session = m.session])
        /\ raced \subseteq raced' /\ raced' \subseteq raced \cup {m.session}
        /\ Pending # {} => m.session \in raced'
    BY <1>2 DEF Resolved
  <2>3. \E o \in Latest : o.session = m.session
    BY <2>1
  <2>4. nextSession' \in Nat /\ nextSession' >= nextSession /\ m.session \in 1 .. nextSession' - 1
    BY <1>2, <2>1
  <2>. QED
    BY <1>1, <2>2, <2>3, <2>4, TurnJoins
<1>3. ASSUME NEW failed \in BOOLEAN, failed \/ Recent = {}, nextSession' = nextSession + 1,
             Resolved(t, nextSession, failed \/ Pending # {})
      PROVE  ConversationIInv'
  <2>1. nextSession \in Nat \ {0} /\ \A m \in messages : m.session \in 1 .. nextSession - 1
    BY DEF ConversationIInv, RowTypes, Given
  <2>2. /\ Go(t, [request[t] EXCEPT !.at = "store", !.session = nextSession])
        /\ raced \subseteq raced' /\ raced' \subseteq raced \cup {nextSession}
        /\ failed \/ Pending # {} => nextSession \in raced'
    BY <1>3 DEF Resolved
  <2>3. ASSUME ~failed, NEW m \in messages PROVE clock - m.time >= SessionTimeout
    <3>1. PICK o \in Latest : TRUE
      BY SomeLatest
    <3>2. o \in messages /\ m.stamp <= o.stamp /\ ~(clock - o.time < SessionTimeout)
      BY <1>3, <2>3, <3>1 DEF Latest, Recent, ShouldReuseSession
    <3>3. m.time \in Nat /\ o.time \in Nat /\ m.stamp \in Nat /\ o.stamp \in Nat /\ clock \in Int
      BY <3>2 DEF ConversationIInv, RowTypes, MessageSet
    <3>4. m.time <= o.time
      BY <3>2, <3>3 DEF ConversationIInv, InOrder, StampsDiffer
    <3>. QED
      BY <3>2, <3>3, <3>4
  <2>4. nextSession' \in Nat /\ nextSession' >= nextSession /\ nextSession \in 1 .. nextSession' - 1
    BY <1>3, <2>1
  <2>5. \/ nextSession \in raced'
        \/ \A m \in messages : m.session # nextSession /\ clock - m.time >= SessionTimeout
    BY <2>1, <2>2, <2>3
  <2>. QED
    BY <1>1, <2>2, <2>4, <2>5, TurnJoins
<1>. QED
  BY <1>2, <1>3 DEF ResolveSession

(* The newest of more messages are no more of those there were.            *)
LEMMA NewestOfMore ==
  ASSUME NEW M, NEW N, M \subseteq N, IsFiniteSet(N), NEW n \in Nat
  PROVE  NewestOf(N, n) \cap M \subseteq NewestOf(M, n)
<1> SUFFICES ASSUME NEW m \in M, Cardinality({o \in N : o.stamp > m.stamp}) < n
             PROVE  Cardinality({o \in M : o.stamp > m.stamp}) < n
  BY DEF NewestOf
<1>1. IsFiniteSet({o \in N : o.stamp > m.stamp})
  BY FS_Subset
<1>2. {o \in M : o.stamp > m.stamp} \in SUBSET {o \in N : o.stamp > m.stamp}
  OBVIOUS
<1>3. /\ Cardinality({o \in M : o.stamp > m.stamp}) <= Cardinality({o \in N : o.stamp > m.stamp})
      /\ IsFiniteSet({o \in M : o.stamp > m.stamp})
  BY <1>1, <1>2, FS_Subset
<1>4. /\ Cardinality({o \in N : o.stamp > m.stamp}) \in Nat
      /\ Cardinality({o \in M : o.stamp > m.stamp}) \in Nat
  BY <1>1, <1>3, FS_CardinalityType
<1>. QED
  BY <1>3, <1>4

(* A message the reader does not know is stored.                           *)
LEMMA RowIsAdded ==
  ASSUME ConversationIInv, NEW m \in MessageSet, m \notin page.known, messages' = messages \cup {m}, open,
         UNCHANGED <<open, logs, clear, page>>
  PROVE  Traces' /\ NothingOutlivesNotebook' /\ Paging' /\ messages' \subseteq MessageSet /\ IsFiniteSet(messages')
<1>1. messages' \subseteq MessageSet /\ IsFiniteSet(messages')
  BY FS_AddElement DEF ConversationIInv, RowTypes
<1>2. Traces' /\ NothingOutlivesNotebook'
  BY DEF ConversationIInv, Traces, TracesGoWithAnswers, NothingOutlivesNotebook
<1>3. page.offset \in Nat /\ NewestOf(messages, page.offset)' = NewestOf(messages', page.offset)
  BY DEF ConversationIInv, RowTypes, PageSet, NewestOf
<1>4. NewestOf(messages', page.offset) \cap messages \subseteq NewestOf(messages, page.offset)
  BY <1>1, <1>3, NewestOfMore
<1>5. page.known \subseteq messages' => page.known \subseteq messages
  OBVIOUS
<1>6. Paging'
  BY <1>3, <1>4, <1>5 DEF ConversationIInv, Paging, PagesMissOnlyLate
<1>. QED
  BY <1>1, <1>2, <1>6

LEMMA TurnAsks ==
  ASSUME ConversationIInv, NEW t \in ChatTurns, StoreQuestion(t)
  PROVE  ConversationIInv'
<1> USE ConversationAssumption
<1>1. CASE ~open
  <2>1. Move(t, "refused") /\ request[t].at = "store"
        /\ UNCHANGED <<open, messages, logs, clear, page, clock, nextStamp, nextSession, raced>>
    BY <1>1 DEF StoreQuestion
  <2>. QED
    BY <2>1, TurnsMoveOn
<1>2. CASE open
  <2> DEFINE q == Message(t, "user", nextStamp, clock)
  <2>1. /\ request[t].at = "store" /\ Move(t, "answering") /\ messages' = messages \cup {q}
        /\ nextStamp' = nextStamp + 1 /\ UNCHANGED <<open, logs, clear, page, clock, nextSession>>
        /\ Overtakes(ChatTurns \ {t})
    BY <1>2 DEF StoreQuestion
  <2>2. /\ request' \in [ChatTurns -> RequestSet] /\ request'[t].at = "answering"
        /\ request'[t].session = request[t].session /\ request'[t].stamp = request[t].stamp
        /\ request'[t].since = request[t].since
        /\ \A u \in ChatTurns \ {t} : request'[u] = request[u]
    BY <2>1, TurnMoves DEF ConversationIInv, RowTypes, TurnPlaces
  <2>3. /\ request[t].session \in 1 .. nextSession - 1 /\ clock \in Nat /\ nextStamp \in Nat /\ nextSession \in Nat
        /\ nextStamp > 0 /\ t # "earlier"
    BY <2>1 DEF ConversationIInv, RowTypes, Given, TurnsGiven, InSession
  <2>4. /\ q.turn = t /\ q.role = "user" /\ q.stamp = nextStamp /\ q.session = request[t].session
        /\ q.time = clock /\ q \in MessageSet
    BY <2>3 DEF Message, MessageSet
  <2> HIDE DEF q
  <2>5. /\ raced \subseteq raced'
        /\ \A u \in ChatTurns \ {t} : request[u].at = "store" => request[u].session \in raced'
        /\ \A x \in raced' : x \in raced \/ \E u \in ChatTurns : request[u].at = "store" /\ x = request[u].session
    BY <2>1 DEF Overtakes
  <2>6. \A m \in messages : m.stamp \in Nat /\ m.stamp < nextStamp /\ m.time \in Nat /\ m.time <= clock
    BY DEF ConversationIInv, RowTypes, Given, MessageSet
  <2>7. \A m \in page.known : m.stamp < nextStamp /\ m.stamp \in Nat
    BY DEF ConversationIInv, RowTypes, Given, PageSet, MessageSet
  <2>8. q \notin page.known
    BY <2>3, <2>4, <2>7
  <2>9. Traces' /\ NothingOutlivesNotebook' /\ Paging' /\ messages' \subseteq MessageSet /\ IsFiniteSet(messages')
    BY <1>2, <2>1, <2>4, <2>8, RowIsAdded
  <2>10. RowTypes'
    BY <2>1, <2>2, <2>9 DEF ConversationIInv, RowTypes
  <2>11. Given'
    <3>1. \A x \in raced' : x \in 1 .. nextSession - 1
      BY <2>5 DEF ConversationIInv, Given, TurnsGiven, InSession
    <3>2. \A m \in messages' : m.stamp \in 1 .. nextStamp' - 1 /\ m.session \in 1 .. nextSession' - 1 /\ m.time <= clock'
      BY <2>1, <2>3, <2>4 DEF ConversationIInv, Given
    <3>3. \A l \in logs' : l.of \in 1 .. nextStamp' - 1 /\ l.answer < nextStamp' /\ l.time <= clock'
      BY <2>1, <2>3 DEF ConversationIInv, Given, RowTypes, LogSet
    <3>4. \A m \in page'.known : m.stamp < nextStamp'
      BY <2>1, <2>3, <2>7
    <3>. QED
      BY <2>1, <2>3, <3>1, <3>2, <3>3, <3>4 DEF Given
  <2>12. TurnsGiven'
    BY <2>1, <2>2, <2>3 DEF ConversationIInv, TurnsGiven, InSession
  <2>13. \A u \in ChatTurns : request'[u].at = "persist" =>
           /\ request[u].at = "persist" /\ request'[u] = request[u] /\ request[u].stamp < nextStamp
           /\ request[u].since <= clock /\ request[u].since \in Nat /\ request[u].stamp \in Nat
    BY <2>2 DEF ConversationIInv, TurnsGiven, RowTypes, RequestSet
  <2>14. StampsDiffer'
    BY <2>1, <2>3, <2>4, <2>6, <2>13 DEF ConversationIInv, StampsDiffer
  <2>15. InOrder'
    BY <2>1, <2>3, <2>4, <2>6, <2>13 DEF ConversationIInv, InOrder
  <2>16. \A m \in messages : m.turn # t
    BY <2>1 DEF ConversationIInv, TurnRows, RowsOf
  <2>17. TurnRows'
    BY <2>1, <2>2, <2>3, <2>4, <2>16 DEF ConversationIInv, TurnRows, RowsOf, EarlierRows, AnswersFollowQuestions
  <2>18. Sessions'
    BY <2>2, <2>5 DEF Sessions, SessionsSplitOnSilence
  <2>. QED
    BY <2>9, <2>10, <2>11, <2>12, <2>14, <2>15, <2>17, <2>18 DEF ConversationIInv
<1>. QED
  BY <1>1, <1>2

(* A turn begins its answer, which is stamped now and visible later.       *)
LEMMA TurnBeginsAnswer ==
  ASSUME ConversationIInv, NEW t \in ChatTurns, BeginAnswer(t)
  PROVE  ConversationIInv'
<1> USE ConversationAssumption
<1> DEFINE next == [request[t] EXCEPT !.at = "persist", !.stamp = nextStamp, !.since = clock]
<1>1. /\ request[t].at = "answering" /\ Go(t, next) /\ nextStamp' = nextStamp + 1 /\ Overtakes(ChatTurns)
      /\ UNCHANGED <<open, messages, logs, clear, page, clock, nextSession>>
  BY DEF BeginAnswer, chatRows
<1>2. /\ nextStamp \in Nat /\ nextStamp > 0 /\ clock \in Nat /\ nextSession \in Nat
      /\ request[t] \in RequestSet
  BY DEF ConversationIInv, RowTypes, Given
<1>3. /\ next \in RequestSet /\ next.at = "persist" /\ next.stamp = nextStamp /\ next.since = clock
      /\ next.session = request[t].session
  BY <1>2 DEF RequestSet, TurnPlaces
<1>4. /\ request' \in [ChatTurns -> RequestSet] /\ request'[t] = next
      /\ \A u \in ChatTurns \ {t} : request'[u] = request[u]
  BY <1>1, <1>3, TurnGoes DEF ConversationIInv, RowTypes
<1> HIDE DEF next
<1>5. /\ raced \subseteq raced'
      /\ \A u \in ChatTurns : request[u].at = "store" => request[u].session \in raced'
      /\ \A x \in raced' : x \in raced \/ \E u \in ChatTurns : request[u].at = "store" /\ x = request[u].session
  BY <1>1 DEF Overtakes
<1>6. \A m \in messages : m.stamp \in Nat /\ m.stamp < nextStamp /\ m.time \in Nat /\ m.time <= clock
  BY DEF ConversationIInv, RowTypes, Given, MessageSet
<1>7. \A m \in page.known : m.stamp < nextStamp /\ m.stamp \in Nat
  BY DEF ConversationIInv, RowTypes, Given, PageSet, MessageSet
<1>8. \A u \in ChatTurns : request[u].at = "persist" =>
         /\ request[u].stamp < nextStamp /\ request[u].since <= clock
         /\ request[u].since \in Nat /\ request[u].stamp \in Nat
  BY DEF ConversationIInv, TurnsGiven, RowTypes, RequestSet
<1>9. RowTypes'
  BY <1>1, <1>2, <1>4 DEF ConversationIInv, RowTypes
<1>10. Given'
  <2>1. \A x \in raced' : x \in 1 .. nextSession - 1
    BY <1>5 DEF ConversationIInv, Given, TurnsGiven, InSession
  <2>2. \A m \in messages : m.stamp \in 1 .. nextStamp' - 1
    BY <1>1, <1>2 DEF ConversationIInv, Given
  <2>3. \A l \in logs : l.of \in 1 .. nextStamp' - 1 /\ l.answer < nextStamp'
    BY <1>1, <1>2 DEF ConversationIInv, Given, RowTypes, LogSet
  <2>4. \A m \in page.known : m.stamp < nextStamp'
    BY <1>1, <1>2, <1>7
  <2>5. nextStamp' > 0
    BY <1>1, <1>2
  <2>. QED
    BY <1>1, <2>1, <2>2, <2>3, <2>4, <2>5 DEF ConversationIInv, Given
<1>11. TurnsGiven'
  BY <1>1, <1>2, <1>3, <1>4 DEF ConversationIInv, TurnsGiven, InSession
<1>12. StampsDiffer'
  BY <1>1, <1>2, <1>3, <1>4, <1>6, <1>7, <1>8 DEF ConversationIInv, StampsDiffer
<1>13. InOrder'
  BY <1>1, <1>2, <1>3, <1>4, <1>6, <1>8 DEF ConversationIInv, InOrder
<1>14. TurnRows'
  BY <1>1, <1>3, <1>4, <1>6 DEF ConversationIInv, TurnRows, RowsOf, EarlierRows, AnswersFollowQuestions
<1>15. Sessions'
  BY <1>3, <1>4, <1>5 DEF Sessions, SessionsSplitOnSilence
<1>. QED
  BY <1>1, <1>9, <1>10, <1>11, <1>12, <1>13, <1>14, <1>15, RowsAreLeft DEF ConversationIInv

LEMMA TurnAnswers ==
  ASSUME ConversationIInv, NEW t \in ChatTurns, StoreAnswer(t)
  PROVE  ConversationIInv'
<1> USE ConversationAssumption
<1>1. CASE ~open
  <2>1. Move(t, "done") /\ request[t].at = "persist"
        /\ UNCHANGED <<open, messages, logs, clear, page, clock, nextStamp, nextSession, raced>>
    BY <1>1 DEF StoreAnswer, counters
  <2>. QED
    BY <2>1, TurnsMoveOn
<1>2. CASE open
  <2> DEFINE a == Message(t, "assistant", request[t].stamp, request[t].since)
  <2>1. /\ request[t].at = "persist" /\ messages' = messages \cup {a}
        /\ UNCHANGED <<open, logs, clear, page, clock, nextStamp, nextSession, raced>>
    BY <1>2 DEF StoreAnswer, counters
  <2>2. PICK x \in Afterwards : Move(t, x)
    BY <1>2 DEF StoreAnswer
  <2>3. /\ request' \in [ChatTurns -> RequestSet] /\ request'[t].at = x
        /\ request'[t].session = request[t].session /\ request'[t].stamp = request[t].stamp
        /\ request'[t].since = request[t].since /\ x \in {"log", "done"}
        /\ \A u \in ChatTurns \ {t} : request'[u] = request[u]
    BY <2>2, TurnMoves DEF ConversationIInv, RowTypes, TurnPlaces, Afterwards
  <2>4. /\ request[t].session \in 1 .. nextSession - 1 /\ clock \in Nat /\ nextStamp \in Nat /\ nextSession \in Nat
        /\ request[t].stamp \in 1 .. nextStamp - 1 /\ request[t].since <= clock /\ request[t].since \in Nat
        /\ t # "earlier"
    BY <2>1 DEF ConversationIInv, RowTypes, TurnsGiven, InSession, RequestSet
  <2>5. /\ a.turn = t /\ a.role = "assistant" /\ a.stamp = request[t].stamp /\ a.session = request[t].session
        /\ a.time = request[t].since /\ a \in MessageSet
    BY <2>4 DEF Message, MessageSet
  <2> HIDE DEF a
  <2>6. \A m \in messages \cup page.known : m.stamp # a.stamp
    BY <2>1, <2>5 DEF ConversationIInv, StampsDiffer
  <2>7. Traces' /\ NothingOutlivesNotebook' /\ Paging' /\ messages' \subseteq MessageSet /\ IsFiniteSet(messages')
    BY <1>2, <2>1, <2>5, <2>6, RowIsAdded
  <2>8. RowTypes'
    BY <2>1, <2>3, <2>7 DEF ConversationIInv, RowTypes
  <2>9. Given'
    BY <2>1, <2>4, <2>5 DEF ConversationIInv, Given
  <2>10. TurnsGiven'
    BY <2>1, <2>3 DEF ConversationIInv, TurnsGiven, InSession
  <2>11. \A u \in ChatTurns : request'[u].at = "persist" => u # t /\ request[u].at = "persist" /\ request'[u] = request[u]
    BY <2>3
  <2>12. StampsDiffer'
    BY <2>1, <2>5, <2>6, <2>11 DEF ConversationIInv, StampsDiffer
  <2>13. InOrder'
    <3>1. ASSUME NEW m \in messages
          PROVE  (m.stamp < a.stamp => m.time <= a.time) /\ (a.stamp < m.stamp => a.time <= m.time)
      <4>1. m.stamp \in Nat /\ m.time \in Nat
        BY DEF ConversationIInv, RowTypes, MessageSet
      <4>2. request[t].at = "persist"
        BY <2>1
      <4>3. InOrder
        BY DEF ConversationIInv
      <4>4. /\ m.stamp < request[t].stamp => m.time <= request[t].since
            /\ m.stamp > request[t].stamp => m.time >= request[t].since
        BY <4>2, <4>3 DEF InOrder
      <4>. QED
        BY <2>4, <2>5, <4>1, <4>4
    <3>2. \A u \in ChatTurns : request'[u].at = "persist" =>
            /\ a.stamp < request[u].stamp => a.time <= request[u].since
            /\ a.stamp > request[u].stamp => a.time >= request[u].since
      BY <2>1, <2>4, <2>5, <2>11 DEF ConversationIInv, InOrder, RowTypes, RequestSet
    <3>. QED
      BY <2>1, <2>5, <2>11, <3>1, <3>2 DEF ConversationIInv, InOrder
  <2>14. \A m \in messages : m.turn = t =>
           m.role # "assistant" /\ m.session = a.session /\ (m.role = "user" => m.stamp < a.stamp)
    BY <2>1, <2>5 DEF ConversationIInv, TurnRows, RowsOf
  <2>15. TurnRows'
    BY <2>1, <2>3, <2>4, <2>5, <2>14 DEF ConversationIInv, TurnRows, RowsOf, EarlierRows, AnswersFollowQuestions
  <2>16. \A u \in ChatTurns : request[u].at = "store" => request[u].session \in raced
    BY <2>1 DEF ConversationIInv, Sessions
  <2>17. Sessions'
    BY <2>1, <2>3, <2>16 DEF Sessions, SessionsSplitOnSilence
  <2>. QED
    BY <2>7, <2>8, <2>9, <2>10, <2>12, <2>13, <2>15, <2>17 DEF ConversationIInv
<1>. QED
  BY <1>1, <1>2

(* What leaves the messages and the requests alone, and time where it was. *)
LEMMA TurnsAreLeft ==
  ASSUME ConversationIInv, UNCHANGED <<open, messages, request, clock, nextStamp, nextSession, raced>>, page'.known = page.known
  PROVE  TurnsGiven' /\ StampsDiffer' /\ InOrder' /\ TurnRows' /\ Sessions'
BY DEF ConversationIInv, TurnsGiven, StampsDiffer, InOrder, TurnRows, RowsOf, EarlierRows, AnswersFollowQuestions,
       Sessions, SessionsSplitOnSilence, Latest

LEMMA PageIsLeft ==
  ASSUME ConversationIInv, UNCHANGED <<messages, page>>, clear'.messages \in {clear.messages, {}}
  PROVE  Paging'
BY DEF ConversationIInv, Paging, PagesMissOnlyLate, NewestOf

LEMMA TurnTraces ==
  ASSUME ConversationIInv, NEW t \in ChatTurns, WriteLog(t)
  PROVE  ConversationIInv'
<1> USE ConversationAssumption
<1>1. /\ request[t].at = "log" /\ Stored(t) \cap clear.messages = {} /\ Move(t, "done")
      /\ UNCHANGED <<open, messages, clear, page, clock, nextStamp, nextSession, raced>>
  BY DEF WriteLog, counters
<1>2. \A l \in logs' : l \in logs \/ \E m \in Stored(t) : l = Trace(m)
  BY DEF WriteLog
<1>3. logs \subseteq logs'
  BY DEF WriteLog
<1>4. ASSUME NEW m \in Stored(t)
      PROVE  /\ m \in messages /\ m.role = "assistant" /\ m \notin clear.messages
             /\ Trace(m) \in LogSet /\ Trace(m).of = m.stamp /\ Trace(m).answer = m.stamp
             /\ Trace(m).slipped = (clear.at = "messages") /\ Trace(m).time = clock
             /\ m.stamp \in 1 .. nextStamp - 1 /\ m.stamp \in Nat
  <2>1. m \in messages /\ m.role = "assistant" /\ m \notin clear.messages
    BY <1>1 DEF Stored
  <2>2. m.stamp \in 1 .. nextStamp - 1 /\ m.stamp \in Nat /\ clock \in Nat
    BY <2>1 DEF ConversationIInv, RowTypes, Given, MessageSet
  <2>. QED
    BY <2>1, <2>2 DEF Trace, LogSet
<1> DEFINE S == Stored(t)
<1> HIDE DEF S
<1>5. /\ request' \in [ChatTurns -> RequestSet] /\ request'[t].at = "done"
      /\ request'[t].session = request[t].session /\ request'[t].stamp = request[t].stamp
      /\ request'[t].since = request[t].since
      /\ \A u \in ChatTurns \ {t} : request'[u] = request[u]
  BY <1>1, TurnMoves DEF ConversationIInv, RowTypes, TurnPlaces
<1>6. logs' \subseteq LogSet
  BY <1>2, <1>4 DEF ConversationIInv, RowTypes
<1>7. RowTypes'
  BY <1>1, <1>5, <1>6 DEF ConversationIInv, RowTypes
<1>8. Given'
  <2>1. nextStamp \in Nat /\ clock \in Nat
    BY DEF ConversationIInv, RowTypes
  <2>2. \A l \in logs' : l.of \in 1 .. nextStamp - 1 /\ l.answer < nextStamp /\ l.time <= clock
    BY <1>2, <1>4, <2>1 DEF ConversationIInv, Given
  <2>. QED
    BY <1>1, <2>2 DEF ConversationIInv, Given
<1>9. TurnsGiven'
  BY <1>1, <1>5 DEF ConversationIInv, TurnsGiven, InSession
<1>10. StampsDiffer' /\ InOrder'
  BY <1>1, <1>5 DEF ConversationIInv, StampsDiffer, InOrder
<1>11. TurnRows'
  BY <1>1, <1>5 DEF ConversationIInv, TurnRows, RowsOf, EarlierRows, AnswersFollowQuestions
<1>12. Sessions'
  BY <1>1, <1>5 DEF ConversationIInv, Sessions, SessionsSplitOnSilence, Latest
<1>13. Traces'
  <2>1. TracesGoWithAnswers'
    BY <1>1, <1>2, <1>4 DEF ConversationIInv, Traces, TracesGoWithAnswers, NoStamp
  <2>2. clear.at = "messages" => \A l \in logs' \ clear.logs : l.slipped
    BY <1>2, <1>4 DEF ConversationIInv, Traces
  <2>3. ASSUME clear.at = "commit", NEW l \in logs' \ clear.logs, NEW m \in clear.messages, m.stamp = l.answer
        PROVE  l.slipped
    <3>1. m \in messages
      BY DEF ConversationIInv, Traces
    <3>2. CASE l \in logs
      BY <2>3, <3>2 DEF ConversationIInv, Traces
    <3>3. ASSUME NEW o \in Stored(t), l = Trace(o) PROVE FALSE
      BY <1>4, <2>3, <3>1, <3>3 DEF ConversationIInv, StampsDiffer
    <3>. QED
      BY <1>2, <3>2, <3>3
  <2>. QED
    BY <1>1, <2>1, <2>2, <2>3 DEF ConversationIInv, Traces
<1>14. NothingOutlivesNotebook'
  <2>1. ASSUME ~open, NEW l \in logs' PROVE FALSE
    BY <1>2, <1>4, <2>1 DEF ConversationIInv, NothingOutlivesNotebook
  <2>. QED
    BY <1>1, <2>1 DEF ConversationIInv, NothingOutlivesNotebook
<1>15. Paging'
  BY <1>1, PageIsLeft
<1>. QED
  BY <1>7, <1>8, <1>9, <1>10, <1>11, <1>12, <1>13, <1>14, <1>15 DEF ConversationIInv

(* The history is cleared in two statements and a commit.                  *)
LEMMA ClearGoesOn ==
  ASSUME ConversationIInv, ClearLogs \/ ClearMessages \/ AbortClear
  PROVE  ConversationIInv'
<1>1. /\ UNCHANGED <<open, messages, logs, request, page, clock, nextStamp, nextSession, raced>>
      /\ \/ clear' = [at |-> "messages", logs |-> logs, messages |-> {}] /\ clear.at = "idle" /\ open
         \/ clear' = [clear EXCEPT !.at = "commit", !.messages = messages] /\ clear.at = "messages"
         \/ clear' = NotClearing
  BY DEF ClearLogs, ClearMessages, AbortClear, Clearing, chatRows
<1>2. clear \in ClearSet /\ messages \subseteq MessageSet /\ logs \subseteq LogSet
  BY DEF ConversationIInv, RowTypes
<1>3. /\ clear' \in ClearSet
      /\ \/ clear'.at = "messages" /\ clear'.logs = logs /\ clear'.messages = {} /\ clear.at = "idle" /\ open
         \/ clear'.at = "commit" /\ clear'.logs = clear.logs /\ clear'.messages = messages /\ clear.at = "messages"
         \/ clear'.at = "idle" /\ clear'.logs = {} /\ clear'.messages = {}
  <2>1. CASE clear' = [at |-> "messages", logs |-> logs, messages |-> {}] /\ clear.at = "idle" /\ open
    BY <1>2, <2>1 DEF ClearSet
  <2>2. CASE clear' = [clear EXCEPT !.at = "commit", !.messages = messages] /\ clear.at = "messages"
    BY <1>2, <2>2 DEF ClearSet
  <2>3. CASE clear' = NotClearing
    BY <2>3 DEF ClearSet, NotClearing
  <2>. QED
    BY <1>1, <2>1, <2>2, <2>3
<1>4. RowTypes' /\ Given' /\ NothingOutlivesNotebook'
  BY <1>1, <1>3 DEF ConversationIInv, RowTypes, Given, NothingOutlivesNotebook
<1>5. Traces'
  BY <1>1, <1>3 DEF ConversationIInv, Traces, TracesGoWithAnswers
<1>6. Paging'
  BY <1>1, <1>3 DEF ConversationIInv, Paging, PagesMissOnlyLate, NewestOf
<1>. QED
  BY <1>1, <1>4, <1>5, <1>6, TurnsAreLeft DEF ConversationIInv

LEMMA ClearCommits ==
  ASSUME ConversationIInv, CommitClear
  PROVE  ConversationIInv'
<1> USE ConversationAssumption
<1> DEFINE gone == {m.stamp : m \in clear.messages}
           Left(l) == IF l.answer \in gone THEN [l EXCEPT !.answer = 0] ELSE l
<1>1. /\ clear.at = "commit" /\ messages' = messages \ clear.messages /\ clear' = NotClearing
      /\ Overtakes(ChatTurns) /\ UNCHANGED <<open, request, page, clock, nextStamp, nextSession>>
  BY DEF CommitClear, Clearing
<1>2. \A l \in logs' : \E o \in logs \ clear.logs : l = Left(o)
  BY DEF CommitClear, NoStamp
<1>3. ASSUME NEW l \in logs'
      PROVE  /\ l \in LogSet
             /\ \E o \in logs \ clear.logs :
                  /\ l.of = o.of /\ l.slipped = o.slipped /\ l.time = o.time
                  /\ \/ l.answer = 0 /\ \E m \in clear.messages : m.stamp = o.answer
                     \/ l.answer = o.answer /\ \A m \in clear.messages : m.stamp # o.answer
  <2>1. PICK o \in logs \ clear.logs : l = Left(o)
    BY <1>2
  <2>2. o \in LogSet
    BY DEF ConversationIInv, RowTypes
  <2>3. CASE o.answer \in gone
    <3>1. l = [o EXCEPT !.answer = 0]
      BY <2>1, <2>3
    <3>2. \E m \in clear.messages : m.stamp = o.answer
      BY <2>3
    <3> HIDE DEF gone
    <3>. QED
      BY <2>2, <3>1, <3>2 DEF LogSet
  <2>4. CASE o.answer \notin gone
    BY <2>1, <2>2, <2>4
  <2>. QED
    BY <2>3, <2>4
<1> HIDE DEF gone
<1>4. clear.messages \subseteq messages /\ messages' \subseteq messages
  BY <1>1 DEF ConversationIInv, Traces
<1>5. /\ raced \subseteq raced'
      /\ \A u \in ChatTurns : request[u].at = "store" => request[u].session \in raced'
      /\ \A x \in raced' : x \in raced \/ \E u \in ChatTurns : request[u].at = "store" /\ x = request[u].session
  BY <1>1 DEF Overtakes
<1>6. /\ clear' \in ClearSet /\ clear'.at = "idle" /\ clear'.logs = {} /\ clear'.messages = {}
  BY <1>1 DEF NotClearing, ClearSet
<1>7. RowTypes'
  <2>1. IsFiniteSet(messages')
    BY <1>4, FS_Subset DEF ConversationIInv, RowTypes
  <2>. QED
    BY <1>1, <1>3, <1>4, <1>6, <2>1 DEF ConversationIInv, RowTypes
<1>8. Given'
  <2>1. \A x \in raced' : x \in 1 .. nextSession - 1
    BY <1>5 DEF ConversationIInv, Given, TurnsGiven, InSession
  <2>2. \A l \in logs' : l.of \in 1 .. nextStamp - 1 /\ l.answer < nextStamp /\ l.time <= clock
    BY <1>3 DEF ConversationIInv, Given, RowTypes
  <2>. QED
    BY <1>1, <1>4, <2>1, <2>2 DEF ConversationIInv, Given
<1>9. TurnsGiven' /\ StampsDiffer' /\ InOrder'
  BY <1>1, <1>4 DEF ConversationIInv, TurnsGiven, StampsDiffer, InOrder
<1>10. TurnRows'
  BY <1>1, <1>4 DEF ConversationIInv, TurnRows, RowsOf, EarlierRows, AnswersFollowQuestions
<1>11. Sessions'
  BY <1>1, <1>5 DEF Sessions, SessionsSplitOnSilence
<1>12. Traces'
  <2>1. ASSUME NEW l \in logs'
        PROVE  /\ l.answer = NoStamp => l.slipped
               /\ l.answer # NoStamp => \E m \in messages' : m.stamp = l.answer /\ m.role = "assistant"
    <3>1. PICK o \in logs \ clear.logs :
             /\ l.slipped = o.slipped
             /\ \/ l.answer = 0 /\ \E m \in clear.messages : m.stamp = o.answer
                \/ l.answer = o.answer /\ \A m \in clear.messages : m.stamp # o.answer
      BY <1>3
    <3>. QED
      BY <1>1, <3>1 DEF ConversationIInv, Traces, TracesGoWithAnswers, NoStamp
  <2>. QED
    BY <1>6, <2>1 DEF Traces, TracesGoWithAnswers
<1>13. Paging'
  <2>1. page.known \subseteq messages' => page.known = {} \/ messages' = messages
    BY <1>1 DEF ConversationIInv, Paging
  <2>2. page.known = {} => Cardinality(page.known \ page.seen) = 0
    BY FS_EmptySet
  <2>3. Cardinality(page.late) \in Nat
    BY FS_CardinalityType DEF ConversationIInv, Paging
  <2>. QED
    BY <1>1, <1>6, <2>1, <2>2, <2>3 DEF ConversationIInv, Paging, PagesMissOnlyLate, NewestOf
<1>14. NothingOutlivesNotebook'
  BY <1>1 DEF ConversationIInv, Traces, NothingOutlivesNotebook
<1>. QED
  BY <1>7, <1>8, <1>9, <1>10, <1>11, <1>12, <1>13, <1>14 DEF ConversationIInv

LEMMA NotebookGoes ==
  ASSUME ConversationIInv, DeleteNotebook
  PROVE  ConversationIInv'
<1>1. /\ ~open' /\ messages' = {} /\ logs' = {} /\ clear.at = "idle"
      /\ UNCHANGED <<request, clear, page, clock, nextStamp, nextSession, raced>>
  BY DEF DeleteNotebook, counters
<1>2. RowTypes'
  BY <1>1, FS_EmptySet DEF ConversationIInv, RowTypes, DeleteNotebook
<1>3. Given' /\ TurnsGiven' /\ StampsDiffer' /\ InOrder'
  BY <1>1 DEF ConversationIInv, Given, TurnsGiven, StampsDiffer, InOrder
<1>4. TurnRows' /\ Sessions'
  BY <1>1 DEF ConversationIInv, TurnRows, RowsOf, EarlierRows, AnswersFollowQuestions, Sessions, SessionsSplitOnSilence
<1>5. Traces' /\ NothingOutlivesNotebook'
  BY <1>1 DEF ConversationIInv, Traces, TracesGoWithAnswers, NothingOutlivesNotebook
<1>6. Paging'
  <2>1. page.known \subseteq {} => Cardinality(page.known \ page.seen) = 0
    BY FS_EmptySet
  <2>2. Cardinality(page.late) \in Nat
    BY FS_CardinalityType DEF ConversationIInv, Paging
  <2>. QED
    BY <1>1, <2>1, <2>2 DEF ConversationIInv, Paging, PagesMissOnlyLate, Traces
<1>. QED
  BY <1>2, <1>3, <1>4, <1>5, <1>6 DEF ConversationIInv

(* A step on the traces that invents none.                                 *)
LEMMA TracesOnly ==
  ASSUME ConversationIInv, UNCHANGED <<open, messages, request, clear, page, clock, nextStamp, nextSession, raced>>,
         \A l \in logs' : l \in LogSet /\ \E o \in logs :
           /\ l.of = o.of /\ l.answer = o.answer /\ l.slipped = o.slipped /\ l.time = o.time
           /\ l \in clear.logs \/ o \notin clear.logs
  PROVE  ConversationIInv'
<1>1. RowTypes' /\ Given'
  BY DEF ConversationIInv, RowTypes, Given
<1>2. Traces' /\ NothingOutlivesNotebook'
  BY DEF ConversationIInv, Traces, TracesGoWithAnswers, NothingOutlivesNotebook
<1>3. Paging'
  BY PageIsLeft
<1>. QED
  BY <1>1, <1>2, <1>3, TurnsAreLeft DEF ConversationIInv

LEMMA AnswerIsRated ==
  ASSUME ConversationIInv, RateAnswer
  PROVE  ConversationIInv'
<1>1. PICK l \in logs \ clear.logs, liked \in BOOLEAN : logs' = (logs \ {l}) \cup {[l EXCEPT !.liked = liked]}
  BY DEF RateAnswer
<1>2. \A o \in logs : o \in LogSet
  BY DEF ConversationIInv, RowTypes
<1>3. /\ [l EXCEPT !.liked = liked] \in LogSet
      /\ [l EXCEPT !.liked = liked].of = l.of /\ [l EXCEPT !.liked = liked].answer = l.answer
      /\ [l EXCEPT !.liked = liked].slipped = l.slipped /\ [l EXCEPT !.liked = liked].time = l.time
  BY <1>2 DEF LogSet
<1>4. UNCHANGED <<open, messages, request, clear, page, clock, nextStamp, nextSession, raced>>
  BY DEF RateAnswer, counters
<1>. QED
  BY <1>1, <1>2, <1>3, <1>4, TracesOnly

LEMMA TracesAgeOut ==
  ASSUME ConversationIInv, PurgeOldLogs
  PROVE  ConversationIInv'
<1>1. logs' \subseteq logs /\ \A l \in logs : l \in LogSet
  BY DEF PurgeOldLogs, ConversationIInv, RowTypes
<1>2. UNCHANGED <<open, messages, request, clear, page, clock, nextStamp, nextSession, raced>>
  BY DEF PurgeOldLogs, counters
<1>. QED
  BY <1>1, <1>2, TracesOnly

LEMMA TimePasses ==
  ASSUME ConversationIInv, MinutesPass
  PROVE  ConversationIInv'
<1> USE ConversationAssumption
<1>1. /\ clock' = clock + 1 /\ clock < LastTick
      /\ UNCHANGED <<open, messages, logs, request, clear, page, nextStamp, nextSession, raced>>
  BY DEF MinutesPass, chatRows
<1>2. /\ clock \in 0 .. LastTick /\ (\A m \in messages : m.time \in Nat) /\ (\A l \in logs : l.time \in Nat)
      /\ \A t \in ChatTurns : request[t].since \in Nat
  BY DEF ConversationIInv, RowTypes, MessageSet, LogSet, RequestSet
<1>3. RowTypes'
  BY <1>1, <1>2 DEF ConversationIInv, RowTypes
<1>4. Given'
  BY <1>1, <1>2 DEF ConversationIInv, Given
<1>5. TurnsGiven' /\ StampsDiffer' /\ InOrder'
  BY <1>1, <1>2 DEF ConversationIInv, TurnsGiven, StampsDiffer, InOrder
<1>6. TurnRows'
  BY <1>1 DEF ConversationIInv, TurnRows, RowsOf, EarlierRows, AnswersFollowQuestions
<1>7. Sessions'
  BY <1>1, <1>2 DEF ConversationIInv, Sessions, SessionsSplitOnSilence, Latest
<1>. QED
  BY <1>1, <1>3, <1>4, <1>5, <1>6, <1>7, RowsAreLeft DEF ConversationIInv

(* What a reader's step leaves alone.                                      *)
LEMMA RowsAreRead ==
  ASSUME ConversationIInv, UNCHANGED <<chatRows, request, clear, counters, raced>>,
         page' \in PageSet, page'.known \in {page.known, messages}, Paging'
  PROVE  ConversationIInv'
<1>1. UNCHANGED <<open, messages, logs, request, clear, clock, nextStamp, nextSession, raced>>
  BY DEF chatRows, counters
<1>2. RowTypes'
  BY <1>1 DEF ConversationIInv, RowTypes
<1>3. Given'
  <2>1. \A m \in messages : m.stamp < nextStamp
    BY DEF ConversationIInv, Given, RowTypes
  <2>. QED
    BY <1>1, <2>1 DEF ConversationIInv, Given
<1>4. TurnsGiven' /\ StampsDiffer' /\ InOrder'
  BY <1>1 DEF ConversationIInv, TurnsGiven, StampsDiffer, InOrder
<1>5. TurnRows' /\ Sessions'
  BY <1>1 DEF ConversationIInv, TurnRows, RowsOf, EarlierRows, AnswersFollowQuestions,
              Sessions, SessionsSplitOnSilence, Latest
<1>6. Traces' /\ NothingOutlivesNotebook'
  BY <1>1 DEF ConversationIInv, Traces, TracesGoWithAnswers, NothingOutlivesNotebook
<1>. QED
  BY <1>2, <1>3, <1>4, <1>5, <1>6 DEF ConversationIInv

LEMMA ReaderCounts ==
  ASSUME ConversationIInv, CountMessages
  PROVE  ConversationIInv'
<1> DEFINE known == IF page.offset = 0 THEN messages ELSE page.known
<1>1. /\ page' = [page EXCEPT !.at = "fetch", !.total = Cardinality(messages), !.late = messages, !.known = known]
      /\ page.more /\ UNCHANGED <<chatRows, request, clear, counters, raced>>
  BY DEF CountMessages, Paged
<1>2. page \in PageSet /\ messages \subseteq MessageSet /\ IsFiniteSet(messages)
  BY DEF ConversationIInv, RowTypes
<1>3. Cardinality(messages) \in Nat
  BY <1>2, FS_CardinalityType
<1>4. known \subseteq MessageSet /\ IsFiniteSet(known)
  BY <1>2 DEF ConversationIInv, Paging, PageSet
<1>5. /\ known \in {page.known, messages} /\ (page.offset # 0 => known = page.known)
      /\ page.offset = 0 => known = messages
  OBVIOUS
<1> HIDE DEF known
<1>6. /\ page'.at = "fetch" /\ page'.offset = page.offset /\ page'.total = Cardinality(messages)
      /\ page'.more = page.more /\ page'.seen = page.seen /\ page'.known = known /\ page'.late = messages
      /\ page' \in PageSet
  BY <1>1, <1>2, <1>3, <1>4 DEF PageSet
<1>7. messages' = messages /\ clear' = clear
  BY <1>1 DEF chatRows
<1>8. NewestOf(messages, 0) = {}
  <2> SUFFICES ASSUME NEW m \in messages, Cardinality({o \in messages : o.stamp > m.stamp}) < 0 PROVE FALSE
    BY DEF NewestOf
  <2>1. IsFiniteSet({o \in messages : o.stamp > m.stamp})
    BY <1>2, FS_Subset
  <2>2. Cardinality({o \in messages : o.stamp > m.stamp}) \in Nat
    BY <2>1, FS_CardinalityType
  <2>. QED
    BY <2>2
<1>9. known \subseteq messages => known \cap NewestOf(messages, page.offset) \subseteq page.seen
  BY <1>5, <1>8 DEF ConversationIInv, Paging
<1>10. known # {} /\ known \subseteq messages /\ clear.messages # {} => known \cap clear.messages # {}
  BY <1>5 DEF ConversationIInv, Paging, Traces
<1>11. NewestOf(messages, page.offset)' = NewestOf(messages, page.offset)
  BY <1>6, <1>7 DEF NewestOf
<1>12. Paging'
  BY <1>1, <1>2, <1>4, <1>6, <1>7, <1>9, <1>10, <1>11 DEF Paging, PagesMissOnlyLate
<1>. QED
  BY <1>1, <1>5, <1>6, <1>12, RowsAreRead

-----------------------------------------------------------------------------
(* How many the newest n of a set of messages are.                         *)
Later(M, m) == {o \in M : o.stamp > m.stamp}
Fewer(a, b) == IF a <= b THEN a ELSE b
Stamped(M) == /\ IsFiniteSet(M) /\ \A m \in M : m.stamp \in Nat
              /\ \A m, o \in M : m.stamp = o.stamp => m = o

LEMMA LaterAreCounted ==
  ASSUME NEW M, Stamped(M)
  PROVE  \A m \in M : /\ IsFiniteSet(Later(M, m)) /\ Cardinality(Later(M, m)) \in 0 .. Cardinality(M) - 1
<1> SUFFICES ASSUME NEW m \in M
             PROVE  IsFiniteSet(Later(M, m)) /\ Cardinality(Later(M, m)) \in 0 .. Cardinality(M) - 1
  OBVIOUS
<1>1. IsFiniteSet(M) /\ m.stamp \in Nat
  BY DEF Stamped
<1>2. Later(M, m) \in SUBSET (M \ {m})
  BY <1>1 DEF Later
<1>3. IsFiniteSet(M \ {m}) /\ Cardinality(M \ {m}) = Cardinality(M) - 1
  BY <1>1, FS_RemoveElement
<1>4. IsFiniteSet(Later(M, m)) /\ Cardinality(Later(M, m)) <= Cardinality(M \ {m})
  BY <1>2, <1>3, FS_Subset
<1>5. Cardinality(Later(M, m)) \in Nat /\ Cardinality(M) \in Nat
  BY <1>1, <1>4, FS_CardinalityType
<1>. QED
  BY <1>3, <1>4, <1>5

LEMMA LaterAreFewer ==
  ASSUME NEW M, Stamped(M), NEW m \in M, NEW o \in M, m.stamp < o.stamp
  PROVE  Cardinality(Later(M, m)) # Cardinality(Later(M, o))
<1>1. Later(M, o) \in SUBSET Later(M, m) /\ o \in Later(M, m) /\ o \notin Later(M, o)
  BY DEF Later, Stamped
<1>2. IsFiniteSet(Later(M, m))
  BY LaterAreCounted
<1>. QED
  BY <1>1, <1>2, FS_Subset

LEMMA RanksAreDistinct ==
  ASSUME NEW M, Stamped(M)
  PROVE  [m \in M |-> Cardinality(Later(M, m))] \in Bijection(M, 0 .. Cardinality(M) - 1)
<1> DEFINE N == Cardinality(M)
           rank == [m \in M |-> Cardinality(Later(M, m))]
<1>1. IsFiniteSet(M) /\ N \in Nat
  BY FS_CardinalityType DEF Stamped
<1>2. rank \in [M -> 0 .. N - 1]
  BY LaterAreCounted
<1>3. ASSUME NEW m \in M, NEW o \in M, rank[m] = rank[o] PROVE m = o
  <2>1. ~(m.stamp < o.stamp) /\ ~(o.stamp < m.stamp)
    BY <1>3, LaterAreFewer
  <2>. QED
    BY <2>1 DEF Stamped
<1>4. IsFiniteSet(0 .. N - 1) /\ Cardinality(0 .. N - 1) = N
  BY <1>1, FS_Interval
<1> HIDE DEF rank, N
<1>5. rank \in Injection(M, 0 .. N - 1)
  BY <1>2, <1>3 DEF Injection, IsInjective
<1>6. Cardinality(M) = Cardinality(0 .. N - 1)
  BY <1>4 DEF N
<1>7. rank \in Surjection(M, 0 .. N - 1)
  BY <1>4, <1>5, <1>6, FS_Injection
<1>8. rank \in Bijection(M, 0 .. N - 1)
  BY <1>5, <1>7 DEF Bijection
<1>. QED
  BY <1>8 DEF rank, N

LEMMA NewestAreCounted ==
  ASSUME NEW M, Stamped(M), NEW n \in Nat
  PROVE  /\ NewestOf(M, n) \in SUBSET M /\ IsFiniteSet(NewestOf(M, n))
         /\ Cardinality(NewestOf(M, n)) = Fewer(n, Cardinality(M))
<1> DEFINE N == Cardinality(M)
           k == Fewer(n, N)
           rank == [m \in M |-> Cardinality(Later(M, m))]
           ranks == [m \in NewestOf(M, n) |-> rank[m]]
<1>1. IsFiniteSet(M) /\ N \in Nat
  BY FS_CardinalityType DEF Stamped
<1>2. rank \in Bijection(M, 0 .. N - 1)
  BY RanksAreDistinct
<1>3. NewestOf(M, n) = {m \in M : rank[m] < n}
  BY DEF NewestOf, Later
<1>4. k \in Nat /\ (k = n \/ k = N) /\ k <= n /\ k <= N
  BY <1>1 DEF Fewer
<1>5. /\ rank \in [M -> 0 .. N - 1] /\ (\A m, o \in M : rank[m] = rank[o] => m = o)
      /\ \A i \in 0 .. N - 1 : \E m \in M : rank[m] = i
  BY <1>2 DEF Bijection, Injection, IsInjective, Surjection
<1> HIDE DEF rank, N, k
<1>6. ranks \in [NewestOf(M, n) -> 0 .. k - 1]
  BY <1>1, <1>3, <1>4, <1>5
<1>7. \A m, o \in NewestOf(M, n) : ranks[m] = ranks[o] => m = o
  BY <1>3, <1>5
<1>8. \A i \in 0 .. k - 1 : \E m \in NewestOf(M, n) : ranks[m] = i
  <2> SUFFICES ASSUME NEW i \in 0 .. k - 1 PROVE \E m \in NewestOf(M, n) : rank[m] = i
    OBVIOUS
  <2>1. i \in 0 .. N - 1 /\ i < n
    BY <1>1, <1>4
  <2>. QED
    BY <1>3, <1>5, <2>1
<1> HIDE DEF ranks
<1>9. ranks \in Bijection(NewestOf(M, n), 0 .. k - 1)
  BY <1>6, <1>7, <1>8 DEF Bijection, Injection, IsInjective, Surjection
<1>10. ExistsBijection(NewestOf(M, n), 0 .. k - 1)
  BY <1>9 DEF ExistsBijection
<1>11. NewestOf(M, n) \in SUBSET M
  BY <1>3
<1>12. IsFiniteSet(NewestOf(M, n))
  BY <1>1, <1>11, FS_Subset
<1>13. Cardinality(0 .. k - 1) = Cardinality(NewestOf(M, n))
  BY <1>10, <1>12, FS_Bijection
<1>14. Cardinality(0 .. k - 1) = k
  BY <1>4, FS_Interval
<1>. QED
  BY <1>11, <1>12, <1>13, <1>14 DEF k, N

LEMMA NewestNest ==
  ASSUME NEW M, Stamped(M), NEW n \in Nat, NEW k \in Nat, n <= k
  PROVE  NewestOf(M, n) \subseteq NewestOf(M, k)
<1> SUFFICES ASSUME NEW m \in M, Cardinality(Later(M, m)) < n PROVE Cardinality(Later(M, m)) < k
  BY DEF NewestOf, Later
<1>1. Cardinality(Later(M, m)) \in Nat
  BY LaterAreCounted, FS_CardinalityType
<1>. QED
  BY <1>1

(* A page is as long as what is left of the history allows.                *)
LEMMA PageIsCounted ==
  ASSUME NEW M, Stamped(M), NEW n \in Nat, NEW k \in Nat, n <= k
  PROVE  /\ Cardinality(NewestOf(M, k) \ NewestOf(M, n)) = Fewer(k, Cardinality(M)) - Fewer(n, Cardinality(M))
         /\ Cardinality(M \ NewestOf(M, k)) = Cardinality(M) - Fewer(k, Cardinality(M))
         /\ IsFiniteSet(M \ NewestOf(M, k))
<1>1. /\ NewestOf(M, n) \subseteq NewestOf(M, k) /\ NewestOf(M, k) \subseteq M /\ IsFiniteSet(NewestOf(M, k))
      /\ Cardinality(NewestOf(M, k)) = Fewer(k, Cardinality(M))
      /\ Cardinality(NewestOf(M, n)) = Fewer(n, Cardinality(M))
  BY NewestNest, NewestAreCounted
<1>2. NewestOf(M, k) \cap NewestOf(M, n) = NewestOf(M, n) /\ M \cap NewestOf(M, k) = NewestOf(M, k)
  BY <1>1
<1>3. IsFiniteSet(M)
  BY DEF Stamped
<1>4. Cardinality(NewestOf(M, k) \ NewestOf(M, n))
        = Cardinality(NewestOf(M, k)) - Cardinality(NewestOf(M, k) \cap NewestOf(M, n))
  BY <1>1, FS_Difference
<1>5. /\ IsFiniteSet(M \ NewestOf(M, k))
      /\ Cardinality(M \ NewestOf(M, k)) = Cardinality(M) - Cardinality(M \cap NewestOf(M, k))
  BY <1>3, FS_Difference
<1>. QED
  BY <1>1, <1>2, <1>4, <1>5

LEMMA ReaderFetches ==
  ASSUME ConversationIInv, FetchPage
  PROVE  ConversationIInv'
<1> USE ConversationAssumption
<1> DEFINE M == messages
           o == page.offset
           found == NewestOf(M, o + PageLimit) \ NewestOf(M, o)
           n == Cardinality(found)
           N == Cardinality(M)
<1>1. /\ page' = [page EXCEPT !.at = "idle", !.offset = o + n, !.more = HasMore(o, n, page.total),
                             !.seen = page.seen \cup found, !.late = M \ page.late]
      /\ page.at = "fetch" /\ UNCHANGED <<chatRows, request, clear, counters, raced>>
  BY DEF FetchPage, Paged
<1>2. page \in PageSet /\ M \subseteq MessageSet /\ IsFiniteSet(M) /\ o \in Nat /\ page.total \in Nat
  BY DEF ConversationIInv, RowTypes, PageSet
<1>3. Stamped(M)
  BY <1>2 DEF ConversationIInv, StampsDiffer, Stamped, MessageSet
<1>4. N \in Nat
  BY <1>2, FS_CardinalityType
<1>5. o + PageLimit \in Nat /\ o <= o + PageLimit
  BY <1>2
<1>6. /\ n = Fewer(o + PageLimit, N) - Fewer(o, N)
      /\ Cardinality(M \ NewestOf(M, o + PageLimit)) = N - Fewer(o + PageLimit, N)
      /\ IsFiniteSet(M \ NewestOf(M, o + PageLimit))
  BY <1>2, <1>3, <1>5, PageIsCounted
<1>7. n \in Nat /\ o + n <= o + PageLimit
  BY <1>2, <1>4, <1>6 DEF Fewer
<1>8. found \subseteq M
  BY DEF NewestOf
<1>9. /\ page.late \subseteq MessageSet /\ IsFiniteSet(page.late) /\ page.total = Cardinality(page.late)
      /\ IsFiniteSet(page.known) /\ page.known \subseteq MessageSet
      /\ page.known \subseteq M => page.known \cap NewestOf(M, o) \subseteq page.seen
      /\ page.known # {} /\ page.known \subseteq M /\ clear.messages # {} => page.known \cap clear.messages # {}
  BY <1>1, <1>2 DEF ConversationIInv, Paging, PageSet
<1>10. M \ page.late \subseteq MessageSet /\ IsFiniteSet(M \ page.late)
  BY <1>2, FS_Difference
<1> DEFINE more == HasMore(o, n, page.total)
<1>11. more \in BOOLEAN /\ (more <=> o + n < page.total)
  BY DEF HasMore
<1>12. page.seen \cup found \subseteq MessageSet /\ o + n \in Nat
  BY <1>2, <1>7, <1>8 DEF PageSet
<1> DEFINE seen == page.seen \cup found
           late == M \ page.late
<1>13. page.known \subseteq M => page.known \cap NewestOf(M, o + PageLimit) \subseteq seen
  BY <1>9
<1>14. /\ IsFiniteSet(M \cap page.late) /\ Cardinality(M \cap page.late) <= Cardinality(page.late)
       /\ Cardinality(late) = N - Cardinality(M \cap page.late)
       /\ Cardinality(page.late) \in Nat /\ Cardinality(M \cap page.late) \in Nat
  <2>1. IsFiniteSet(page.late \cap M) /\ Cardinality(page.late \cap M) <= Cardinality(page.late)
    BY <1>9, FS_Intersection
  <2>2. page.late \cap M = M \cap page.late
    OBVIOUS
  <2>3. Cardinality(late) = N - Cardinality(M \cap page.late)
    BY <1>2, FS_Difference
  <2>. QED
    BY <1>9, <2>1, <2>2, <2>3, FS_CardinalityType
<1> HIDE DEF found, n, N, more, seen, late
<1>15. ASSUME ~more, page.known \subseteq M
       PROVE  Cardinality(page.known \ seen) <= Cardinality(late)
  <2> DEFINE left == M \ NewestOf(M, o + PageLimit)
  <2>1. page.known \ seen \in SUBSET left
    BY <1>13, <1>15
  <2>2. Cardinality(page.known \ seen) <= Cardinality(left) /\ IsFiniteSet(page.known \ seen)
    BY <1>6, <2>1, FS_Subset
  <2>3. Cardinality(page.known \ seen) \in Nat
    BY <2>2, FS_CardinalityType
  <2>4. o + n >= Cardinality(page.late)
    BY <1>2, <1>7, <1>9, <1>11, <1>15
  <2>5. Cardinality(left) = 0 \/ Cardinality(left) <= N - (o + n)
    BY <1>2, <1>4, <1>6 DEF Fewer
  <2> HIDE DEF left
  <2>6. Cardinality(left) \in Nat
    BY <1>6, FS_CardinalityType DEF left
  <2>7. Cardinality(late) >= N - Cardinality(page.late) /\ Cardinality(late) \in Nat
    BY <1>4, <1>10, <1>14, FS_CardinalityType DEF late
  <2>. QED
    BY <1>2, <1>4, <1>7, <1>14, <2>2, <2>3, <2>4, <2>5, <2>6, <2>7
<1>16. /\ page' = [page EXCEPT !.at = "idle", !.offset = o + n, !.more = more, !.seen = seen, !.late = late]
       /\ seen \subseteq MessageSet /\ late \subseteq MessageSet
  BY <1>1, <1>10, <1>12 DEF found, n, more, seen, late
<1>17. /\ page'.at = "idle" /\ page'.offset = o + n /\ page'.total = page.total /\ page'.more = more
       /\ page'.seen = seen /\ page'.known = page.known /\ page'.late = late /\ page' \in PageSet
  BY <1>2, <1>11, <1>12, <1>16 DEF PageSet
<1>18. messages' = messages /\ clear' = clear
  BY <1>1 DEF chatRows
<1>19. NewestOf(M, o + n) \subseteq NewestOf(M, o + PageLimit)
  BY <1>3, <1>5, <1>7, <1>12, NewestNest
<1>20. NewestOf(messages, page.offset)' = NewestOf(messages, o + n)
  BY <1>17, <1>18 DEF NewestOf
<1>21. IsFiniteSet(late)
  BY <1>10 DEF late
<1>22. PagesMissOnlyLate'
  BY <1>15, <1>17, <1>18 DEF PagesMissOnlyLate
<1>23. Paging'
  BY <1>9, <1>13, <1>17, <1>18, <1>19, <1>20, <1>21, <1>22 DEF Paging
<1>. QED
  BY <1>1, <1>17, <1>23, RowsAreRead

LEMMA ConversationKeeps ==
  ASSUME ConversationIInv, [ConversationNext]_conversationVars
  PROVE  ConversationIInv'
<1>1. ASSUME NEW t \in ChatTurns, TurnStepsOf(t) PROVE ConversationIInv'
  <2>1. CASE VerifyAccess(t)
    <3>1. PICK x \in {"policy", "refused"} : Move(t, x)
      BY <2>1 DEF VerifyAccess
    <3>. QED
      BY <2>1, <3>1, TurnsMoveOn DEF VerifyAccess, chatRows, counters
  <2>2. CASE Authorize(t)
    BY <2>2, TurnsMoveOn DEF Authorize, chatRows, counters
  <2>3. CASE SelectModel(t)
    BY <2>3, TurnsMoveOn DEF SelectModel, chatRows, counters
  <2>4. CASE EndUnanswered(t)
    BY <2>4, TurnsMoveOn DEF EndUnanswered, chatRows, counters
  <2>. QED
    BY <1>1, <2>1, <2>2, <2>3, <2>4, TurnResolves, TurnAsks, TurnBeginsAnswer, TurnAnswers, TurnTraces DEF TurnStepsOf
<1>2. CASE ClearStep
  BY <1>2, ClearGoesOn, ClearCommits DEF ClearStep
<1>3. CASE ReadStep
  BY <1>3, ReaderCounts, ReaderFetches DEF ReadStep
<1>4. CASE UNCHANGED conversationVars
  <2>1. UNCHANGED <<open, messages, logs, request, clear, page, clock, nextStamp, nextSession, raced>>
    BY <1>4 DEF conversationVars, chatRows, counters
  <2>2. RowTypes' /\ Given'
    BY <2>1 DEF ConversationIInv, RowTypes, Given
  <2>. QED
    BY <2>1, <2>2, TurnsAreLeft, RowsAreLeft DEF ConversationIInv
<1>. QED
  BY <1>1, <1>2, <1>3, <1>4, NotebookGoes, AnswerIsRated, TracesAgeOut, TimePasses DEF ConversationNext

(* The rows of a conversation hold together (repositories/chat.rs,         *)
(* rag_log.rs), for any number of turns, of clears and of messages on a    *)
(* page, and any session timeout: a refused turn leaves nothing, sessions  *)
(* split only on silence, a trace goes with its answer, and a reader who   *)
(* pages to the end misses only what arrived meanwhile.                    *)
THEOREM ConversationHoldsTogether == ConversationSpec => []ConversationInv
<1>1. ConversationIInv => ConversationTypeOK
  <2> SUFFICES ASSUME ConversationIInv PROVE ConversationTypeOK
    OBVIOUS
  <2> USE ConversationAssumption
  <2>1. /\ open \in BOOLEAN /\ clock \in 0 .. LastTick /\ nextStamp \in Nat /\ nextSession \in Nat
        /\ \A m \in messages : m \in MessageSet
        /\ \A l \in logs : l \in LogSet
        /\ \A t \in ChatTurns : request[t] \in RequestSet
        /\ clear \in ClearSet /\ page \in PageSet
    BY DEF ConversationIInv, RowTypes
  <2>2. /\ \A m \in messages : m.stamp \in 1 .. nextStamp - 1 /\ m.session \in 1 .. nextSession - 1 /\ m.time <= clock
        /\ \A l \in logs : l.of \in 1 .. nextStamp - 1 /\ l.answer < nextStamp /\ l.time <= clock
        /\ raced \subseteq 1 .. nextSession - 1
    BY DEF ConversationIInv, Given
  <2>3. ASSUME NEW m \in messages
        PROVE  m \in [turn : ChatTurns \cup {"earlier"}, role : {"user", "assistant"}, stamp : 1 .. nextStamp,
                      session : 1 .. nextSession, time : 0 .. LastTick]
    <3>1. m.stamp \in 1 .. nextStamp /\ m.session \in 1 .. nextSession /\ m.time \in 0 .. LastTick
      BY <2>1, <2>2 DEF MessageSet
    <3>. QED
      BY <2>1, <3>1 DEF MessageSet
  <2>4. ASSUME NEW l \in logs
        PROVE  l \in [of : 1 .. nextStamp, answer : 0 .. nextStamp, liked : BOOLEAN,
                      slipped : BOOLEAN, time : 0 .. LastTick]
    <3>1. l.of \in 1 .. nextStamp /\ l.answer \in 0 .. nextStamp /\ l.time \in 0 .. LastTick
      BY <2>1, <2>2 DEF LogSet
    <3>. QED
      BY <2>1, <3>1 DEF LogSet
  <2>5. raced \subseteq 1 .. nextSession
    BY <2>1, <2>2
  <2>6. \A t \in ChatTurns : request[t].at \in TurnPlaces
    BY <2>1 DEF RequestSet
  <2>7. clear.at \in {"idle", "messages", "commit"} /\ page.at \in {"idle", "fetch"}
    BY <2>1 DEF ClearSet, PageSet
  <2>. QED
    BY <2>1, <2>3, <2>4, <2>5, <2>6, <2>7 DEF ConversationTypeOK, TurnPlaces
<1>2. ConversationIInv => RefusedLeavesNothing
  BY DEF ConversationIInv, TurnRows, RowsOf, RefusedLeavesNothing
<1>3. ConversationIInv => ConversationInv
  BY <1>1, <1>2 DEF ConversationInv, ConversationIInv, TurnRows, Sessions, Traces, Paging
<1>. QED
  BY <1>3, ConversationStarts, ConversationKeeps, PTL DEF ConversationSpec

-----------------------------------------------------------------------------
(* The events of a notebook.                                               *)

LEMMA AppendInOrder ==
  ASSUME NEW s \in Seq(Nat), NEW n \in Nat, Increasing(s), \A i \in DOMAIN s : s[i] < n
  PROVE  Append(s, n) \in Seq(Nat) /\ Increasing(Append(s, n))
  <1> DEFINE t == Append(s, n)
  <1>1. /\ t \in Seq(Nat) /\ DOMAIN t = 1 .. Len(s) + 1 /\ DOMAIN s = 1 .. Len(s)
        /\ Len(s) \in Nat /\ t[Len(s) + 1] = n /\ \A i \in 1 .. Len(s) : t[i] = s[i]
    OBVIOUS
  <1> HIDE DEF t
  <1>2. ASSUME NEW i \in DOMAIN t, NEW j \in DOMAIN t, i < j
        PROVE  t[i] < t[j]
    <2>1. i \in 1 .. Len(s)
      BY <1>1, <1>2
    <2>2. CASE j = Len(s) + 1
      BY <1>1, <2>1, <2>2
    <2>3. CASE j \in 1 .. Len(s)
      BY <1>1, <1>2, <2>1, <2>3 DEF Increasing
    <2> QED  BY <1>1, <2>2, <2>3
  <1>3. Increasing(t)
    BY <1>2 DEF Increasing
  <1> QED  BY <1>1, <1>3 DEF t

LEMMA AppendSet ==
  ASSUME NEW s \in Seq(Nat), NEW n \in Nat
  PROVE  /\ ToSet(Append(s, n)) = ToSet(s) \cup {n}
         /\ \A i \in DOMAIN Append(s, n) : Append(s, n)[i] = n \/ (i \in DOMAIN s /\ Append(s, n)[i] = s[i])
  <1> DEFINE t == Append(s, n)
  <1>1. /\ t \in Seq(Nat) /\ DOMAIN t = 1 .. Len(s) + 1 /\ DOMAIN s = 1 .. Len(s)
        /\ Len(s) \in Nat /\ t[Len(s) + 1] = n /\ \A i \in 1 .. Len(s) : t[i] = s[i]
    OBVIOUS
  <1> HIDE DEF t
  <1>2. \A i \in DOMAIN t : t[i] = n \/ (i \in DOMAIN s /\ t[i] = s[i])
    BY <1>1
  <1>3. ToSet(t) \subseteq ToSet(s) \cup {n}
    BY <1>2 DEF ToSet
  <1>4. ToSet(s) \subseteq ToSet(t)
    <2>1. \A i \in DOMAIN s : i \in DOMAIN t /\ t[i] = s[i]
      BY <1>1
    <2> QED  BY <2>1 DEF ToSet
  <1>5. n \in ToSet(t)
    <2>1. Len(s) + 1 \in DOMAIN t
      BY <1>1
    <2> QED  BY <1>1, <2>1 DEF ToSet
  <1> QED  BY <1>2, <1>3, <1>4, <1>5 DEF t

LEMMA TailInOrder ==
  ASSUME NEW s \in Seq(Nat), s # <<>>
  PROVE  /\ Head(s) \in Nat /\ Tail(s) \in Seq(Nat)
         /\ Head(s) = s[1] /\ 1 \in DOMAIN s
         /\ \A j \in DOMAIN Tail(s) : j + 1 \in DOMAIN s /\ Tail(s)[j] = s[j + 1]
         /\ ToSet(s) = {Head(s)} \cup ToSet(Tail(s))
         /\ Increasing(s) => (Increasing(Tail(s)) /\ \A j \in DOMAIN Tail(s) : Head(s) < Tail(s)[j])
  <1> DEFINE t == Tail(s)
             h == Head(s)
  <1>1. /\ t \in Seq(Nat) /\ h \in Nat /\ h = s[1]
        /\ Len(s) \in Nat \ {0} /\ DOMAIN s = 1 .. Len(s) /\ DOMAIN t = 1 .. Len(s) - 1
        /\ \A j \in 1 .. Len(s) - 1 : t[j] = s[j + 1]
    OBVIOUS
  <1>2. 1 \in DOMAIN s
    BY <1>1
  <1> HIDE DEF t, h
  <1>3. \A j \in DOMAIN t : j \in Nat \ {0} /\ j + 1 \in DOMAIN s /\ t[j] = s[j + 1]
    BY <1>1
  <1>4. ToSet(s) \subseteq {h} \cup ToSet(t)
    <2> SUFFICES ASSUME NEW i \in DOMAIN s, i # 1
                 PROVE  \E j \in DOMAIN t : t[j] = s[i]
      BY <1>1 DEF ToSet
    <2>1. i - 1 \in DOMAIN t /\ t[i - 1] = s[i]
      BY <1>1
    <2> QED  BY <2>1
  <1>5. {h} \cup ToSet(t) \subseteq ToSet(s)
    BY <1>1, <1>2, <1>3 DEF ToSet
  <1>6. ASSUME Increasing(s)
        PROVE  Increasing(t) /\ \A j \in DOMAIN t : h < t[j]
    <2>1. ASSUME NEW i \in DOMAIN t, NEW j \in DOMAIN t, i < j
          PROVE  t[i] < t[j]
      <3>1. i + 1 \in DOMAIN s /\ j + 1 \in DOMAIN s /\ i + 1 < j + 1
        BY <1>3, <2>1
      <3> QED  BY <1>3, <1>6, <3>1 DEF Increasing
    <2>2. ASSUME NEW j \in DOMAIN t
          PROVE  h < t[j]
      <3>1. j + 1 \in DOMAIN s /\ 1 < j + 1
        BY <1>3
      <3> QED  BY <1>1, <1>2, <1>3, <1>6, <3>1 DEF Increasing
    <2> QED  BY <2>1, <2>2 DEF Increasing
  <1> QED  BY <1>1, <1>2, <1>3, <1>4, <1>5, <1>6 DEF t, h

(* replay_since returns every id after the last one, in order.             *)
LEMMA LaterThanFacts ==
  ASSUME NEW held \in Seq(Nat), Increasing(held), NEW last \in Nat,
         NEW missed \in LaterThan(held, last)
  PROVE  /\ missed \in Seq(Nat) /\ Increasing(missed)
         /\ \A i \in DOMAIN missed : missed[i] \in ToSet(held)
         /\ \A j \in DOMAIN held : held[j] > last => held[j] \in ToSet(missed)
  <1> DEFINE later == {i \in DOMAIN held : held[i] > last}
             n == Cardinality(later)
  <1>1. /\ DOMAIN held = 1 .. Len(held) /\ Len(held) \in Nat
        /\ \A i \in DOMAIN held : held[i] \in Nat
    OBVIOUS
  <1>2. IsFiniteSet(1 .. Len(held))
    BY <1>1, FS_Interval
  <1>3. IsFiniteSet(later) /\ n \in Nat
    BY <1>1, <1>2, FS_Subset, FS_CardinalityType
  <1>4. PICK f \in [1 .. n -> later] :
          /\ \A i, j \in DOMAIN f : i < j => f[i] < f[j]
          /\ missed = [i \in DOMAIN f |-> held[f[i]]]
    BY DEF LaterThan
  <1>5. \A k \in later : k \in DOMAIN held /\ k \in Nat
    BY <1>1
  <1>6. \A j \in DOMAIN held : held[j] > last => j \in later
    OBVIOUS
  <1> HIDE DEF later, n
  <1>7. DOMAIN f = 1 .. n /\ \A i \in 1 .. n : f[i] \in later
    BY <1>4
  <1>8. f \in Surjection(1 .. n, later)
    <2>1. f \in Injection(1 .. n, later)
      <3>1. ASSUME NEW i \in 1 .. n, NEW j \in 1 .. n, f[i] = f[j], i # j
            PROVE  FALSE
        <4>1. i < j \/ j < i
          BY <1>3, <3>1
        <4>2. f[i] \in Nat /\ f[j] \in Nat
          BY <1>5, <1>7
        <4> QED  BY <1>4, <1>7, <3>1, <4>1, <4>2
      <3> QED  BY <1>4, <3>1 DEF Injection, IsInjective
    <2>2. Cardinality(1 .. n) = n
      BY <1>3, FS_Interval
    <2>3. n = Cardinality(later)
      BY DEF n
    <2> QED  BY <1>3, <2>1, <2>2, <2>3, FS_Injection
  <1>9. missed = [i \in 1 .. n |-> held[f[i]]] /\ DOMAIN missed = 1 .. n
    BY <1>4, <1>7
  <1>10. \A i \in 1 .. n : missed[i] = held[f[i]] /\ f[i] \in DOMAIN held
    BY <1>5, <1>7, <1>9
  <1>11. missed \in Seq(Nat)
    BY <1>1, <1>3, <1>9, <1>10
  <1>12. Increasing(missed)
    <2> SUFFICES ASSUME NEW i \in 1 .. n, NEW j \in 1 .. n, i < j
                 PROVE  missed[i] < missed[j]
      BY <1>9 DEF Increasing
    <2>1. f[i] < f[j]
      BY <1>4, <1>7
    <2> QED  BY <1>10, <2>1 DEF Increasing
  <1>13. \A i \in DOMAIN missed : missed[i] \in ToSet(held)
    BY <1>9, <1>10 DEF ToSet
  <1>14. ASSUME NEW j \in DOMAIN held, held[j] > last
         PROVE  held[j] \in ToSet(missed)
    <2>1. PICK i \in 1 .. n : f[i] = j
      BY <1>6, <1>8, <1>14 DEF Surjection
    <2> QED  BY <1>9, <1>10, <2>1 DEF ToSet
  <1> QED  BY <1>11, <1>12, <1>13, <1>14

-----------------------------------------------------------------------------
PublisherRecord == [at: {"idle", "entered", "taken", "buffered"}, id: 0 .. MaxEvents]

ConnectionRecord ==
  [at: {"away", "replayed", "live"}, connects: Nat, last: Nat, lastOf: Nat,
   resume: Nat, resumeOf: Nat, replayOf: Nat, oldest: Nat, newest: Nat,
   from: Nat, start: Nat, pos: Nat, pending: Seq(Nat), seen: Seq(Nat), told: BOOLEAN]

(* The ids that have reached the buffer: all that were taken but one that  *)
(* a broadcast still holds.                                                *)
Buffered == IF \E p \in Publishers : publisher[p].at = "taken" THEN nextId - 2 ELSE nextId - 1

(* The lock of the entry: one broadcast at a time, on a channel that stays *)
(* until it ends, so ids reach the buffer and the ring in their order and  *)
(* without a hole.                                                         *)
OneBroadcast ==
  /\ \A p, q \in Publishers : publisher[p].at # "idle" /\ publisher[q].at # "idle" => p = q
  /\ \A p \in Publishers :
       /\ publisher[p].at # "idle" => epoch # 0
       /\ publisher[p].at = "entered" => nextId <= events
       /\ publisher[p].at \in {"taken", "buffered"} =>
            publisher[p].id = nextId - 1 /\ nextId = Len(ring[epoch]) + 2

BufferRuns ==
  /\ Len(buffer) <= ReplayCapacity /\ Len(buffer) <= Buffered
  /\ \A i \in 1 .. Len(buffer) : buffer[i] = Buffered - Len(buffer) + i

RingsRun ==
  /\ \A e \in 1 .. MaxChannels :
       /\ Len(ring[e]) <= MaxEvents
       /\ \A i \in 1 .. Len(ring[e]) : ring[e][i] = i
       /\ e > epoch => ring[e] = <<>>
  /\ (epoch # 0 /\ \A p \in Publishers : publisher[p].at \notin {"taken", "buffered"}) =>
       nextId = Len(ring[epoch]) + 1

ChannelIInv ==
  /\ present \in BOOLEAN /\ (present => epoch # 0)
  /\ epoch \in 0 .. MaxChannels /\ events \in 0 .. MaxEvents
  /\ nextId \in Nat \ {0} /\ nextId <= events + 1
  /\ epoch = 0 => nextId = 1
  /\ buffer \in Seq(Nat) /\ ring \in [1 .. MaxChannels -> Seq(Nat)]
  /\ publisher \in [Publishers -> PublisherRecord]
  /\ OneBroadcast /\ BufferRuns /\ RingsRun

(* What a client was replayed: what the buffer held after its last id.     *)
ReplayFits(r) ==
  /\ r.replayOf <= epoch
  /\ r.replayOf = epoch => r.newest < nextId
  /\ r.replayOf = 0 => r.pending = <<>>
  /\ Increasing(r.pending)
  /\ \A j \in DOMAIN r.pending : r.pending[j] <= r.newest
  /\ r.resume > 0 => \A id \in r.oldest .. r.newest : id > r.resume => id \in ToSet(r.pending)

(* What a subscriber has seen, waits for and has yet to read, in the order *)
(* of the ids and, as far as it read, without a hole but the two it may    *)
(* have.                                                                   *)
StreamInOrder(r) ==
  /\ Increasing(r.seen) /\ Increasing(r.pending)
  /\ \A i \in DOMAIN r.seen : r.seen[i] <= r.pos
  /\ \A j \in DOMAIN r.pending : r.pending[j] <= r.pos
  /\ \A i \in DOMAIN r.seen, j \in DOMAIN r.pending : r.seen[i] < r.pending[j]

StreamWhole(r) ==
  \A id \in r.resume + 1 .. r.pos :
    id \in ToSet(r.seen) \/ id \in ToSet(r.pending) \/ id \in Missable(r)

LiveFits(r) ==
  /\ r.from \in 1 .. epoch /\ r.start <= r.pos /\ r.pos <= Len(ring[r.from])
  /\ r.replayOf \in {0, r.from} => StreamInOrder(r)
  /\ (~r.told /\ r.resume > 0 /\ r.resumeOf = r.from /\ r.replayOf = r.from) => StreamWhole(r)

ClientFits(r) ==
  /\ r.at = "away" => r.seen = <<>> /\ r.pending = <<>>
  /\ r.at = "replayed" => r.seen = <<>> /\ ReplayFits(r)
  /\ r.at = "live" => LiveFits(r)

EventsIInv ==
  /\ ChannelIInv
  /\ connection \in [Clients -> ConnectionRecord]
  /\ \A c \in Clients : ClientFits(connection[c])

-----------------------------------------------------------------------------
LEMMA EventsInitFits == EventsInit => EventsIInv
  <1> SUFFICES ASSUME EventsInit PROVE EventsIInv
    OBVIOUS
  <1>1. /\ MaxEvents \in Nat /\ MaxChannels \in Nat /\ ReplayCapacity \in Nat \ {0}
        /\ present = FALSE /\ epoch = 0 /\ nextId = 1 /\ buffer = <<>> /\ events = 0
        /\ ring = [e \in 1 .. MaxChannels |-> <<>>]
        /\ publisher = [p \in Publishers |-> Quiet]
        /\ connection = [c \in Clients |-> Away(0, 0, 0)]
    BY EventAssumption DEF EventsInit
  <1>2. Quiet \in PublisherRecord /\ Quiet.at = "idle"
    BY <1>1 DEF Quiet, PublisherRecord
  <1>3. publisher \in [Publishers -> PublisherRecord] /\ \A p \in Publishers : publisher[p].at = "idle"
    BY <1>1, <1>2
  <1>4. ring \in [1 .. MaxChannels -> Seq(Nat)] /\ buffer \in Seq(Nat) /\ Len(buffer) = 0
        /\ \A e \in 1 .. MaxChannels : ring[e] = <<>> /\ Len(ring[e]) = 0
    BY <1>1
  <1>5. OneBroadcast /\ RingsRun
    BY <1>1, <1>3, <1>4 DEF OneBroadcast, RingsRun
  <1>6. BufferRuns
    BY <1>1, <1>3, <1>4 DEF BufferRuns, Buffered
  <1>7. present \in BOOLEAN
    BY <1>1
  <1>8. ChannelIInv
    BY <1>1, <1>3, <1>4, <1>5, <1>6, <1>7 DEF ChannelIInv
  <1>9. /\ Away(0, 0, 0) \in ConnectionRecord /\ ClientFits(Away(0, 0, 0))
    <2>1. <<>> \in Seq(Nat) /\ 0 \in Nat /\ FALSE \in BOOLEAN /\ "away" \in {"away", "replayed", "live"}
      OBVIOUS
    <2>2. Away(0, 0, 0) \in ConnectionRecord
      BY <2>1, Zenon DEF Away, ConnectionRecord
    <2> QED  BY <2>2 DEF Away, ClientFits
  <1> QED  BY <1>1, <1>8, <1>9 DEF EventsIInv

(* The invariant says what the runs check.                                 *)
LEMMA EventsIInvImplies == EventsIInv => EventsInv
  <1> SUFFICES ASSUME EventsIInv PROVE EventsInv
    OBVIOUS
  <1>1. ChannelIInv /\ connection \in [Clients -> ConnectionRecord]
        /\ \A c \in Clients : ClientFits(connection[c])
    BY DEF EventsIInv
  <1>2. MaxEvents \in Nat /\ MaxChannels \in Nat
    BY EventAssumption
  <1>3. EventsTypeOK
    <2>1. nextId \in 1 .. MaxEvents + 1
      BY <1>1, <1>2 DEF ChannelIInv
    <2>2. ASSUME NEW e \in 1 .. MaxChannels
          PROVE  ToSet(ring[e]) \subseteq 1 .. MaxEvents
      <3>1. ring[e] \in Seq(Nat) /\ Len(ring[e]) <= MaxEvents /\ \A i \in 1 .. Len(ring[e]) : ring[e][i] = i
        BY <1>1 DEF ChannelIInv, RingsRun
      <3>2. DOMAIN ring[e] = 1 .. Len(ring[e]) /\ Len(ring[e]) \in Nat
        BY <3>1
      <3> QED  BY <1>2, <3>1, <3>2 DEF ToSet
    <2>3. \A c \in Clients : connection[c].at \in {"away", "replayed", "live"}
      BY <1>1 DEF ConnectionRecord
    <2> QED  BY <1>1, <2>1, <2>2, <2>3 DEF EventsTypeOK, ChannelIInv, BufferRuns, PublisherRecord
  <1>4. SeenInOrder
    BY <1>1 DEF SeenInOrder, ClientFits, LiveFits, StreamInOrder
  <1>5. NothingElseIsLost
    <2> SUFFICES ASSUME NEW c \in Clients, connection[c].at = "live", ~connection[c].told,
                        connection[c].resume > 0, connection[c].resumeOf = connection[c].from,
                        connection[c].replayOf = connection[c].from,
                        NEW id \in connection[c].resume + 1 .. Len(Sent(c))
                 PROVE  \/ id \in ToSet(connection[c].seen) \/ id \in ToSet(connection[c].pending)
                        \/ id \in connection[c].pos + 1 .. Len(Sent(c)) \/ id \in Missable(connection[c])
      BY DEF NothingElseIsLost
    <2>1. connection[c].pos \in Nat /\ connection[c].resume \in Nat
      BY <1>1 DEF ConnectionRecord
    <2>2. StreamWhole(connection[c])
      BY <1>1 DEF ClientFits, LiveFits
    <2>3. Len(Sent(c)) \in Nat
      <3>1. connection[c].from \in 1 .. epoch /\ epoch \in 0 .. MaxChannels
        BY <1>1 DEF ClientFits, LiveFits, ChannelIInv
      <3>2. ring[connection[c].from] \in Seq(Nat)
        BY <1>1, <1>2, <3>1 DEF ChannelIInv
      <3> QED  BY <3>2 DEF Sent
    <2>4. CASE id <= connection[c].pos
      <3>1. id \in connection[c].resume + 1 .. connection[c].pos
        BY <2>1, <2>3, <2>4
      <3> QED  BY <2>2, <3>1 DEF StreamWhole
    <2>5. CASE id > connection[c].pos
      BY <2>1, <2>3, <2>5
    <2> QED  BY <2>1, <2>3, <2>4, <2>5
  <1> QED  BY <1>3, <1>4, <1>5 DEF EventsInv

-----------------------------------------------------------------------------
(* The channel's own steps.                                                *)

(* Channels are only added, ids of the newest only grow and nothing sent   *)
(* is taken back.                                                          *)
ChannelGrows ==
  /\ epoch' \in {epoch, epoch + 1}
  /\ epoch' = epoch => nextId <= nextId'
  /\ \A e \in 1 .. epoch : Len(ring[e]) <= Len(ring'[e])

LEMMA StillFits ==
  ASSUME ChannelIInv, ChannelIInv', ChannelGrows, NEW r \in ConnectionRecord, ClientFits(r)
  PROVE  ClientFits(r)'
  <1>1. /\ epoch \in Nat /\ epoch' \in Nat /\ epoch <= epoch' /\ nextId \in Nat /\ nextId' \in Nat
    BY EventAssumption DEF ChannelIInv, ChannelGrows
  <1>2. r.newest \in Nat /\ r.replayOf \in Nat /\ r.from \in Nat /\ r.pos \in Nat
    BY DEF ConnectionRecord
  <1>3. CASE r.at = "replayed"
    <2>1. ReplayFits(r)
      BY <1>3 DEF ClientFits
    <2>2. r.replayOf <= epoch' /\ (r.replayOf = epoch' => r.newest < nextId')
      BY <1>1, <1>2, <2>1 DEF ReplayFits, ChannelGrows
    <2> QED  BY <1>3, <2>1, <2>2 DEF ReplayFits, ClientFits
  <1>4. CASE r.at = "live"
    <2>1. LiveFits(r)
      BY <1>4 DEF ClientFits
    <2>2. r.from \in 1 .. epoch /\ r.from \in 1 .. epoch'
      BY <1>1, <1>2, <2>1 DEF LiveFits
    <2>3. r.from \in 1 .. MaxChannels
      BY <1>1, <2>2, EventAssumption DEF ChannelIInv
    <2>4. Len(ring[r.from]) \in Nat /\ Len(ring'[r.from]) \in Nat
      BY <2>3 DEF ChannelIInv
    <2>5. r.pos <= Len(ring'[r.from])
      BY <1>2, <2>1, <2>2, <2>4 DEF LiveFits, ChannelGrows
    <2>6. r.start <= r.pos
      BY <2>1 DEF LiveFits
    <2>7. r.replayOf \in {0, r.from} => StreamInOrder(r)'
      BY <2>1 DEF LiveFits, StreamInOrder, Increasing
    <2>8. (~r.told /\ r.resume > 0 /\ r.resumeOf = r.from /\ r.replayOf = r.from) => StreamWhole(r)'
      BY <2>1 DEF LiveFits, StreamWhole
    <2> QED  BY <1>4, <2>2, <2>5, <2>6, <2>7, <2>8 DEF LiveFits, ClientFits
  <1>5. CASE r.at = "away"
    BY <1>5 DEF ClientFits
  <1> QED  BY <1>3, <1>4, <1>5 DEF ConnectionRecord

LEMMA ClientsStillFit ==
  ASSUME EventsIInv, ChannelIInv', ChannelGrows, connection' = connection
  PROVE  EventsIInv'
  <1>1. ChannelIInv /\ connection \in [Clients -> ConnectionRecord]
        /\ \A c \in Clients : ClientFits(connection[c])
    BY DEF EventsIInv
  <1>2. ASSUME NEW c \in Clients
        PROVE  ClientFits(connection[c])'
    <2>1. PICK r \in ConnectionRecord : r = connection[c]
      BY <1>1
    <2>2. ClientFits(r)
      BY <1>1, <2>1
    <2>3. ClientFits(r)'
      BY <1>1, <2>2, StillFits
    <2>4. r = connection'[c]
      BY <2>1
    <2> QED  BY <2>3, <2>4
  <1> QED  BY <1>1, <1>2 DEF EventsIInv

(* Whoever finds or creates the channel finds it whole and nobody at work  *)
(* on it.                                                                  *)
LEMMA ChannelOpens ==
  ASSUME ChannelIInv, GetOrCreateChannel
  PROVE  /\ ChannelGrows
         /\ present' = TRUE /\ epoch' \in 1 .. MaxChannels /\ ring' = ring
         /\ nextId' \in Nat \ {0} /\ nextId' <= events + 1
         /\ nextId' = Len(ring[epoch']) + 1
         /\ buffer' \in Seq(Nat) /\ Len(buffer') <= ReplayCapacity /\ Len(buffer') <= nextId' - 1
         /\ \A i \in 1 .. Len(buffer') : buffer'[i] = nextId' - 1 - Len(buffer') + i
         /\ \A p \in Publishers : publisher[p].at = "idle"
  <1>1. /\ epoch \in 0 .. MaxChannels /\ MaxChannels \in Nat /\ events \in Nat /\ MaxEvents \in Nat
        /\ nextId \in Nat \ {0} /\ ReplayCapacity \in Nat \ {0}
        /\ \A e \in 1 .. MaxChannels : Len(ring[e]) \in Nat
    BY EventAssumption DEF ChannelIInv
  <1>2. \A p \in Publishers : publisher[p].at = "idle"
    BY DEF GetOrCreateChannel, Unlocked
  <1>3. Buffered = nextId - 1
    BY <1>2 DEF Buffered
  <1>4. CASE present
    <2>1. /\ present' = TRUE /\ epoch' = epoch /\ nextId' = nextId /\ buffer' = buffer /\ ring' = ring
      BY <1>4 DEF GetOrCreateChannel, channel, ChannelIInv
    <2>2. epoch # 0
      BY <1>4 DEF ChannelIInv
    <2>3. nextId = Len(ring[epoch]) + 1
      BY <1>2, <2>2 DEF ChannelIInv, RingsRun
    <2>4. ChannelGrows
      BY <1>1, <2>1 DEF ChannelGrows
    <2> QED  BY <1>1, <1>2, <1>3, <2>1, <2>2, <2>3, <2>4 DEF ChannelIInv, BufferRuns
  <1>5. CASE ~present
    <2>1. /\ present' = TRUE /\ epoch' = epoch + 1 /\ epoch < MaxChannels /\ nextId' = 1 /\ buffer' = <<>> /\ ring' = ring
      BY <1>5 DEF GetOrCreateChannel
    <2>2. epoch' \in 1 .. MaxChannels /\ epoch' > epoch
      BY <1>1, <2>1
    <2>3. ring[epoch'] = <<>> /\ Len(ring[epoch']) = 0
      BY <2>2 DEF ChannelIInv, RingsRun
    <2>4. ChannelGrows
      BY <1>1, <2>1 DEF ChannelGrows
    <2>5. buffer' \in Seq(Nat) /\ Len(buffer') = 0
      BY <2>1
    <2> QED  BY <1>1, <1>2, <2>1, <2>2, <2>3, <2>4, <2>5
  <1> QED  BY <1>4, <1>5

LEMMA EnterFits ==
  ASSUME EventsIInv, NEW p \in Publishers, Enter(p)
  PROVE  EventsIInv'
  <1>1. /\ ChannelIInv /\ GetOrCreateChannel /\ events < MaxEvents /\ events' = events + 1
        /\ publisher' = [publisher EXCEPT ![p].at = "entered"] /\ connection' = connection
    BY DEF EventsIInv, Enter
  <1>2. /\ MaxEvents \in Nat /\ MaxChannels \in Nat /\ events \in 0 .. MaxEvents
        /\ publisher \in [Publishers -> PublisherRecord]
    BY <1>1, EventAssumption DEF ChannelIInv
  <1>3. /\ ChannelGrows
        /\ present' = TRUE /\ epoch' \in 1 .. MaxChannels /\ ring' = ring
        /\ nextId' \in Nat \ {0} /\ nextId' <= events + 1
        /\ nextId' = Len(ring[epoch']) + 1
        /\ buffer' \in Seq(Nat) /\ Len(buffer') <= ReplayCapacity /\ Len(buffer') <= nextId' - 1
        /\ \A i \in 1 .. Len(buffer') : buffer'[i] = nextId' - 1 - Len(buffer') + i
        /\ \A q \in Publishers : publisher[q].at = "idle"
    BY <1>1, ChannelOpens
  <1>4. /\ publisher' \in [Publishers -> PublisherRecord]
        /\ publisher'[p].at = "entered"
        /\ \A q \in Publishers : q # p => publisher'[q].at = "idle"
    BY <1>1, <1>2, <1>3 DEF PublisherRecord
  <1>5. events' \in 0 .. MaxEvents /\ nextId' <= events' /\ nextId' <= events' + 1
    BY <1>1, <1>2, <1>3
  <1>6. OneBroadcast'
    BY <1>3, <1>4, <1>5 DEF OneBroadcast
  <1>7. BufferRuns'
    <2>1. Buffered' = nextId' - 1
      BY <1>4 DEF Buffered
    <2> QED  BY <1>3, <2>1 DEF BufferRuns
  <1>8. RingsRun'
    <2>1. \A e \in 1 .. MaxChannels : e > epoch' => e > epoch
      BY <1>1, <1>3 DEF ChannelIInv, ChannelGrows
    <2> QED  BY <1>1, <1>3, <2>1 DEF RingsRun, ChannelIInv
  <1>9. ChannelIInv'
    BY <1>1, <1>3, <1>4, <1>5, <1>6, <1>7, <1>8 DEF ChannelIInv
  <1> QED  BY <1>1, <1>3, <1>9, ClientsStillFit

LEMMA TakeFits ==
  ASSUME EventsIInv, NEW p \in Publishers, TakeId(p)
  PROVE  EventsIInv'
  <1>1. /\ ChannelIInv /\ publisher[p].at = "entered" /\ nextId' = nextId + 1
        /\ publisher' = [publisher EXCEPT ![p] = [at |-> "taken", id |-> nextId]]
        /\ present' = present /\ epoch' = epoch /\ buffer' = buffer /\ ring' = ring
        /\ events' = events /\ connection' = connection
    BY DEF EventsIInv, TakeId
  <1>2. /\ MaxEvents \in Nat /\ MaxChannels \in Nat /\ events \in 0 .. MaxEvents
        /\ publisher \in [Publishers -> PublisherRecord] /\ epoch \in 0 .. MaxChannels
        /\ nextId \in Nat \ {0} /\ OneBroadcast /\ BufferRuns /\ RingsRun
    BY <1>1, EventAssumption DEF ChannelIInv
  <1>3. /\ epoch # 0 /\ nextId <= events /\ \A q \in Publishers : q # p => publisher[q].at = "idle"
    BY <1>1, <1>2 DEF OneBroadcast
  <1>4. nextId = Len(ring[epoch]) + 1
    <2>1. \A q \in Publishers : publisher[q].at \notin {"taken", "buffered"}
      BY <1>1, <1>3
    <2> QED  BY <1>2, <1>3, <2>1 DEF RingsRun
  <1>5. /\ publisher' \in [Publishers -> PublisherRecord]
        /\ publisher'[p].at = "taken" /\ publisher'[p].id = nextId
        /\ \A q \in Publishers : q # p => publisher'[q].at = "idle"
    BY <1>1, <1>2, <1>3 DEF PublisherRecord
  <1>6. Buffered = nextId - 1 /\ Buffered' = nextId' - 2
    BY <1>1, <1>3, <1>5 DEF Buffered
  <1>7. ring[epoch] \in Seq(Nat) /\ Len(ring[epoch]) \in Nat
    BY <1>1, <1>2, <1>3 DEF ChannelIInv
  <1>8. OneBroadcast'
    <2>1. nextId = nextId' - 1 /\ nextId' = Len(ring[epoch]) + 2
      BY <1>1, <1>2, <1>4, <1>7
    <2> QED  BY <1>1, <1>3, <1>5, <2>1 DEF OneBroadcast
  <1>9. BufferRuns'
    BY <1>1, <1>2, <1>6 DEF BufferRuns
  <1>10. RingsRun'
    BY <1>1, <1>2, <1>5 DEF RingsRun
  <1>11. nextId' \in Nat \ {0} /\ nextId' <= events' + 1 /\ nextId <= nextId'
    BY <1>1, <1>2, <1>3
  <1>12. ChannelIInv'
    BY <1>1, <1>3, <1>5, <1>8, <1>9, <1>10, <1>11 DEF ChannelIInv
  <1>13. ChannelGrows
    BY <1>1, <1>2, <1>11 DEF ChannelGrows, ChannelIInv
  <1> QED  BY <1>1, <1>12, <1>13, ClientsStillFit

LEMMA BufferFits ==
  ASSUME EventsIInv, NEW p \in Publishers, Buffer(p)
  PROVE  EventsIInv'
  <1> DEFINE kept == IF Len(buffer) >= ReplayCapacity THEN Tail(buffer) ELSE buffer
  <1>1. /\ ChannelIInv /\ publisher[p].at = "taken"
        /\ publisher' = [publisher EXCEPT ![p].at = "buffered"]
        /\ buffer' = Append(kept, publisher[p].id)
        /\ present' = present /\ epoch' = epoch /\ nextId' = nextId /\ ring' = ring
        /\ events' = events /\ connection' = connection
    BY DEF EventsIInv, Buffer
  <1>2. /\ MaxEvents \in Nat /\ MaxChannels \in Nat /\ events \in 0 .. MaxEvents
        /\ ReplayCapacity \in Nat \ {0} /\ buffer \in Seq(Nat)
        /\ publisher \in [Publishers -> PublisherRecord] /\ epoch \in 0 .. MaxChannels
        /\ nextId \in Nat \ {0} /\ OneBroadcast /\ BufferRuns /\ RingsRun
    BY <1>1, EventAssumption DEF ChannelIInv
  <1>3. /\ epoch # 0 /\ publisher[p].id = nextId - 1
        /\ nextId = Len(ring[epoch]) + 2
        /\ \A q \in Publishers : q # p => publisher[q].at = "idle"
    BY <1>1, <1>2 DEF OneBroadcast
  <1>4. /\ publisher' \in [Publishers -> PublisherRecord]
        /\ publisher'[p].at = "buffered" /\ publisher'[p].id = publisher[p].id
        /\ \A q \in Publishers : q # p => publisher'[q].at = "idle"
    BY <1>1, <1>2, <1>3 DEF PublisherRecord
  <1>5. Buffered = nextId - 2 /\ Buffered' = nextId - 1
    BY <1>1, <1>3, <1>4 DEF Buffered
  <1>6. /\ Len(buffer) \in Nat /\ Len(buffer) <= ReplayCapacity /\ Len(buffer) <= nextId - 2
        /\ \A i \in 1 .. Len(buffer) : buffer[i] = nextId - 2 - Len(buffer) + i
    BY <1>2, <1>5 DEF BufferRuns
  <1>7. /\ kept \in Seq(Nat) /\ Len(kept) < ReplayCapacity /\ Len(kept) <= nextId - 2
        /\ \A i \in 1 .. Len(kept) : kept[i] = nextId - 2 - Len(kept) + i
    <2>1. CASE Len(buffer) >= ReplayCapacity
      <3>1. kept = Tail(buffer) /\ buffer # <<>>
        BY <1>2, <2>1
      <3>2. /\ kept \in Seq(Nat) /\ Len(kept) = Len(buffer) - 1
            /\ \A i \in 1 .. Len(kept) : kept[i] = buffer[i + 1]
        BY <1>2, <3>1
      <3> HIDE DEF kept
      <3>3. \A i \in 1 .. Len(kept) : i + 1 \in 1 .. Len(buffer)
        BY <1>6, <3>2
      <3>4. \A i \in 1 .. Len(kept) : kept[i] = nextId - 2 - Len(buffer) + (i + 1)
        BY <1>6, <3>2, <3>3
      <3> QED  BY <1>2, <1>6, <3>2, <3>4
    <2>2. CASE Len(buffer) < ReplayCapacity
      <3>1. kept = buffer
        BY <1>2, <1>6, <2>2
      <3> HIDE DEF kept
      <3> QED  BY <1>2, <1>6, <2>2, <3>1
    <2>3. Len(buffer) >= ReplayCapacity \/ Len(buffer) < ReplayCapacity
      BY <1>2, <1>6
    <2> HIDE DEF kept
    <2> QED  BY <2>1, <2>2, <2>3
  <1> HIDE DEF kept
  <1>8. nextId - 1 \in Nat /\ Len(kept) \in Nat
    BY <1>2, <1>7
  <1>9. /\ buffer' \in Seq(Nat) /\ Len(buffer') = Len(kept) + 1
        /\ buffer'[Len(kept) + 1] = nextId - 1 /\ \A i \in 1 .. Len(kept) : buffer'[i] = kept[i]
    BY <1>1, <1>3, <1>7, <1>8
  <1>10. BufferRuns'
    <2>1. ASSUME NEW i \in 1 .. Len(buffer')
          PROVE  buffer'[i] = nextId - 1 - Len(buffer') + i
      <3>1. i = Len(kept) + 1 \/ i \in 1 .. Len(kept)
        BY <1>8, <1>9
      <3>2. CASE i = Len(kept) + 1
        BY <1>2, <1>8, <1>9, <3>2
      <3>3. CASE i \in 1 .. Len(kept)
        <4>1. buffer'[i] = nextId - 2 - Len(kept) + i
          BY <1>7, <1>9, <3>3
        <4> QED  BY <1>2, <1>8, <1>9, <3>3, <4>1
      <3> QED  BY <3>1, <3>2, <3>3
    <2>2. Len(buffer') <= ReplayCapacity /\ Len(buffer') <= nextId - 1
      BY <1>2, <1>7, <1>8, <1>9
    <2> QED  BY <1>5, <2>1, <2>2 DEF BufferRuns
  <1>11. OneBroadcast'
    BY <1>1, <1>3, <1>4 DEF OneBroadcast
  <1>12. RingsRun'
    BY <1>1, <1>2, <1>4 DEF RingsRun
  <1>13. ChannelIInv'
    BY <1>1, <1>4, <1>9, <1>10, <1>11, <1>12 DEF ChannelIInv
  <1>14. ChannelGrows
    BY <1>1, <1>2 DEF ChannelGrows, ChannelIInv
  <1> QED  BY <1>1, <1>13, <1>14, ClientsStillFit

LEMMA SendFits ==
  ASSUME EventsIInv, NEW p \in Publishers, SendLive(p)
  PROVE  EventsIInv'
  <1>1. /\ ChannelIInv /\ publisher[p].at = "buffered"
        /\ publisher' = [publisher EXCEPT ![p] = Quiet]
        /\ ring' = [ring EXCEPT ![epoch] = Append(@, publisher[p].id)]
        /\ present' = present /\ epoch' = epoch /\ nextId' = nextId /\ buffer' = buffer
        /\ events' = events /\ connection' = connection
    BY DEF EventsIInv, SendLive
  <1>2. /\ MaxEvents \in Nat /\ MaxChannels \in Nat /\ events \in 0 .. MaxEvents
        /\ publisher \in [Publishers -> PublisherRecord] /\ epoch \in 0 .. MaxChannels
        /\ nextId \in Nat \ {0} /\ nextId <= events + 1 /\ OneBroadcast /\ BufferRuns /\ RingsRun
        /\ ring \in [1 .. MaxChannels -> Seq(Nat)]
    BY <1>1, EventAssumption DEF ChannelIInv
  <1>3. /\ epoch # 0 /\ publisher[p].id = nextId - 1
        /\ nextId = Len(ring[epoch]) + 2
        /\ \A q \in Publishers : q # p => publisher[q].at = "idle"
    BY <1>1, <1>2 DEF OneBroadcast
  <1>4. epoch \in 1 .. MaxChannels /\ ring[epoch] \in Seq(Nat) /\ Len(ring[epoch]) \in Nat
    BY <1>2, <1>3
  <1>5. Quiet \in PublisherRecord /\ Quiet.at = "idle"
    BY <1>2 DEF Quiet, PublisherRecord
  <1>6. /\ publisher' \in [Publishers -> PublisherRecord]
        /\ \A q \in Publishers : publisher'[q].at = "idle"
    BY <1>1, <1>2, <1>3, <1>5
  <1> DEFINE sent == Append(ring[epoch], publisher[p].id)
  <1>7. publisher[p].id = Len(ring[epoch]) + 1
    BY <1>2, <1>3, <1>4
  <1>8. /\ sent \in Seq(Nat) /\ Len(sent) = Len(ring[epoch]) + 1
        /\ \A i \in 1 .. Len(sent) : sent[i] = i
    <2>1. /\ sent \in Seq(Nat) /\ Len(sent) = Len(ring[epoch]) + 1
          /\ sent[Len(ring[epoch]) + 1] = Len(ring[epoch]) + 1
          /\ \A i \in 1 .. Len(ring[epoch]) : sent[i] = ring[epoch][i]
      BY <1>4, <1>7
    <2> HIDE DEF sent
    <2>2. \A i \in 1 .. Len(ring[epoch]) : ring[epoch][i] = i
      BY <1>2, <1>4 DEF RingsRun
    <2>3. \A i \in 1 .. Len(sent) : i = Len(ring[epoch]) + 1 \/ i \in 1 .. Len(ring[epoch])
      BY <1>4, <2>1
    <2> QED  BY <2>1, <2>2, <2>3
  <1>9. ring' = [ring EXCEPT ![epoch] = sent]
    BY <1>1
  <1> HIDE DEF sent
  <1>10. /\ ring' \in [1 .. MaxChannels -> Seq(Nat)] /\ ring'[epoch] = sent
         /\ \A e \in 1 .. MaxChannels : e # epoch => ring'[e] = ring[e]
    BY <1>2, <1>4, <1>8, <1>9
  <1>11. Len(sent) <= MaxEvents /\ nextId = Len(sent) + 1
    BY <1>2, <1>3, <1>4, <1>8
  <1>12. RingsRun'
    <2>1. ASSUME NEW e \in 1 .. MaxChannels
          PROVE  /\ Len(ring'[e]) <= MaxEvents
                 /\ \A i \in 1 .. Len(ring'[e]) : ring'[e][i] = i
                 /\ e > epoch => ring'[e] = <<>>
      <3>1. CASE e = epoch
        BY <1>4, <1>8, <1>10, <1>11, <3>1
      <3>2. CASE e # epoch
        BY <1>2, <1>10, <3>2 DEF RingsRun
      <3> QED  BY <3>1, <3>2
    <2> QED  BY <1>1, <1>10, <1>11, <2>1 DEF RingsRun
  <1>13. OneBroadcast'
    BY <1>6 DEF OneBroadcast
  <1>14. BufferRuns'
    <2>1. Buffered = nextId - 1 /\ Buffered' = nextId - 1
      BY <1>1, <1>3, <1>6 DEF Buffered
    <2> QED  BY <1>1, <1>2, <2>1 DEF BufferRuns
  <1>15. ChannelIInv'
    BY <1>1, <1>6, <1>10, <1>12, <1>13, <1>14 DEF ChannelIInv
  <1>16. ChannelGrows
    <2>1. \A e \in 1 .. epoch : e \in 1 .. MaxChannels
      BY <1>2
    <2>2. \A e \in 1 .. epoch : Len(ring[e]) <= Len(ring'[e])
      <3> SUFFICES ASSUME NEW e \in 1 .. epoch PROVE Len(ring[e]) <= Len(ring'[e])
        OBVIOUS
      <3>1. CASE e = epoch
        BY <1>4, <1>8, <1>10, <3>1
      <3>2. CASE e # epoch
        BY <1>2, <1>10, <2>1, <3>2
      <3> QED  BY <3>1, <3>2
    <2> QED  BY <1>1, <1>2, <2>2 DEF ChannelGrows
  <1> QED  BY <1>1, <1>15, <1>16, ClientsStillFit

LEMMA SweepFits ==
  ASSUME EventsIInv, CleanupStaleChannels
  PROVE  EventsIInv'
  <1>1. /\ ChannelIInv /\ present' = FALSE /\ epoch' = epoch /\ nextId' = nextId /\ buffer' = buffer
        /\ ring' = ring /\ publisher' = publisher /\ events' = events /\ connection' = connection
    BY DEF EventsIInv, CleanupStaleChannels
  <1>2. OneBroadcast' /\ BufferRuns' /\ RingsRun'
    BY <1>1 DEF ChannelIInv, OneBroadcast, BufferRuns, RingsRun, Buffered
  <1>3. ChannelIInv'
    BY <1>1, <1>2 DEF ChannelIInv
  <1>4. ChannelGrows
    <2>1. nextId \in Nat /\ \A e \in 1 .. epoch : Len(ring[e]) \in Nat
      BY <1>1, EventAssumption DEF ChannelIInv
    <2> QED  BY <1>1, <2>1 DEF ChannelGrows
  <1> QED  BY <1>1, <1>3, <1>4, ClientsStillFit

-----------------------------------------------------------------------------
(* The clients.                                                            *)

(* One client takes a step beside a channel that stays as it is.           *)
LEMMA ClientMoves ==
  ASSUME EventsIInv, NEW c \in Clients, NEW r \in ConnectionRecord,
         SetClient(c, r), ClientFits(r)
  PROVE  EventsIInv'
  <1>1. /\ ChannelIInv /\ connection \in [Clients -> ConnectionRecord]
        /\ \A d \in Clients : ClientFits(connection[d])
    BY DEF EventsIInv
  <1>2. /\ connection' = [connection EXCEPT ![c] = r]
        /\ present' = present /\ epoch' = epoch /\ nextId' = nextId /\ buffer' = buffer /\ ring' = ring
        /\ publisher' = publisher /\ events' = events
    BY DEF SetClient, channel
  <1>3. ChannelIInv'
    BY <1>1, <1>2 DEF ChannelIInv, OneBroadcast, BufferRuns, RingsRun, Buffered
  <1>4. ChannelGrows
    <2>1. nextId \in Nat /\ \A e \in 1 .. epoch : Len(ring[e]) \in Nat
      BY <1>1, EventAssumption DEF ChannelIInv
    <2> QED  BY <1>2, <2>1 DEF ChannelGrows
  <1>5. connection' \in [Clients -> ConnectionRecord] /\ connection'[c] = r
        /\ \A d \in Clients : d # c => connection'[d] = connection[d]
    BY <1>1, <1>2
  <1>6. ASSUME NEW d \in Clients
        PROVE  ClientFits(connection[d])'
    <2>1. PICK q \in ConnectionRecord : q = connection'[d] /\ ClientFits(q)
      BY <1>1, <1>5
    <2>2. ClientFits(q)'
      BY <1>1, <1>3, <1>4, <2>1, StillFits
    <2> QED  BY <2>1, <2>2
  <1> QED  BY <1>3, <1>5, <1>6 DEF EventsIInv

LEMMA AwayFits ==
  ASSUME NEW n \in Nat, NEW last \in Nat, NEW of \in Nat
  PROVE  Away(n, last, of) \in ConnectionRecord /\ ClientFits(Away(n, last, of))
  <1>1. <<>> \in Seq(Nat) /\ 0 \in Nat /\ FALSE \in BOOLEAN /\ "away" \in {"away", "replayed", "live"}
    OBVIOUS
  <1>2. Away(n, last, of) \in ConnectionRecord
    BY <1>1, Zenon DEF Away, ConnectionRecord
  <1> QED  BY <1>2 DEF Away, ClientFits

LEMMA LeaveFits ==
  ASSUME EventsIInv, NEW c \in Clients, Disconnect(c) \/ StreamEnds(c)
  PROVE  EventsIInv'
  <1>1. connection[c] \in ConnectionRecord
    BY DEF EventsIInv
  <1>2. connection[c].connects \in Nat /\ connection[c].last \in Nat /\ connection[c].lastOf \in Nat
    BY <1>1 DEF ConnectionRecord
  <1>3. SetClient(c, Away(connection[c].connects, connection[c].last, connection[c].lastOf))
    BY DEF Disconnect, StreamEnds
  <1>4. PICK r : r = Away(connection[c].connects, connection[c].last, connection[c].lastOf)
    OBVIOUS
  <1>5. r \in ConnectionRecord /\ ClientFits(r)
    BY <1>2, <1>4, AwayFits
  <1>6. SetClient(c, r)
    BY <1>3, <1>4
  <1> QED  BY <1>5, <1>6, ClientMoves

(* The buffer is a run of ids below the next one.                          *)
LEMMA BufferInOrder ==
  ASSUME ChannelIInv
  PROVE  /\ buffer \in Seq(Nat) /\ Increasing(buffer)
         /\ \A i \in DOMAIN buffer : buffer[i] < nextId
         /\ buffer # <<>> =>
              /\ Head(buffer) \in Nat /\ Last(buffer) \in Nat /\ Last(buffer) < nextId
              /\ \A i \in DOMAIN buffer : buffer[i] <= Last(buffer)
              /\ \A id \in Head(buffer) .. Last(buffer) : \E i \in DOMAIN buffer : buffer[i] = id
  <1> DEFINE n == Len(buffer)
             b == Buffered
  <1>1. /\ buffer \in Seq(Nat) /\ n \in Nat /\ DOMAIN buffer = 1 .. n
        /\ nextId \in Nat /\ n <= b
        /\ \A i \in 1 .. n : buffer[i] = b - n + i
    BY DEF ChannelIInv, BufferRuns
  <1>2. b = nextId - 1 \/ b = nextId - 2
    BY DEF Buffered
  <1>3. buffer # <<>> => n > 0 /\ Head(buffer) = buffer[1] /\ Last(buffer) = buffer[n]
    BY <1>1 DEF Last
  <1> HIDE DEF n, b
  <1>4. b \in Int
    BY <1>1, <1>2
  <1>5. Increasing(buffer)
    BY <1>1, <1>4 DEF Increasing
  <1>6. \A i \in DOMAIN buffer : buffer[i] < nextId
    BY <1>1, <1>2, <1>4
  <1>7. ASSUME buffer # <<>>
        PROVE  /\ Head(buffer) \in Nat /\ Last(buffer) \in Nat /\ Last(buffer) < nextId
               /\ \A i \in DOMAIN buffer : buffer[i] <= Last(buffer)
               /\ \A id \in Head(buffer) .. Last(buffer) : \E i \in DOMAIN buffer : buffer[i] = id
    <2>1. n > 0 /\ Head(buffer) = buffer[1] /\ Last(buffer) = buffer[n] /\ 1 \in 1 .. n /\ n \in 1 .. n
      BY <1>1, <1>3, <1>7
    <2>2. Head(buffer) = b - n + 1 /\ Last(buffer) = b /\ Last(buffer) < nextId
      BY <1>1, <1>2, <1>4, <2>1
    <2>3. \A i \in DOMAIN buffer : buffer[i] <= Last(buffer)
      BY <1>1, <1>4, <2>2
    <2>4. ASSUME NEW id \in Head(buffer) .. Last(buffer)
          PROVE  \E i \in DOMAIN buffer : buffer[i] = id
      <3>1. id \in Int /\ b - n + 1 <= id /\ id <= b
        BY <1>1, <1>4, <2>2, <2>4
      <3>2. id - (b - n) \in 1 .. n
        BY <1>1, <1>4, <3>1
      <3>3. buffer[id - (b - n)] = id
        BY <1>1, <1>4, <3>1, <3>2
      <3> QED  BY <1>1, <3>2, <3>3
    <2>5. Head(buffer) \in Nat /\ Last(buffer) \in Nat
      BY <1>1, <1>4, <2>1, <2>2
    <2> QED  BY <2>2, <2>3, <2>4, <2>5
  <1> QED  BY <1>1, <1>5, <1>6, <1>7

LEMMA ReplayStepFits ==
  ASSUME EventsIInv, NEW c \in Clients, Replay(c)
  PROVE  EventsIInv'
  <1> DEFINE held == IF present THEN buffer ELSE <<>>
             old == connection[c]
             of == IF present THEN epoch ELSE 0
             low == IF held = <<>> THEN 0 ELSE Head(held)
             high == IF held = <<>> THEN 0 ELSE Last(held)
  <1>1. /\ ChannelIInv /\ old \in ConnectionRecord /\ old.at = "away" /\ ClientFits(old)
    BY DEF EventsIInv, Replay
  <1>2. /\ old.seen = <<>> /\ old.last \in Nat /\ old.lastOf \in Nat /\ old.connects \in Nat
    BY <1>1 DEF ClientFits, ConnectionRecord
  <1>3. /\ held \in Seq(Nat) /\ Increasing(held) /\ \A i \in DOMAIN held : held[i] <= high
        /\ low \in Nat /\ high \in Nat
        /\ held # <<>> => \A id \in low .. high : \E i \in DOMAIN held : held[i] = id
        /\ held = <<>> => low = 0 /\ high = 0
        /\ high < nextId
    <2>1. nextId \in Nat \ {0}
      BY <1>1 DEF ChannelIInv
    <2>2. CASE present /\ buffer # <<>>
      BY <1>1, <2>2, BufferInOrder
    <2>3. CASE held = <<>>
      <3>1. low = 0 /\ high = 0
        BY <2>3
      <3> HIDE DEF held, low, high
      <3> QED  BY <2>1, <2>3, <3>1 DEF Increasing
    <2> QED  BY <2>2, <2>3
  <1>4. PICK missed \in IF old.last = 0 THEN {<<>>} ELSE LaterThan(held, old.last) :
          SetClient(c, [old EXCEPT !.at = "replayed", !.connects = @ + 1,
            !.resume = old.last, !.resumeOf = old.lastOf, !.replayOf = of,
            !.oldest = low, !.newest = high, !.pending = missed])
    BY DEF Replay
  <1>5. of \in Nat /\ of <= epoch /\ (of = 0 => held = <<>>)
    BY <1>1, EventAssumption DEF ChannelIInv
  <1> HIDE DEF held, old, of, low, high
  <1>6. /\ missed \in Seq(Nat) /\ Increasing(missed)
        /\ \A j \in DOMAIN missed : missed[j] \in ToSet(held)
        /\ old.last > 0 => \A i \in DOMAIN held : held[i] > old.last => held[i] \in ToSet(missed)
    <2>1. CASE old.last = 0
      BY <1>4, <2>1 DEF Increasing
    <2>2. CASE old.last # 0
      <3>1. missed \in LaterThan(held, old.last)
        BY <1>4, <2>2
      <3> QED  BY <1>2, <1>3, <3>1, LaterThanFacts
    <2> QED  BY <2>1, <2>2
  <1> DEFINE r == [old EXCEPT !.at = "replayed", !.connects = @ + 1,
            !.resume = old.last, !.resumeOf = old.lastOf, !.replayOf = of,
            !.oldest = low, !.newest = high, !.pending = missed]
  <1>7. r \in ConnectionRecord
    <2>1. /\ "replayed" \in {"away", "replayed", "live"} /\ old.connects + 1 \in Nat
          /\ old.last \in Nat /\ old.lastOf \in Nat /\ of \in Nat /\ low \in Nat /\ high \in Nat
          /\ missed \in Seq(Nat)
      BY <1>2, <1>3, <1>5, <1>6
    <2> DEFINE x == old.connects + 1
               l == old.last
               o == old.lastOf
    <2>2. r = [old EXCEPT !.at = "replayed", !.connects = x,
            !.resume = l, !.resumeOf = o, !.replayOf = of,
            !.oldest = low, !.newest = high, !.pending = missed]
      BY <1>1 DEF ConnectionRecord
    <2> HIDE DEF r, x, l, o
    <2> QED  BY <1>1, <2>1, <2>2 DEF ConnectionRecord, x, l, o
  <1>8. /\ r.at = "replayed" /\ r.seen = <<>> /\ r.resume = old.last /\ r.replayOf = of
        /\ r.oldest = low /\ r.newest = high /\ r.pending = missed
    BY <1>1, <1>2 DEF ConnectionRecord
  <1>9. SetClient(c, r)
    BY <1>4
  <1>10. PICK q : q = r
    OBVIOUS
  <1> HIDE DEF r
  <1>11. \A j \in DOMAIN missed : missed[j] <= high
    BY <1>3, <1>6 DEF ToSet
  <1>12. of = 0 => missed = <<>>
    <2>1. ASSUME held = <<>>, missed # <<>>
          PROVE  FALSE
      <3>1. 1 \in DOMAIN missed
        BY <1>6, <2>1
      <3>2. missed[1] \in ToSet(held)
        BY <1>6, <3>1
      <3>3. PICK i \in DOMAIN held : TRUE
        BY <3>2 DEF ToSet
      <3> QED  BY <2>1, <3>3
    <2> QED  BY <1>5, <2>1
  <1>13. ASSUME old.last > 0, NEW id \in low .. high, id > old.last
         PROVE  id \in ToSet(missed)
    <2>1. held # <<>>
      BY <1>2, <1>3, <1>13
    <2>2. PICK i \in DOMAIN held : held[i] = id
      BY <1>3, <2>1
    <2> QED  BY <1>6, <1>13, <2>2
  <1>14. ClientFits(q)
    BY <1>3, <1>5, <1>6, <1>8, <1>10, <1>11, <1>12, <1>13 DEF ClientFits, ReplayFits
  <1> QED  BY <1>7, <1>9, <1>10, <1>14, ClientMoves

(* A subscriber starts where the ring ends, which is where the buffer does *)
(* when it was replayed from the same channel.                             *)
LEMMA SubscribeFits ==
  ASSUME EventsIInv, NEW c \in Clients, Subscribe(c)
  PROVE  EventsIInv'
  <1> DEFINE old == connection[c]
  <1>1. /\ ChannelIInv /\ old \in ConnectionRecord /\ old.at = "replayed" /\ ClientFits(old)
        /\ connection \in [Clients -> ConnectionRecord] /\ \A d \in Clients : ClientFits(connection[d])
        /\ GetOrCreateChannel /\ publisher' = publisher /\ events' = events
    BY DEF EventsIInv, Subscribe
  <1>2. /\ ChannelGrows
        /\ present' = TRUE /\ epoch' \in 1 .. MaxChannels /\ ring' = ring
        /\ nextId' \in Nat \ {0} /\ nextId' <= events + 1
        /\ nextId' = Len(ring[epoch']) + 1
        /\ buffer' \in Seq(Nat) /\ Len(buffer') <= ReplayCapacity /\ Len(buffer') <= nextId' - 1
        /\ \A i \in 1 .. Len(buffer') : buffer'[i] = nextId' - 1 - Len(buffer') + i
        /\ \A q \in Publishers : publisher[q].at = "idle"
    BY <1>1, ChannelOpens
  <1>3. ChannelIInv'
    <2>1. OneBroadcast'
      BY <1>1, <1>2 DEF OneBroadcast
    <2>2. BufferRuns'
      <3>1. Buffered' = nextId' - 1
        BY <1>1, <1>2 DEF Buffered
      <3> QED  BY <1>2, <3>1 DEF BufferRuns
    <2>3. RingsRun'
      <3>1. \A e \in 1 .. MaxChannels : e > epoch' => e > epoch
        BY <1>1, <1>2, EventAssumption DEF ChannelIInv, ChannelGrows
      <3> QED  BY <1>1, <1>2, <3>1 DEF RingsRun, ChannelIInv
    <2> QED  BY <1>1, <1>2, <2>1, <2>2, <2>3, EventAssumption DEF ChannelIInv
  <1> DEFINE n == Len(ring[epoch'])
             r == [old EXCEPT !.at = "live", !.from = epoch', !.start = n, !.pos = n]
  <1>4. connection' = [connection EXCEPT ![c] = r]
    BY DEF Subscribe
  <1>5. epoch' \in Nat \ {0} /\ n \in Nat /\ nextId' = n + 1 /\ ring'[epoch'] = ring[epoch']
    BY <1>1, <1>2, EventAssumption DEF ChannelIInv
  <1> HIDE DEF n
  <1>6. r \in ConnectionRecord
    BY <1>1, <1>5 DEF ConnectionRecord
  <1>7. /\ r.at = "live" /\ r.from = epoch' /\ r.start = n /\ r.pos = n
        /\ r.resume = old.resume /\ r.resumeOf = old.resumeOf /\ r.replayOf = old.replayOf
        /\ r.oldest = old.oldest /\ r.newest = old.newest /\ r.pending = old.pending
        /\ r.seen = old.seen
    BY <1>1 DEF ConnectionRecord
  <1>8. /\ ReplayFits(old) /\ old.seen = <<>> /\ old.pending \in Seq(Nat)
        /\ old.resume \in Nat /\ old.replayOf \in Nat /\ old.oldest \in Nat /\ old.newest \in Nat
    BY <1>1 DEF ClientFits, ConnectionRecord
  <1>9. connection' \in [Clients -> ConnectionRecord] /\ connection'[c] = r
        /\ \A d \in Clients : d # c => connection'[d] = connection[d]
    BY <1>1, <1>4, <1>6
  <1> HIDE DEF r, old
  <1>10. \/ epoch' = epoch /\ nextId' = nextId
         \/ epoch' = epoch + 1
    BY <1>1, <1>2 DEF GetOrCreateChannel, ChannelIInv, channel
  <1>11. (old.replayOf = epoch') => old.newest <= n
    <2> SUFFICES ASSUME old.replayOf = epoch' PROVE old.newest <= n
      OBVIOUS
    <2>1. epoch \in Nat
      BY <1>1, EventAssumption DEF ChannelIInv
    <2>2. epoch' = epoch /\ nextId' = nextId
      BY <1>8, <1>10, <2>1 DEF ReplayFits
    <2>3. old.newest < nextId'
      BY <1>8, <2>2 DEF ReplayFits
    <2> QED  BY <1>5, <1>8, <2>3
  <1>12. ASSUME old.replayOf \in {0, epoch'}
         PROVE  /\ Increasing(old.pending) /\ \A j \in DOMAIN old.pending : old.pending[j] <= n
    <2>1. \A j \in DOMAIN old.pending : old.pending[j] \in Nat /\ old.pending[j] <= old.newest
      BY <1>8 DEF ReplayFits
    <2>2. CASE old.replayOf = 0
      BY <1>8, <2>2 DEF ReplayFits
    <2>3. CASE old.replayOf = epoch'
      BY <1>5, <1>8, <1>11, <2>1, <2>3 DEF ReplayFits
    <2> QED  BY <1>12, <2>2, <2>3
  <1>13. old.replayOf \in {0, epoch'} => StreamInOrder(r)
    BY <1>7, <1>8, <1>12 DEF StreamInOrder, Increasing
  <1>14. old.resume > 0 => StreamWhole(r)
    <2> SUFFICES ASSUME old.resume > 0, NEW id \in r.resume + 1 .. r.pos
                 PROVE  id \in ToSet(r.pending) \/ id \in Missable(r)
      BY DEF StreamWhole
    <2>1. id \in Nat \ {0} /\ id > old.resume /\ id <= n
      BY <1>5, <1>7, <1>8
    <2>2. CASE id < old.oldest
      BY <1>7, <1>8, <2>1, <2>2 DEF Missable
    <2>3. CASE id > old.newest
      BY <1>5, <1>7, <1>8, <2>1, <2>3 DEF Missable
    <2>4. CASE id \in old.oldest .. old.newest
      BY <1>7, <1>8, <2>1, <2>4 DEF ReplayFits
    <2> QED  BY <1>8, <2>1, <2>2, <2>3, <2>4
  <1>15. ASSUME NEW q \in ConnectionRecord, q = r
         PROVE  ClientFits(q)'
    <2>1. q.from \in 1 .. epoch' /\ q.start <= q.pos /\ q.pos <= Len(ring'[q.from])
      <3>1. n = Len(ring'[epoch'])
        BY <1>2 DEF n
      <3> QED  BY <1>5, <1>7, <1>15, <3>1
    <2>2. q.replayOf \in {0, q.from} => StreamInOrder(q)
      BY <1>7, <1>13, <1>15
    <2>3. q.resume > 0 => StreamWhole(q)
      BY <1>7, <1>14, <1>15
    <2>4. LiveFits(q)'
      BY <2>1, <2>2, <2>3 DEF LiveFits, StreamInOrder, StreamWhole, Increasing
    <2> QED  BY <1>7, <1>15, <2>4 DEF ClientFits
  <1>16. ASSUME NEW d \in Clients
         PROVE  ClientFits(connection[d])'
    <2>1. CASE d = c
      <3>1. PICK q \in ConnectionRecord : q = connection'[c]
        BY <1>9
      <3>2. ClientFits(q)'
        BY <1>9, <1>15, <3>1
      <3> QED  BY <2>1, <3>1, <3>2
    <2>2. CASE d # c
      <3>1. PICK q \in ConnectionRecord : q = connection'[d] /\ ClientFits(q)
        BY <1>1, <1>9, <2>2
      <3>2. ClientFits(q)'
        BY <1>1, <1>2, <1>3, <3>1, StillFits
      <3> QED  BY <3>1, <3>2
    <2> QED  BY <2>1, <2>2
  <1> QED  BY <1>3, <1>9, <1>16 DEF EventsIInv

(* An event is delivered: the fields of a record it changes.               *)
LEMMA DeliverFields ==
  ASSUME NEW r \in ConnectionRecord, NEW id \in Nat, NEW of \in Nat
  PROVE  /\ Deliver(r, id, of) \in ConnectionRecord
         /\ Deliver(r, id, of).seen = Append(r.seen, id)
         /\ Deliver(r, id, of).at = r.at /\ Deliver(r, id, of).resume = r.resume
         /\ Deliver(r, id, of).resumeOf = r.resumeOf /\ Deliver(r, id, of).replayOf = r.replayOf
         /\ Deliver(r, id, of).oldest = r.oldest /\ Deliver(r, id, of).newest = r.newest
         /\ Deliver(r, id, of).from = r.from /\ Deliver(r, id, of).start = r.start
         /\ Deliver(r, id, of).pos = r.pos /\ Deliver(r, id, of).pending = r.pending
         /\ Deliver(r, id, of).told <=> r.told
  <1>1. Append(r.seen, id) \in Seq(Nat)
    BY DEF ConnectionRecord
  <1> QED  BY <1>1 DEF Deliver, ConnectionRecord

LEMMA DeliverReplayedFits ==
  ASSUME EventsIInv, NEW c \in Clients, DeliverReplayed(c)
  PROVE  EventsIInv'
  <1> DEFINE old == connection[c]
             h == Head(old.pending)
             mid == [old EXCEPT !.pending = Tail(@)]
             r == Deliver(mid, h, old.replayOf)
  <1>1. /\ ChannelIInv /\ old \in ConnectionRecord /\ old.at = "live" /\ LiveFits(old)
        /\ old.pending # <<>> /\ SetClient(c, r)
    BY DEF EventsIInv, ClientFits, DeliverReplayed
  <1>2. /\ old.pending \in Seq(Nat) /\ old.seen \in Seq(Nat) /\ old.replayOf \in Nat
        /\ old.pos \in Nat /\ old.resume \in Nat
    BY <1>1 DEF ConnectionRecord
  <1>3. /\ h \in Nat /\ Tail(old.pending) \in Seq(Nat) /\ h = old.pending[1] /\ 1 \in DOMAIN old.pending
        /\ \A j \in DOMAIN Tail(old.pending) : j + 1 \in DOMAIN old.pending
                                              /\ Tail(old.pending)[j] = old.pending[j + 1]
        /\ ToSet(old.pending) = {h} \cup ToSet(Tail(old.pending))
        /\ Increasing(old.pending) =>
             (Increasing(Tail(old.pending)) /\ \A j \in DOMAIN Tail(old.pending) : h < Tail(old.pending)[j])
    BY <1>1, <1>2, TailInOrder
  <1> DEFINE rest == Tail(old.pending)
  <1>4. mid \in ConnectionRecord /\ mid.pending = rest /\ mid.at = old.at /\ mid.resume = old.resume
        /\ mid.resumeOf = old.resumeOf /\ mid.replayOf = old.replayOf /\ mid.oldest = old.oldest
        /\ mid.newest = old.newest /\ mid.from = old.from /\ mid.start = old.start /\ mid.pos = old.pos
        /\ mid.seen = old.seen /\ (mid.told <=> old.told)
    BY <1>1, <1>3 DEF ConnectionRecord
  <1> HIDE DEF mid
  <1>5. /\ r \in ConnectionRecord /\ r.seen = Append(old.seen, h) /\ r.pending = rest /\ r.at = "live"
        /\ r.resume = old.resume /\ r.resumeOf = old.resumeOf /\ r.replayOf = old.replayOf
        /\ r.oldest = old.oldest /\ r.newest = old.newest /\ r.from = old.from
        /\ r.start = old.start /\ r.pos = old.pos /\ (r.told <=> old.told)
    <2>1. /\ mid \in ConnectionRecord /\ h \in Nat /\ old.replayOf \in Nat /\ old.at = "live"
      BY <1>1, <1>2, <1>3, <1>4
    <2> HIDE DEF h, old
    <2>2. /\ r \in ConnectionRecord /\ r.seen = Append(mid.seen, h) /\ r.pending = mid.pending /\ r.at = mid.at
          /\ r.resume = mid.resume /\ r.resumeOf = mid.resumeOf /\ r.replayOf = mid.replayOf
          /\ r.oldest = mid.oldest /\ r.newest = mid.newest /\ r.from = mid.from
          /\ r.start = mid.start /\ r.pos = mid.pos /\ (r.told <=> mid.told)
      BY <2>1, DeliverFields, ZenonT(40)
    <2> HIDE DEF r
    <2> QED  BY <1>4, <2>1, <2>2
  <1> HIDE DEF r, rest, h, old
  <1>6. StreamInOrder(old) => StreamInOrder(r)
    <2> SUFFICES ASSUME StreamInOrder(old) PROVE StreamInOrder(r)
      OBVIOUS
    <2>1. /\ Increasing(old.seen) /\ Increasing(old.pending)
          /\ \A i \in DOMAIN old.seen : old.seen[i] <= old.pos /\ old.seen[i] < h
          /\ h <= old.pos
      BY <1>3 DEF StreamInOrder
    <2>2. /\ Increasing(rest) /\ \A j \in DOMAIN rest : h < rest[j]
          /\ \A j \in DOMAIN rest : j + 1 \in DOMAIN old.pending /\ rest[j] = old.pending[j + 1]
      BY <1>3, <2>1 DEF rest
    <2>3. \A j \in DOMAIN rest : rest[j] <= old.pos
      BY <2>2 DEF StreamInOrder
    <2>4. Increasing(Append(old.seen, h))
      BY <1>2, <1>3, <2>1, AppendInOrder
    <2>5. \A i \in DOMAIN Append(old.seen, h) :
            Append(old.seen, h)[i] = h \/ (i \in DOMAIN old.seen /\ Append(old.seen, h)[i] = old.seen[i])
      BY <1>2, <1>3, AppendSet
    <2> DEFINE more == Append(old.seen, h)
    <2>6. r.seen = more
      BY <1>5
    <2>7. Increasing(more) /\ \A i \in DOMAIN more : more[i] = h \/ (i \in DOMAIN old.seen /\ more[i] = old.seen[i])
      BY <2>4, <2>5
    <2> HIDE DEF more
    <2>8. \A i \in DOMAIN more : more[i] <= old.pos
      BY <2>1, <2>7
    <2>9. ASSUME NEW i \in DOMAIN more, NEW j \in DOMAIN rest
          PROVE  more[i] < rest[j]
      <3>1. CASE more[i] = h
        BY <2>2, <3>1
      <3>2. CASE i \in DOMAIN old.seen /\ more[i] = old.seen[i]
        <4>1. j + 1 \in DOMAIN old.pending /\ rest[j] = old.pending[j + 1]
          BY <2>2
        <4> QED  BY <3>2, <4>1 DEF StreamInOrder
      <3> QED  BY <2>7, <3>1, <3>2
    <2> QED  BY <1>5, <2>2, <2>3, <2>6, <2>7, <2>8, <2>9 DEF StreamInOrder
  <1>7. StreamWhole(old) => StreamWhole(r)
    <2>1. ToSet(r.seen) = ToSet(old.seen) \cup {h}
      BY <1>2, <1>3, <1>5, AppendSet
    <2>2. ToSet(old.pending) = {h} \cup ToSet(r.pending)
      BY <1>3, <1>5 DEF rest
    <2>3. Missable(r) = Missable(old)
      BY <1>5 DEF Missable
    <2> QED  BY <1>5, <2>1, <2>2, <2>3 DEF StreamWhole
  <1>8. PICK q \in ConnectionRecord : q = r
    BY <1>5
  <1>9. ClientFits(q)
    BY <1>1, <1>5, <1>6, <1>7, <1>8 DEF LiveFits, ClientFits
  <1> QED  BY <1>1, <1>8, <1>9, ClientMoves

LEMMA DeliverLiveFits ==
  ASSUME EventsIInv, NEW c \in Clients, DeliverLive(c)
  PROVE  EventsIInv'
  <1> DEFINE old == connection[c]
             id == Sent(c)[old.pos + 1]
             mid == [old EXCEPT !.pos = @ + 1]
             r == Deliver(mid, id, old.from)
  <1>1. /\ ChannelIInv /\ old \in ConnectionRecord /\ old.at = "live" /\ LiveFits(old)
        /\ old.pending = <<>> /\ Behind(c) \in 1 .. RingCapacity /\ SetClient(c, r)
    BY DEF EventsIInv, ClientFits, DeliverLive, Following
  <1>2. /\ old.seen \in Seq(Nat) /\ old.from \in Nat
        /\ old.pos \in Nat /\ old.start \in Nat /\ old.resume \in Nat
    BY <1>1 DEF ConnectionRecord
  <1>3. /\ ring[old.from] \in Seq(Nat) /\ Len(ring[old.from]) \in Nat
        /\ \A i \in 1 .. Len(ring[old.from]) : ring[old.from][i] = i
    <2>1. old.from \in 1 .. MaxChannels
      BY <1>1, <1>2, EventAssumption, SMTT(30) DEF LiveFits, ChannelIInv
    <2> QED  BY <1>1, <2>1, SMTT(30) DEF ChannelIInv, RingsRun
  <1>4. old.pos + 1 <= Len(ring[old.from])
    BY <1>1, <1>2, <1>3, EventAssumption, SMTT(30) DEF Behind, Sent
  <1>5. id = old.pos + 1 /\ id \in Nat
    BY <1>2, <1>3, <1>4, SMTT(30) DEF Sent
  <1>6. mid \in ConnectionRecord /\ mid.pending = old.pending /\ mid.at = old.at /\ mid.resume = old.resume
        /\ mid.resumeOf = old.resumeOf /\ mid.replayOf = old.replayOf /\ mid.oldest = old.oldest
        /\ mid.newest = old.newest /\ mid.from = old.from /\ mid.start = old.start /\ mid.pos = old.pos + 1
        /\ mid.seen = old.seen /\ (mid.told <=> old.told)
    <2>1. old \in ConnectionRecord /\ old.pos + 1 \in Nat
      BY <1>1, <1>2
    <2> DEFINE n == old.pos + 1
    <2>2. mid = [old EXCEPT !.pos = n]
      OBVIOUS
    <2> HIDE DEF mid, old, n
    <2>3. mid \in ConnectionRecord /\ mid.pos = n
      BY <2>1, <2>2 DEF ConnectionRecord, n
    <2> QED  BY <2>1, <2>2, <2>3 DEF ConnectionRecord, n
  <1> HIDE DEF mid, id
  <1>7. /\ r \in ConnectionRecord /\ r.seen = Append(old.seen, id) /\ r.pending = <<>> /\ r.at = "live"
        /\ r.resume = old.resume /\ r.resumeOf = old.resumeOf /\ r.replayOf = old.replayOf
        /\ r.oldest = old.oldest /\ r.newest = old.newest /\ r.from = old.from
        /\ r.start = old.start /\ r.pos = old.pos + 1 /\ (r.told <=> old.told)
    <2>1. /\ mid \in ConnectionRecord /\ id \in Nat /\ old.from \in Nat /\ old.at = "live" /\ old.pending = <<>>
      BY <1>1, <1>2, <1>5, <1>6
    <2> HIDE DEF old
    <2>2. /\ r \in ConnectionRecord /\ r.seen = Append(mid.seen, id) /\ r.pending = mid.pending /\ r.at = mid.at
          /\ r.resume = mid.resume /\ r.resumeOf = mid.resumeOf /\ r.replayOf = mid.replayOf
          /\ r.oldest = mid.oldest /\ r.newest = mid.newest /\ r.from = mid.from
          /\ r.start = mid.start /\ r.pos = mid.pos /\ (r.told <=> mid.told)
      BY <2>1, DeliverFields, ZenonT(40)
    <2> HIDE DEF r
    <2> QED  BY <1>6, <2>1, <2>2
  <1> HIDE DEF r, old
  <1>8. StreamInOrder(old) => StreamInOrder(r)
    <2> SUFFICES ASSUME StreamInOrder(old) PROVE StreamInOrder(r)
      OBVIOUS
    <2>1. /\ Increasing(old.seen) /\ \A i \in DOMAIN old.seen : old.seen[i] \in Nat /\ old.seen[i] <= old.pos
      BY <1>2 DEF StreamInOrder
    <2>2. \A i \in DOMAIN old.seen : old.seen[i] < id
      BY <1>2, <1>5, <2>1
    <2> DEFINE more == Append(old.seen, id)
    <2>3. Increasing(more)
      BY <1>2, <1>5, <2>1, <2>2, AppendInOrder
    <2>4. \A i \in DOMAIN more : more[i] = id \/ (i \in DOMAIN old.seen /\ more[i] = old.seen[i])
      BY <1>2, <1>5, AppendSet
    <2>5. r.seen = more
      BY <1>7
    <2> HIDE DEF more
    <2>6. \A i \in DOMAIN more : more[i] <= old.pos + 1
      BY <1>2, <1>5, <2>1, <2>4
    <2> QED  BY <1>7, <2>3, <2>5, <2>6 DEF StreamInOrder, Increasing
  <1>9. (StreamWhole(old) /\ old.pending = <<>>) => StreamWhole(r)
    <2> SUFFICES ASSUME StreamWhole(old), old.pending = <<>>, NEW n \in r.resume + 1 .. r.pos
                 PROVE  n \in ToSet(r.seen) \/ n \in ToSet(r.pending) \/ n \in Missable(r)
      BY DEF StreamWhole
    <2>1. ToSet(r.seen) = ToSet(old.seen) \cup {id}
      BY <1>2, <1>5, <1>7, AppendSet
    <2>2. Missable(r) = Missable(old) /\ r.pending = old.pending
      BY <1>7 DEF Missable
    <2>3. n = id \/ n \in old.resume + 1 .. old.pos
      BY <1>2, <1>5, <1>7
    <2> QED  BY <2>1, <2>2, <2>3 DEF StreamWhole
  <1>10. r.start <= r.pos /\ r.pos <= Len(ring[r.from])
    BY <1>1, <1>2, <1>4, <1>7 DEF LiveFits
  <1>11. PICK q \in ConnectionRecord : q = r
    BY <1>7
  <1>12. ClientFits(q)
    BY <1>1, <1>7, <1>8, <1>9, <1>10, <1>11 DEF LiveFits, ClientFits
  <1> QED  BY <1>1, <1>11, <1>12, ClientMoves

LEMMA LagFits ==
  ASSUME EventsIInv, NEW c \in Clients, Lag(c)
  PROVE  EventsIInv'
  <1> DEFINE old == connection[c]
             n == Len(Sent(c)) - RingCapacity
             r == [old EXCEPT !.pos = n, !.told = TRUE]
  <1>1. /\ ChannelIInv /\ old \in ConnectionRecord /\ old.at = "live" /\ LiveFits(old)
        /\ old.pending = <<>> /\ Behind(c) > RingCapacity /\ SetClient(c, r)
    BY DEF EventsIInv, ClientFits, Lag, Following
  <1>2. /\ old.seen \in Seq(Nat) /\ old.from \in Nat /\ old.pos \in Nat /\ old.start \in Nat
        /\ RingCapacity \in Nat
    BY <1>1, EventAssumption DEF ConnectionRecord
  <1>3. Len(ring[old.from]) \in Nat
    <2>1. old.from \in 1 .. MaxChannels
      BY <1>1, <1>2, EventAssumption DEF LiveFits, ChannelIInv
    <2> QED  BY <1>1, <2>1 DEF ChannelIInv
  <1>4. n \in Nat /\ old.pos <= n /\ n <= Len(ring[old.from])
    <2> DEFINE k == Len(ring[old.from])
    <2>1. n = k - RingCapacity /\ k - old.pos > RingCapacity
      BY <1>1 DEF Behind, Sent
    <2>2. k \in Nat /\ old.pos \in Nat /\ RingCapacity \in Nat
      BY <1>2, <1>3
    <2> HIDE DEF k, n, old
    <2>3. n \in Nat /\ old.pos <= n /\ n <= k
      BY <2>1, <2>2
    <2> QED  BY <2>3 DEF k
  <1> HIDE DEF n
  <1>5. r \in ConnectionRecord /\ r.pos = n /\ r.told /\ r.seen = old.seen /\ r.pending = <<>> /\ r.at = "live"
        /\ r.from = old.from /\ r.start = old.start /\ r.replayOf = old.replayOf
    BY <1>1, <1>4 DEF ConnectionRecord
  <1> HIDE DEF r, old
  <1>6. StreamInOrder(old) => StreamInOrder(r)
    <2>1. \A i \in DOMAIN old.seen : old.seen[i] \in Nat
      BY <1>2
    <2> QED  BY <1>2, <1>4, <1>5, <2>1 DEF StreamInOrder, Increasing
  <1>7. r.start <= r.pos /\ r.pos <= Len(ring[r.from])
    BY <1>1, <1>2, <1>4, <1>5 DEF LiveFits
  <1>8. PICK q \in ConnectionRecord : q = r
    BY <1>5
  <1>9. ClientFits(q)
    BY <1>1, <1>5, <1>6, <1>7, <1>8 DEF LiveFits, ClientFits
  <1> QED  BY <1>1, <1>8, <1>9, ClientMoves

(* For any publishers and clients and any capacities of the buffer and the *)
(* ring: whoever publishes, connects, reads, falls behind, leaves or is    *)
(* swept, a client of one channel sees its events in order and each once,  *)
(* and misses without being told only what the buffer had dropped and what *)
(* was broadcast between its replay and its subscription                   *)
(* (services/source_events.rs, source_events_handler).                     *)
THEOREM EventsArriveInOrder == EventsSpec => []EventsInv
  <1>1. EventsInit => EventsIInv
    BY EventsInitFits
  <1>2. EventsIInv /\ [EventsNext]_eventVars => EventsIInv'
    <2> SUFFICES ASSUME EventsIInv, [EventsNext]_eventVars PROVE EventsIInv'
      OBVIOUS
    <2>1. ASSUME NEW p \in Publishers, PublishStep(p) PROVE EventsIInv'
      BY <2>1, EnterFits, TakeFits, BufferFits, SendFits DEF PublishStep
    <2>2. ASSUME NEW c \in Clients, ClientStep(c) PROVE EventsIInv'
      BY <2>2, ReplayStepFits, SubscribeFits, DeliverReplayedFits, DeliverLiveFits, LagFits, LeaveFits
      DEF ClientStep
    <2>3. CASE CleanupStaleChannels
      BY <2>3, SweepFits
    <2>4. CASE UNCHANGED eventVars
      <3>1. /\ connection' = connection
            /\ present' = present /\ epoch' = epoch /\ nextId' = nextId /\ buffer' = buffer /\ ring' = ring
            /\ publisher' = publisher /\ events' = events
        BY <2>4 DEF eventVars, channel
      <3>2. ChannelIInv /\ ChannelIInv'
        BY <3>1 DEF EventsIInv, ChannelIInv, OneBroadcast, BufferRuns, RingsRun, Buffered
      <3>3. ChannelGrows
        <4>1. nextId \in Nat /\ \A e \in 1 .. epoch : Len(ring[e]) \in Nat
          BY <3>2, EventAssumption DEF ChannelIInv
        <4> QED  BY <3>1, <4>1 DEF ChannelGrows
      <3> QED  BY <3>1, <3>2, <3>3, ClientsStillFit
    <2> QED  BY <2>1, <2>2, <2>3, <2>4 DEF EventsNext
  <1>3. EventsIInv => EventsInv
    BY EventsIInvImplies
  <1> QED  BY <1>1, <1>2, <1>3, PTL DEF EventsSpec

=============================================================================
