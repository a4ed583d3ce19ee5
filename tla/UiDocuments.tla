--------------------------- MODULE UiDocuments ---------------------------
(***************************************************************************)
(* What a panel of `afpsql ui` puts in front of a person: the typed         *)
(* documents src/ui/inspect.rs and the document half of src/ui.rs build     *)
(* from the rows of one inspection query.                                   *)
(*                                                                         *)
(* A row keeps only what the documents branch on: its kind, the relation or *)
(* table it belongs to, its name and the set of flags its payload carries.  *)
(* All wording, sizes, comments and definitions are left out; every row     *)
(* also stays on the page unaltered in the document's table.                *)
(***************************************************************************)
EXTENDS Integers, Sequences, FiniteSets

\* The first of some positions.
First(S) == CHOOSE i \in S : \A j \in S : i <= j

\* The rows at the positions of S, in their order: what a loop that pushes
\* them, or a filter, collects.
Picked(rows, S) ==
    LET picked[i \in 0 .. Len(rows)] ==
          IF i = 0 THEN <<>>
          ELSE IF i \in S THEN Append(picked[i - 1], rows[i]) ELSE picked[i - 1]
    IN  picked[Len(rows)]

(***************************************************************************)
(* Rows of the schema snapshot:                                             *)
(*   [kind |-> "relation", of |-> "t", name |-> "t", flags |-> {}]          *)
(* `of` is the key schema.relation of the relation a row is about.          *)
(***************************************************************************)
ChildKinds == {"column", "constraint", "index", "trigger"}

NoChildren == [k \in ChildKinds |-> <<>>]

\* The tags of an entry: what column_entry, constraint_entry, index_entry and
\* trigger_entry say out loud about the payload's flags, the warnings among
\* them for a flag that is absent.
ColumnTags(flags) == flags \cap {"primary_key", "identity", "generated"}

ConstraintTags(flags) ==
    (IF "deferrable" \in flags
     THEN {IF "deferred_by_default" \in flags THEN "initially_deferred"
                                              ELSE "deferrable"}
     ELSE {})
    \cup (IF "validated" \in flags THEN {} ELSE {"not_validated"})

IndexTags(flags) ==
    (IF "primary" \in flags THEN {"primary_key"} ELSE flags \cap {"unique"})
    \cup (IF "valid" \in flags THEN {} ELSE {"invalid"})
    \cup (IF "ready" \in flags THEN {} ELSE {"not_ready"})

TriggerTags(flags) == flags \cap {"disabled", "replica_only", "always"}

Entry(row) ==
    [name |-> row.name,
     tags |-> CASE row.kind = "column"     -> ColumnTags(row.flags)
                [] row.kind = "constraint" -> ConstraintTags(row.flags)
                [] row.kind = "index"      -> IndexTags(row.flags)
                [] row.kind = "trigger"    -> TriggerTags(row.flags)]

\* A NOT NULL constraint restates the column's own `nullable` and is not
\* listed.
RestatesColumn(row) == row.kind = "constraint" /\ "not_null" \in row.flags

\* The snapshot described this relation in a row of its own, or slot_for had
\* to add it bare because only a child row named it.
Described(key)    == [key |-> key, described |-> TRUE,  children |-> NoChildren]
BareRelation(key) == [key |-> key, described |-> FALSE, children |-> NoChildren]

Describes(row) == row.kind \in {"relation", "sequence"}

\* The first pass: a relation or a sequence, in the order of the rows.
RelationsOf(rows) ==
    LET own == Picked(rows, {i \in DOMAIN rows : Describes(rows[i])})
    IN  [i \in DOMAIN own |-> Described(own[i].of)]

\* slot_for: the relation a child row belongs to, the first of that key, or 0.
Slot(relations, key) ==
    LET found == {i \in DOMAIN relations : relations[i].key = key}
    IN  IF found = {} THEN 0 ELSE First(found)

\* Mutant: a child whose relation was not described is skipped.
AttachRowToKnown(relations, row) ==
    LET slot == Slot(relations, row.of)
    IN  IF slot = 0 \/ row.kind \notin ChildKinds \/ RestatesColumn(row)
        THEN relations
        ELSE [relations EXCEPT ![slot].children[row.kind] = Append(@, Entry(row))]

\* One row of the second pass.
AttachRow(relations, row) ==
    LET known == IF Slot(relations, row.of) = 0
                 THEN Append(relations, BareRelation(row.of))
                 ELSE relations
        slot  == Slot(known, row.of)
    IN  IF row.kind \notin ChildKinds THEN relations
        ELSE IF RestatesColumn(row) THEN known
        ELSE [known EXCEPT ![slot].children[row.kind] = Append(@, Entry(row))]

Relations(rows) ==
    LET after[i \in 0 .. Len(rows)] ==
          IF i = 0 THEN RelationsOf(rows) ELSE AttachRow(after[i - 1], rows[i])
    IN  after[Len(rows)]

NamesOf(rows, kind) ==
    LET chosen == Picked(rows, {i \in DOMAIN rows : rows[i].kind = kind})
    IN  [i \in DOMAIN chosen |-> chosen[i].name]

\* What a relation amounts to in one line: each count that is not zero.
RelationParts(relation) ==
    {<<kind, Len(relation.children[kind])>> :
        kind \in {k \in ChildKinds : relation.children[k] # <<>>}}

\* A table panel counts what is inside its first relation, a schema panel
\* counts the objects by what they are.
SnapshotFooter(tablePanel, relations, extensions, routines) ==
    IF tablePanel
    THEN IF relations = <<>> THEN {} ELSE RelationParts(relations[1])
    ELSE LET count(d) == Cardinality({i \in DOMAIN relations : relations[i].described = d})
             totals   == {<<"relation", count(TRUE)>>, <<"bare", count(FALSE)>>,
                          <<"extension", Len(extensions)>>,
                          <<"function", Len(routines)>>}
         IN  {t \in totals : t[2] > 0}

\* snapshot_document: `ui schema` and `ui table`.
SnapshotDocument(tablePanel, rows) ==
    LET relations  == Relations(rows)
        extensions == NamesOf(rows, "extension")
        routines   == NamesOf(rows, "function")
    IN  [shape      |-> "snapshot",
         relations  |-> relations,
         extensions |-> extensions,
         routines   |-> routines,
         summaries  |-> [i \in DOMAIN relations |-> RelationParts(relations[i])],
         footer     |-> SnapshotFooter(tablePanel, relations, extensions, routines),
         expanded   |-> tablePanel \/ Len(relations) <= 3,
         empty      |-> relations = <<>> /\ extensions = <<>> /\ routines = <<>>,
         table      |-> rows]

\* index_panel_document: every row is an index, grouped under its table in the
\* order the tables first appear.
AddToGroup(groups, row) ==
    LET found == {i \in DOMAIN groups : groups[i].table = row.of}
        entry == [name |-> row.name, tags |-> IndexTags(row.flags)]
    IN  IF found = {} THEN Append(groups, [table |-> row.of, indexes |-> <<entry>>])
        ELSE [groups EXCEPT ![First(found)].indexes = Append(@, entry)]

Groups(rows) ==
    LET after[i \in 0 .. Len(rows)] ==
          IF i = 0 THEN <<>> ELSE AddToGroup(after[i - 1], rows[i])
    IN  after[Len(rows)]

IndexPanelDocument(rows) ==
    LET groups == Groups(rows)
    IN  [shape  |-> "indexes",
         groups |-> groups,
         footer |-> IF groups = <<>> THEN <<>> ELSE <<Len(rows), Len(groups)>>,
         empty  |-> groups = <<>>,
         table  |-> rows]

(***************************************************************************)
(* Rows of the activity query, one per backend:                             *)
(*   [client, state, database, user, wait, seconds, max]                    *)
(* `wait` is "" for a backend that waits for nothing, `seconds` the age of  *)
(* its query and `max` the server's max_connections, 0 when unreported.     *)
(***************************************************************************)
\* tally: how often each label occurs at the positions of S, which a filter
\* before the loop, or a `continue` in it, leaves; bump adds one to a label.
Bump(counts, label) ==
    [l \in DOMAIN counts \cup {label} |->
        IF l = label THEN (IF l \in DOMAIN counts THEN counts[l] ELSE 0) + 1
        ELSE counts[l]]

Tally(labels, S) ==
    LET counts[i \in 0 .. Len(labels)] ==
          IF i = 0 THEN [l \in {} |-> 0]
          ELSE IF i \in S THEN Bump(counts[i - 1], labels[i]) ELSE counts[i - 1]
    IN  counts[Len(labels)]

OrUnknown(label) == IF label = "" THEN "unknown" ELSE label

\* The labels of one field of the rows.
Labels(rows, field) == [i \in DOMAIN rows |-> OrUnknown(rows[i][field])]

ConnectionGroups(rows, clients) ==
    IF clients = {} THEN {}
    ELSE {[by |-> field, counts |-> Tally(Labels(rows, field), clients)] :
            field \in {"state", "database", "user"}}

WaitEvents(rows) ==
    Tally(Labels(rows, "wait"), {i \in DOMAIN rows : rows[i].wait # ""})

\* Only a backend that runs a statement or holds a transaction open has an age
\* that means something; an idle one's query_start is its last statement's.
IsRunning(row) ==
    row.state \in {"active", "idle in transaction", "idle in transaction (aborted)"}

\* sort_by_key is stable: a row comes behind those that are as old.
Insert(sorted, row) ==
    LET younger == {i \in DOMAIN sorted : sorted[i].seconds < row.seconds}
        at      == First(younger \cup {Len(sorted) + 1})
    IN  [i \in 1 .. Len(sorted) + 1 |->
            IF i < at THEN sorted[i] ELSE IF i = at THEN row ELSE sorted[i - 1]]

OldestFirst(rows) ==
    LET sorted[i \in 0 .. Len(rows)] ==
          IF i = 0 THEN <<>>
          ELSE IF IsRunning(rows[i]) THEN Insert(sorted[i - 1], rows[i])
          ELSE sorted[i - 1]
    IN  sorted[Len(rows)]

\* Oldest first, cut at LONGEST_ROWS.
LongestRunning(rows, longestRows) ==
    LET sorted == OldestFirst(rows)
    IN  SubSeq(sorted, 1, IF Len(sorted) < longestRows THEN Len(sorted) ELSE longestRows)

\* monitor_document. A failed update has no rows: it says which update failed.
MonitorDocument(rows, failed, longestRows) ==
    LET clients  == {i \in DOMAIN rows : rows[i].client}
        reported == {i \in DOMAIN rows : rows[i].max > 0}
        max      == IF reported = {} THEN 0 ELSE rows[First(reported)].max
    IN  [shape    |-> "monitor",
         error    |-> failed,
         backends |-> Len(rows),
         clients  |-> Cardinality(clients),
         max      |-> max,
         high     |-> (max * 4) \div 5,
         groups   |-> ConnectionGroups(rows, clients),
         waits    |-> WaitEvents(rows),
         longest  |-> LongestRunning(rows, longestRows),
         table    |-> rows]

(***************************************************************************)
(* plan_document: the statement exactly as it will be sent, every           *)
(* placeholder with its inferred type and whether a value is bound to it,   *)
(* and PostgreSQL's own words when it refused to prepare the statement.     *)
(***************************************************************************)
PlanParams(bound, types) ==
    [i \in 1 .. (IF bound > types THEN bound ELSE types) |->
        [typed |-> i <= types, bound |-> i <= bound]]

PlanDocument(statement, prepared) ==
    [shape    |-> "plan",
     sql      |-> statement.sql,
     readOnly |-> statement.readOnly,
     writes   |-> statement.writes,
     params   |-> PlanParams(statement.params, IF prepared THEN statement.types ELSE 0),
     rejected |-> ~ prepared]

\* decided_document: what the page says once an answer was pressed.
DecidedDocument(decision, recorded) ==
    IF ~ recorded THEN "Already_answered"
    ELSE IF decision = "approve" THEN "Approved" ELSE "Refused"

(***************************************************************************)
(* What these documents promise, stated over the rows alone.                *)
(***************************************************************************)
\* Every label at the positions of S is counted as often as it occurs there.
Counts(counts, labels, S) ==
    /\ DOMAIN counts = {labels[i] : i \in S}
    /\ \A l \in DOMAIN counts : counts[l] = Cardinality({i \in S : labels[i] = l})

\* The entries of one relation and one kind, read off the rows.
EntriesOf(rows, key, kind) ==
    LET own == Picked(rows, {i \in DOMAIN rows : /\ rows[i].kind = kind
                                                /\ rows[i].of = key
                                                /\ ~ RestatesColumn(rows[i])})
    IN  [i \in DOMAIN own |-> Entry(own[i])]

SnapshotIsWhole(doc, rows) ==
    /\ \A k \in ChildKinds, i \in DOMAIN rows :
          rows[i].kind = k /\ ~ RestatesColumn(rows[i]) =>
            \E j \in DOMAIN doc.relations :
               /\ doc.relations[j].key = rows[i].of
               /\ doc.relations[j].children[k] = EntriesOf(rows, rows[i].of, k)
    /\ \A i, j \in DOMAIN doc.relations :
          doc.relations[i].key = doc.relations[j].key => i = j
    /\ \A i \in DOMAIN doc.relations : \A k \in ChildKinds :
          Len(doc.relations[i].children[k])
            = Len(EntriesOf(rows, doc.relations[i].key, k))
    /\ \A i \in DOMAIN doc.relations :
          doc.relations[i].described <=>
            \E j \in DOMAIN rows : Describes(rows[j]) /\ rows[j].of = doc.relations[i].key
    /\ doc.empty => \A i \in DOMAIN rows : rows[i].kind \notin
          ChildKinds \cup {"relation", "sequence", "extension", "function"}

IndexesAreWhole(doc, rows) ==
    /\ \A i, j \in DOMAIN doc.groups :
          doc.groups[i].table = doc.groups[j].table => i = j
    /\ \A i \in DOMAIN doc.groups :
          doc.groups[i].indexes = EntriesOf(rows, doc.groups[i].table, "index")
    /\ \A i \in DOMAIN rows :
          \E j \in DOMAIN doc.groups : doc.groups[j].table = rows[i].of

MonitorAddsUp(doc, rows) ==
    /\ \A g \in doc.groups :
          Counts(g.counts, Labels(rows, g.by), {i \in DOMAIN rows : rows[i].client})
    /\ Counts(doc.waits, Labels(rows, "wait"), {i \in DOMAIN rows : rows[i].wait # ""})
    /\ \A i \in DOMAIN doc.longest :
          IsRunning(doc.longest[i]) /\ \E j \in DOMAIN rows : doc.longest[i] = rows[j]
    /\ \A i \in DOMAIN rows :
          IsRunning(rows[i]) =>
            \/ \E j \in DOMAIN doc.longest : doc.longest[j] = rows[i]
            \/ \A j \in DOMAIN doc.longest : doc.longest[j].seconds >= rows[i].seconds
    /\ doc.max > 0 => \E i \in DOMAIN rows : rows[i].max = doc.max
==========================================================================
