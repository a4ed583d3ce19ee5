------------------------------ MODULE MCUi ------------------------------
(***************************************************************************)
(* Small results of the three queries: every order of up to four rows about *)
(* a relation that may be described and one that never is.                  *)
(***************************************************************************)
EXTENDS UiPanels

Obj(kind, of, name, flags) == [kind |-> kind, of |-> of, name |-> name, flags |-> flags]

MCSnapshotUniverse ==
    {Obj("relation", "t", "t", {}),
     Obj("column", "t", "a", {"primary_key"}), Obj("column", "u", "a", {}),
     Obj("constraint", "t", "nn", {"not_null", "validated"}),
     Obj("index", "u", "i", {"unique", "valid"}),
     Obj("function", "", "f", {})}

Orders(universe, n) ==
    UNION {{s \in [1 .. k -> universe] : \A i, j \in 1 .. k : s[i] = s[j] => i = j} :
             k \in 0 .. n}

MCSnapshotRows == Orders(MCSnapshotUniverse, 4)

MCIndexRows ==
    Orders({Obj("index", "t", "i", {"primary", "unique", "valid", "ready"}),
            Obj("index", "t", "j", {"unique", "ready"}),
            Obj("index", "u", "i", {"valid"})}, 3)

Backend(client, state, database, wait, seconds) ==
    [client |-> client, state |-> state, database |-> database, user |-> "app",
     wait |-> wait, seconds |-> seconds, max |-> 10]

MCActivityRows ==
    {<<Backend(TRUE, "active", "a", "", 1), Backend(TRUE, "idle", "b", "Client", 9),
       Backend(TRUE, "idle in transaction", "a", "Client", 5),
       Backend(FALSE, "", "", "Activity", 0), Backend(TRUE, "active", "a", "Lock", 3)>>,
     <<Backend(TRUE, "active", "", "", 2)>>}

MCStatements ==
    {[sql |-> "select", params |-> 1, types |-> 1, prepares |-> TRUE,
      writes |-> FALSE, readOnly |-> TRUE, permitted |-> TRUE],
     [sql |-> "insert", params |-> 1, types |-> 2, prepares |-> TRUE,
      writes |-> TRUE, readOnly |-> FALSE, permitted |-> TRUE],
     [sql |-> "no such table", params |-> 0, types |-> 0, prepares |-> FALSE,
      writes |-> FALSE, readOnly |-> TRUE, permitted |-> TRUE],
     [sql |-> "above its session", params |-> 0, types |-> 0, prepares |-> TRUE,
      writes |-> TRUE, readOnly |-> FALSE, permitted |-> FALSE]}
==========================================================================
