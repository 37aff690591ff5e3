------------------------ MODULE MCChecklistCommands ------------------------
(* Instances of ChecklistCommands for TLC: the commands that may come.     *)
EXTENDS ChecklistCommands, TLC

CONSTANTS l1, l2, t1, t2

New(l, mode, mission, rows) ==
  [op |-> "create", list |-> l, mode |-> mode, mission |-> mission, rows |-> rows]
Add(l, t) == [op |-> "row.add", list |-> l, row |-> t, due |-> TRUE]
Row(op, l, t) == [op |-> op, list |-> l, row |-> t]
Set(l, t, user) == [op |-> "status.set", list |-> l, row |-> t, user |-> user]
Of(op, l) == [op |-> op, list |-> l]
Patch(l, patch) == [op |-> "update", list |-> l, patch |-> patch]
Assignment(t, mission) == [op |-> "assign", row |-> t, mission |-> mission]

\* Every command, every way to be rejected, two lists that want the same rows.
AllSorts ==
  {New(l1, "ONLINE", "known", <<t1>>), New(l2, "OFFLINE", None, <<t2, t1>>),
   New(l2, "ONLINE", "unknown", << >>),
   Add(l1, t2), Add(l2, t1), Row("row.delete", l1, t1), Row("cell.set", l1, t1),
   Row("style.set", l1, t1), Set(l1, t1, "COMPLETE"),
   Patch(l1, "mission" :> "unknown" @@ "name" :> "renamed"),
   Patch(l2, "mission" :> "known" @@ "sync" :> "SYNCED" @@ "mode" :> "ONLINE"),
   Of("delete", l1), Of("upload", l2), Of("publish", l2), Of("join", l1),
   Assignment(t1, "known")}
=============================================================================
