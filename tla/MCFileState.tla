---------------------------- MODULE MCFileState ----------------------------
(* Instances of FileState for TLC.                                          *)
EXTENDS FileState, TLC

OpenOps == {"OPEN", "OPEN_CONFIRM", "OPEN_DOWNGRADE", "CLOSE", "FREE_STATEID"}
LockOps == {"OPEN", "CLOSE", "LOCK_NEW", "LOCK", "LOCKU", "FREE_STATEID"}
Reservations == {<<{"READ"}, {}>>, <<{"WRITE"}, {}>>, <<{"READ"}, {"WRITE"}>>,
                 <<{"READ", "WRITE"}, {"READ"}>>}
ReadWrite == {<<{"READ", "WRITE"}, {}>>}
OneByte == {{1}}
BothBytes == {{1}, {1, 2}}
Symmetry == Permutations(Client) \cup Permutations(Owner) \cup Permutations(Task)
=============================================================================
