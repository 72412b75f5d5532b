------------------------------ MODULE MCFileIo ------------------------------
(* Instances of FileIo for TLC.                                             *)
EXTENDS FileIo, TLC

AllOps == {"OPEN", "OPEN_CONFIRM", "OPEN_DOWNGRADE", "CLOSE", "LOCK_NEW", "LOCK", "LOCKU",
           "FREE_STATEID"}
OpenClose == {"OPEN", "CLOSE"}
TwoShares == {<<{"READ", "WRITE"}, {}>>, <<{"READ"}, {"WRITE"}>>}
ReadWrite == {<<{"READ", "WRITE"}, {}>>}
OneByte == {{1}}
Symmetry == Permutations(Client) \cup Permutations(Owner) \cup Permutations(Task)
              \cup Permutations(IoTask)
=============================================================================
