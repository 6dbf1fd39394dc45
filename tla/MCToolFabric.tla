----------------------------- MODULE MCToolFabric -----------------------------
(* Small instances of ToolFabric. *)
EXTENDS ToolFabric, TLC

\* Every kind of tool and every fate of a payload.
AllLevels == [runtime_info |-> "read", fake_write |-> "write",
              fake_dangerous |-> "dangerous", missing |-> "unregistered"]
AllCanon == [a |-> "A", wrong |-> "invalid", nan |-> "nan"]

\* Only the approval flow: one write tool, two payloads it accepts.
WriteLevel == [fake_write |-> "write"]
ReadAndWrite == [runtime_info |-> "read", fake_write |-> "write"]
TwoCanon == [a |-> "A", b |-> "B"]
OneCanon == [a |-> "A"]

Interchangeable == Permutations(Core) \cup Permutations(Request)

===============================================================================
