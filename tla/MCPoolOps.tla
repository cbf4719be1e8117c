----------------------------- MODULE MCPoolOps ------------------------------
(* Instances of PoolOps: two pools, the first with two virtual machines. *)
EXTENDS PoolOps

CONSTANTS p1, p2, v1, v2, v3

TwoPools == [v \in VM |-> IF v = v3 THEN p2 ELSE p1]

(* The flags a call does not look at are FALSE. *)
AllCommands ==
  {c \in Command : /\ c.kind # "sleep" => ~c.export
                   /\ c.kind \in {"export", "import"} => ~c.includeVM}

(* sleeppool and wakepool with --include-vm, export-now and import-now. *)
VMCommands == {c \in AllCommands : c.kind \in {"sleep", "wake"} => c.includeVM}

(* `sleeppool --at` with --include-vm, without --export. *)
StandbyTask == {c \in VMCommands : c.kind = "sleep" /\ ~c.export}

AllTasks == {c \in AllCommands : c.kind \in {"sleep", "wake"}}
=============================================================================
