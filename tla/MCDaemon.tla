------------------------------ MODULE MCDaemon ------------------------------
(* Small hosts to check the daemon on. *)
EXTENDS Daemon

CONSTANTS d1, p1, p2

(* One disk that starts in a pool, and joins and leaves pools. *)
OneDiskInPool == [d \in {d1} |-> p1]
OneDiskComesAndGoes == [d \in {d1} |-> {p1, NoPool}]
OneDiskChangesPool == [d \in {d1} |-> {p1, p2}]

(* One disk that starts free and is added to a pool. *)
OneDiskFree == [d \in {d1} |-> NoPool]
OneDiskJoins == [d \in {d1} |-> {p1}]
=============================================================================
