------------------------------ MODULE MCFileDB ------------------------------
(* Small instance of FileDB: two goroutines of one process, and a second    *)
(* process; one of each writes and deletes, the other writes and gets.      *)
EXTENDS FileDB, TLC

CONSTANTS t1, t2, t3, v1

MCThreads == {t1, t2, t3}
MCValues == {v1}
MCProcess == t1 :> "server" @@ t2 :> "server" @@ t3 :> "cli"
MCCalls == t1 :> {v1, NoValue} @@ t2 :> {v1} @@ t3 :> {v1, Reading}
=============================================================================
