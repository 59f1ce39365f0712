----------------------------- MODULE MCRecovery -----------------------------
\* Instances of Recovery: which observations a probe may return.
EXTENDS Recovery, TLC

CONSTANT w1, w2

MCOneWorker == {w1}
MCWorkers == {w1, w2}
WorkerSymmetry == Permutations(MCWorkers)
MCMaxIncidents == <<2, 1>>
MCMaxCrashes == <<1, 0>>
MCNoCrashes == <<0, 0>>
MCApp == <<"app">>
MCAppDatabase == <<"app", "database">>

See(ok, database, storage, app, db) ==
    [ok |-> ok, database |-> database, storage |-> storage,
     status |-> [app |-> app, database |-> db]]

AllWell == See(TRUE, TRUE, "good", "running", "running")
AppDown == See(FALSE, None, "good", "down", "running")
StorageGone == See(FALSE, TRUE, "critical", "running", "running")

DatabaseSick == See(FALSE, FALSE, "good", "unknown", "running")
MCAppDatabaseSnapshots == {AllWell, AppDown, DatabaseSick, StorageGone}
MCAppSnapshots == {AllWell, AppDown, StorageGone}
MCSettings == {[enabled |-> TRUE, observe_only |-> FALSE]}
=============================================================================
