---------------------------- MODULE MCTaskEngine ----------------------------
(* Small instances of TaskEngine for TLC.  Tasks do not interact except      *)
(* through crashes, so one of each kind shows every behaviour.               *)
EXTENDS TaskEngine

CONSTANTS t1, t2

OneLocal == {t1}
OneRemote == {t2}
=============================================================================
