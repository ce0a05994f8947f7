-------------------------- MODULE MCAppsInstaller --------------------------
(* Instances of AppsInstaller for TLC. *)
EXTENDS AppsInstaller

CONSTANTS o1, o2, custom, plain, v1, v2, web, db

MCOps == {o1, o2}
MCOptions == {plain, custom}

\* The second version moves the application to another service.
MCServicesOf == [v \in Version |-> IF v = v1 THEN {db} ELSE {web}]

\* A remove of the containers and the file, and one that keeps both.
MCRemovals == {{"containers", "config"}, {"images"}}
=============================================================================
