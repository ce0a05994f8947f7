--------------------------- MODULE MCControlPlane ---------------------------
(***************************************************************************)
(* The control plane's database, the session of a browser and the          *)
(* operations it follows: parts that share no state, checked in one run.   *)
(* A behaviour is one of a single part, the scene, and the others stay as  *)
(* they begin.  The steps of the database are fair as FairSpec says, and   *)
(* those that follow operations as TrackingFairness does, which as they    *)
(* begin have none to ask for; a person in a browser is not.               *)
(***************************************************************************)
EXTENDS Database, Session, InstallTracking

VARIABLE scene

controlVars == <<scene, vars, sessionVars, trackingVars>>

ControlInit ==
    /\ scene \in {"database", "session", "tracking"}
    /\ Init /\ SessionInit /\ TrackingInit
    /\ scene # "database" => applied = Nothing

DatabaseScene(A) == scene = "database" /\ A /\ UNCHANGED <<scene, sessionVars, trackingVars>>

ControlNext ==
    \/ DatabaseScene(Next)
    \/ /\ scene = "session" /\ SessionNext
       /\ UNCHANGED <<scene, vars, trackingVars>>
    \/ /\ scene = "tracking" /\ TrackingNext
       /\ UNCHANGED <<scene, vars, sessionVars>>

ControlSpec ==
    /\ ControlInit /\ [][ControlNext]_controlVars
    /\ WF_controlVars(DatabaseScene(Open))
    /\ WF_controlVars(DatabaseScene(Initialize(Boot) \/ EnsureBootstrap))
    /\ WF_controlVars(DatabaseScene(BackupStep))
    /\ TrackingFairness

\* The type invariant of the part a behaviour is of.
ControlTypeOK ==
    /\ scene = "database" => TypeOK
    /\ scene = "session" => SessionTypeOK
    /\ scene = "tracking" => TrackingTypeOK

\* StartsAgain, of the behaviours that are the database's.
DatabaseStartsAgain == scene = "database" => StartsAgain

=============================================================================
