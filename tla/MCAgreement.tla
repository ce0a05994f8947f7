---------------------------- MODULE MCAgreement ----------------------------
(***************************************************************************)
(* Two parts that keep one side in agreement with another, the preferences *)
(* of a user with the server's record and the rows of the database with    *)
(* the containers, checked in one run: a behaviour is one of a single      *)
(* part, the scene, and the other stays as it begins.                      *)
(***************************************************************************)
EXTENDS Preferences, Reconciler

CONSTANTS a1, a2

VARIABLE scene

\* The name of the first, with a dash, begins the names of the second's containers,
\* as "home" does those of "home-assistant".
MCNested == [a \in App |-> IF a = a1 THEN {a1, a2} ELSE {a}]

agreementVars == <<scene, preferencesVars, vars>>

AgreementInit ==
    /\ scene \in {"preferences", "reconciler"}
    /\ PreferencesInit /\ Init
    /\ scene = "reconciler" => server.wall = Default

AgreementNext ==
    /\ UNCHANGED scene
    /\ \/ scene = "preferences" /\ PreferencesNext /\ UNCHANGED vars
       \/ scene = "reconciler" /\ Next /\ UNCHANGED preferencesVars

\* As they begin, the preferences have no step that their fairness asks for.
AgreementSpec ==
    AgreementInit /\ [][AgreementNext]_agreementVars /\ PreferencesFairness

\* Each part's type invariant.
AgreementTypeOK == PreferencesTypeOK /\ TypeOK

=============================================================================
