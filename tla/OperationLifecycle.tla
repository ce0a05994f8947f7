------------------------- MODULE OperationLifecycle -------------------------
(***************************************************************************)
(* What internal/apps/operations.go promises of every operation: the table *)
(* transitions (lines 72-82), "queued -> running -> succeeded | failed",   *)
(* with nothing after a final status.  The table is consulted by no caller *)
(* outside the tests, so that the installer obeys it is a theorem about    *)
(* the installer and not a consequence of a check it makes.                *)
(***************************************************************************)
CONSTANT Op

VARIABLE status   \* "none" before the request is accepted, "gone" with its row

Status == {"none", "queued", "running", "succeeded", "failed", "gone"}

\* transitions: the only legal moves of a status.
transitions == {<<"queued", "running">>, <<"queued", "failed">>,
                <<"running", "succeeded">>, <<"running", "failed">>}

Init == status = [o \in Op |-> "none"]

\* A new operation begins "queued".
Create(o) ==
    /\ status[o] = "none"
    /\ status' = [status EXCEPT ![o] = "queued"]

Move(o) ==
    \E to \in Status :
        /\ <<status[o], to>> \in transitions
        /\ status' = [status EXCEPT ![o] = to]

\* The rows of an application that leaves the catalog are deleted together.
Drop ==
    \E gone \in SUBSET {o \in Op : status[o] # "none"} :
        status' = [o \in Op |-> IF o \in gone THEN "gone" ELSE status[o]]

Next == (\E o \in Op : Create(o) \/ Move(o)) \/ Drop

Spec == Init /\ [][Next]_status
=============================================================================
