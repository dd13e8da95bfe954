----------------------------- MODULE MCHubAccess -----------------------------
(***************************************************************************)
(* HubAccess with and without a configuration file.                        *)
(***************************************************************************)
EXTENDS HubAccess

NothingSet == [f \in Field |-> Unset]

Managed == [NothingSet EXCEPT !["inHub"] = FALSE]

\* What config.json of the repository sets.
Shipped == [NothingSet EXCEPT !["url"] = "file", !["inHub"] = TRUE]

MCEnvs == {Managed}

MCFiles == {NothingSet, Shipped}

MCChosen == {[exists |-> TRUE, other |-> FALSE], [exists |-> FALSE, other |-> FALSE]}

ASSUME SettingsReadable
=============================================================================
