----------------------------- MODULE MCSettings -----------------------------
(* A small instance of Settings: a free switch and one the environment      *)
(* manages, two migrations, one identity provider.                         *)
EXTENDS Settings

MCDefaults == [k \in Switches |-> "false"]
MCEnvironment == [k \in Switches |-> IF k = "managed" THEN "true" ELSE "unset"]
MCBackup == [k \in Keys |-> IF k \in Switches THEN "true"
                            ELSE IF k = "provider" THEN "local" ELSE "none"]
=============================================================================
