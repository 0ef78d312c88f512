------------------------------- MODULE MCCore -------------------------------
(* An instance of Core for TLC, with the core's own table of options.       *)
EXTENDS Core

MCStrings == UNION {{option_defs_us[i].desc} \cup Range(option_defs_us[i].values) :
                      i \in DOMAIN option_defs_us}

MCLength == [s \in MCStrings |-> Len(s)]
=============================================================================
