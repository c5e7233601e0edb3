--------------------------- MODULE MCStreamlitApp ---------------------------
(* StreamlitApp on small instances.                                        *)
EXTENDS StreamlitApp, TLC

\* DRY_RUN=false and a complete Jira configuration: nothing but demo_config
\* stands between the page and Jira.
MCLive == [dry_run |-> FALSE, jira |-> TRUE]

\* The Jira settings are missing.
MCUnset == [dry_run |-> TRUE, jira |-> FALSE]

Symmetry == Permutations(Threads) \cup Permutations(Runs)
=============================================================================
