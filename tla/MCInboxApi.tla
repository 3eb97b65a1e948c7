----------------------------- MODULE MCInboxApi -----------------------------
(* Small instances of InboxApi.                                            *)
EXTENDS InboxApi, TLC

CONSTANTS a, b, c

\* A listing beside a change of the inbox, and two deletions beside a client
\* that reads the audit trail.
MCScenarios ==
    {[asks |-> a :> {"page", "email"} @@ b :> {"delete", "clear", "reset"} @@ c :> {},
      mail |-> 3],
     [asks |-> a :> {"audit"} @@ b :> {"delete", "reset"} @@ c :> {"delete", "clear"},
      mail |-> 2]}

=============================================================================
