--------------------------- MODULE MCManagementGate ---------------------------
(* Small instances of ManagementGate for TLC. *)
EXTENDS ManagementGate

CONSTANTS c1, c2, peer

Call(kind, origin, cred, proto) ==
    [kind |-> kind, src |-> peer, origin |-> origin, cred |-> cred, proto |-> proto]

\* Rates: one source charges the same bucket over every surface.
RateCalls == {Call("api", "none", "full", "current"), Call("mcp", "none", "full", "current")}

\* Slots and deadlines: every kind of request, with the rates not limited.
SlotCalls == {Call(k, "none", "full", "current") :
                 k \in {"health", "wait", "stream", "mcpwait", "listen", "email"}}
             \cup {Call("api", "lan", "weak", "current"), Call("options", "none", "full", "current"),
                   Call("relay", "none", "full", "current"), Call("healthz", "lan", "none", "current"),
                   Call("mcpget", "none", "full", "current"), Call("mcp", "lan", "weak", "legacy"),
                   Call("listen", "none", "full", "legacy"), Call("ui", "opaque", "none", "current"),
                   Call("ui", "site", "none", "current")}

Closed == [allow |-> {"private"}, ui |-> FALSE]
Open == [allow |-> {"*"}, ui |-> TRUE]
MCLoads == {[limited |-> TRUE, calls |-> RateCalls, settings |-> {Open}],
            [limited |-> FALSE, calls |-> SlotCalls, settings |-> {Open, Closed}]}
WaitLoads == {[limited |-> FALSE, calls |-> {Call("mcpwait", "none", "full", "current")},
               settings |-> {Closed}]}
=============================================================================
