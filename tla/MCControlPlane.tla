--------------------------- MODULE MCControlPlane ---------------------------
(* Three store caps, two SMTP parts, two keys for one cached entry.        *)
EXTENDS ControlPlane

CONSTANTS k1, k2, plain

Tight == [max |-> 1, evict |-> FALSE]
Wide == [max |-> 2, evict |-> FALSE]
Rolling == [max |-> 1, evict |-> TRUE]

AllCaps == {Tight, Wide, Rolling}

\* Caps shrink and grow, forced and not; keyed and not.  Plans use k1 too.
MixedRequests ==
    [key : {NoKey, k1, k2}, expected : State, op : [caps : AllCaps], force : {FALSE}]
    \cup [key : {NoKey}, expected : State, op : [caps : {Tight}], force : {TRUE}]
    \cup [key : {NoKey}, expected : State, op : [smtp : SmtpParts], force : {FALSE}]

=============================================================================
