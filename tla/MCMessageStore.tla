--------------------------- MODULE MCMessageStore ---------------------------
(* A small instance of MessageStore for TLC, explored from two sides. *)
EXTENDS MessageStore, TLC

\* SMTP sessions are interchangeable.
SessionSymmetry == Permutations(Inserters)

Opt(n, b, p, d) == [maxMessages |-> n, maxBytes |-> b, fullPolicy |-> p,
                    spillDir |-> d]

CONSTANTS d1, d2

\* Caps of two messages and three bytes or of one and two, a policy for each,
\* two directories and none; the last is refused by normalizeOptions.
StoreOptions == {Opt(2, 3, "evict_oldest", d1), Opt(1, 2, "reject", d2),
                 Opt(2, 3, "evict_oldest", NoDir), Opt(0, 3, "evict_oldest", d1)}

Calls == {i \in Inserters : ins[i].id > 0}

\* Three messages of every size and receive time, none with a large part,
\* and nobody reading: caps, order, bytes and generation.
CapsSide ==
    /\ disk = {}
    /\ \A i \in Calls : ins[i].todo = {} /\ ins[i].pc # "abort"
    /\ \A r \in Readers : rd[r] = NoRead

\* Two messages of one size and time, unread, with spill files, a reader
\* until it has its answer, which nobody else sees, and the file operations
\* of the second part failing now and then.
FilesSide ==
    /\ nextId <= 3
    /\ opts.spillDir # NoDir
    /\ \A r \in Readers : rd[r].res = "none"
    /\ \A i \in Calls : ins[i].size = 1 /\ ins[i].at = 1
    /\ \A id \in DOMAIN byID :
          byID[id].size = 1 /\ byID[id].at = 1 /\ ~byID[id].read

Sides == CapsSide \/ FilesSide
=============================================================================
