----------------------------- MODULE MCStoreWait -----------------------------
(* Small instances of StoreWait for TLC. *)
EXTENDS StoreWait

CONSTANTS w1, w2, code, bulk

\* One caller waits for unread mail of one kind, the other takes any.
OneAndAny == [w \in Waiters |->
                IF w = w1 THEN [kinds |-> {code}, read |-> {FALSE}]
                ELSE [kinds |-> {code, bulk}, read |-> BOOLEAN]]

\* Two messages of one kind and one of the other.
TwoAndOne == [id \in Ids |-> IF id = 3 THEN bulk ELSE code]
=============================================================================
