----------------------------- MODULE MCAuthReload -----------------------------
(* Small instances of AuthReload for TLC. *)
EXTENDS AuthReload

CONSTANTS s1, s2, s3, r1, c1

Tok(id, file, role, scopes) == [id |-> id, file |-> file, role |-> role, scopes |-> scopes]
Login(ref) == [user |-> "u", ref |-> ref, file |-> "password"]

\* An administrator, for whom the Basic login stands, and a viewer.
A == Tok("a", "token", "administrator", {})
B == Tok("b", "second", "viewer", {})
Pair == [mode |-> "", tokens |-> <<A, B>>, basic |-> Login("a")]

\* The same tokens in the other order, and the Basic login stands for the viewer.
Swapped == [mode |-> "", tokens |-> <<B, A>>, basic |-> Login("b")]

\* The development mode, in which the administrator's token may not read mail any more.
Writer == [mode |-> "dev-loopback-unauth", tokens |-> <<Tok("a", "token", "viewer", {"mail.write"})>>,
           basic |-> Login("")]

ThreeSpecs == {Pair, Swapped, Writer}
TwoSpecs == {Pair, Swapped}

\* The password is the second token's secret too, or a secret of its own.
Mounted == [f \in Files |-> CASE f = "token" -> s1 [] OTHER -> s2]
Apart == [f \in Files |-> CASE f = "token" -> s1 [] f = "second" -> s3 [] OTHER -> s2]
=============================================================================
