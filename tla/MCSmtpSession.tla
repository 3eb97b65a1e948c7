--------------------------- MODULE MCSmtpSession ---------------------------
(* The snapshots of one SMTP session's runs.                               *)
EXTENDS SmtpSession

Stock == [starttls |-> FALSE, required |-> FALSE, plainLogin |-> FALSE,
          maxBytes |-> 1, maxRcpt |-> 2, lifetime |-> 2, drop |-> FALSE,
          fails |-> {}, closes |-> {}]

\* AUTH and STARTTLS offered, neither bound to the other.
Offered == [Stock EXCEPT !.starttls = TRUE, !.plainLogin = TRUE, !.maxRcpt = 1]

\* STARTTLS required before AUTH, and a shorter session.
Strict == [Offered EXCEPT !.required = TRUE, !.lifetime = 1]

\* Scripted failures.
Scripted == [Stock EXCEPT !.fails = {"DATA-END", "GREETING"}, !.closes = {"RSET"}]
Dropping == [Stock EXCEPT !.drop = TRUE, !.fails = {"DATA-END"}, !.closes = {"DATA-END"}]

SessionSpecs == {Stock, Offered, Strict, Scripted, Dropping}
ScriptSpecs == {Stock, Scripted}
=============================================================================
