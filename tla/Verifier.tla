------------------------------- MODULE Verifier -------------------------------
(***************************************************************************)
(* The compiled management identity (internal/auth): what management.auth  *)
(* and the secret files it names compile to, when two compiled identities  *)
(* are the same, and whom a credential names.                              *)
(*                                                                         *)
(* A secret stands for its SHA-256 digest.  The content of a secret file   *)
(* is its first usable line, or Gone when the file is absent, unreadable   *)
(* or has no such line.                                                    *)
(***************************************************************************)
EXTENDS Naturals, Sequences, FiniteSets, SequencesExt

CONSTANTS
    Gone,          \* the content of a file with no usable line
    Short,         \* the secrets of less than MinTokenBytes bytes
    Nobody         \* no principal, no Basic credential, no identity

Modes == {"bearer", "bearer_and_basic", "dev-loopback-unauth"}
Roles == {"viewer", "operator", "administrator"}
Scopes == {"mail.read", "mail.write", "mail.admin", "mail.audit.read"}

DefaultScopes(role) ==
    CASE role = "viewer" -> {"mail.read"}
      [] role = "operator" -> {"mail.read", "mail.write"}
      [] role = "administrator" -> Scopes

\* An explicit list of scopes wins over the role; no role is administrator.
ExpandScopes(role, scopes) ==
    LET r == IF role = "" THEN "administrator" ELSE role
    IN  [role |-> r, scopes |-> IF scopes # {} THEN scopes ELSE DefaultScopes(r)]

HasScope(scopes, want) == scopes \cap {"mail.admin", want} # {}

AuthorizeScopes(scopes, required) == \A want \in required : HasScope(scopes, want)

-----------------------------------------------------------------------------
\* The first token that is refused refuses the whole spec.
TokenRefused(toks, files, i) ==
    LET tok == toks[i]
        content == files[tok.file]
    IN  \/ tok.id = ""
        \/ content = Gone
        \/ content \in Short
        \/ tok.role \notin Roles \cup {""}
        \/ \E j \in 1..(i - 1) : toks[j].id = tok.id \/ files[toks[j].file] = content

CompiledMode(spec) == IF spec.mode = "" THEN "bearer_and_basic" ELSE spec.mode

UsesBasic(spec) == CompiledMode(spec) = "bearer_and_basic" /\ spec.basic.user # ""

RefIndex(spec) == {i \in DOMAIN spec.tokens : spec.tokens[i].id = spec.basic.ref}

BasicRefused(spec, files) ==
    UsesBasic(spec) /\ (RefIndex(spec) = {} \/ files[spec.basic.file] = Gone)

\* FromSpec: the identity that spec compiles to, or Nobody when it is refused.
FromSpec(spec, files) ==
    IF \/ CompiledMode(spec) \notin Modes
       \/ \E i \in DOMAIN spec.tokens : TokenRefused(spec.tokens, files, i)
       \/ BasicRefused(spec, files)
    THEN Nobody
    ELSE [mode |-> CompiledMode(spec),
          tokens |-> [i \in DOMAIN spec.tokens |->
              LET tok == spec.tokens[i]
                  grant == ExpandScopes(tok.role, tok.scopes)
              IN  [id |-> tok.id, digest |-> files[tok.file],
                   role |-> grant.role, scopes |-> grant.scopes]],
          basic |-> IF UsesBasic(spec)
                    THEN [user |-> spec.basic.user, pass |-> files[spec.basic.file],
                          idx |-> CHOOSE i \in RefIndex(spec) : TRUE]
                    ELSE Nobody]

Bug_Equivalent(v, w) ==
    /\ v.mode = w.mode
    /\ {<<t.id, t.role, t.scopes>> : t \in ToSet(v.tokens)}
         = {<<t.id, t.role, t.scopes>> : t \in ToSet(w.tokens)}
    /\ v.basic = w.basic

\* Equivalent: the order of the tokens does not count, the index of Basic does.
Equivalent(v, w) ==
    /\ v.mode = w.mode
    /\ Len(v.tokens) = Len(w.tokens)
    /\ ToSet(v.tokens) = ToSet(w.tokens)
    /\ v.basic = w.basic

-----------------------------------------------------------------------------
(* Whom a credential names.                                                *)

PrincipalOf(tok) == [id |-> tok.id, class |-> "token", role |-> tok.role,
                     scopes |-> tok.scopes]

LoopbackPrincipal == [id |-> "loopback", class |-> "loopback",
                      role |-> "administrator", scopes |-> Scopes]

AuthenticateBearer(v, secret) ==
    LET hits == {i \in DOMAIN v.tokens : v.tokens[i].digest = secret}
    IN  IF Cardinality(hits) = 1 THEN PrincipalOf(v.tokens[CHOOSE i \in hits : TRUE])
        ELSE Nobody

\* BasicEnabled: AllowBasic of REST and compat; MCP never allows it.
BasicEnabled(v) == v.mode = "bearer_and_basic" /\ v.basic # Nobody

AuthenticateBasic(v, user, pass) ==
    IF BasicEnabled(v) /\ v.basic.user = user /\ v.basic.pass = pass
    THEN PrincipalOf(v.tokens[v.basic.idx])
    ELSE Nobody

\* No Authorization header: only a loopback peer of the development mode.
AuthenticateNone(v, loopback) ==
    IF v.mode = "dev-loopback-unauth" /\ loopback THEN LoopbackPrincipal ELSE Nobody

\* Verifier.Authenticate for the header part of a request.
AuthenticateHeader(v, cred, loopback) ==
    CASE cred.kind = "bearer" -> AuthenticateBearer(v, cred.secret)
      [] cred.kind = "basic" -> AuthenticateBasic(v, cred.user, cred.secret)
      [] OTHER -> AuthenticateNone(v, loopback)
=============================================================================
