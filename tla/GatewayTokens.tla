--------------------------- MODULE GatewayTokens ---------------------------
(***************************************************************************)
(* What lets a request in (core/security.py, core/hmac_signing.py): the    *)
(* three kinds of JWT the Gateway signs, who accepts which, and the signed *)
(* body of a purchase.  A signature is abstracted to the key that made it; *)
(* a token is a record whose fields are its claims, so a claim that is not *)
(* emitted is not in its DOMAIN.                                           *)
(***************************************************************************)
EXTENDS Integers

CONSTANTS
    jwt_access_ttl, jwt_refresh_ttl, core_internal_token_ttl,   \* lifetimes
    MAX_SKEW,         \* of X-Timestamp
    jwt_issuer, jwt_audience,
    JWT_SECRET,       \* the secret shared with the Core
    Nulo

ASSUME ValidadesNaturais ==
    {jwt_access_ttl, jwt_refresh_ttl, core_internal_token_ttl, MAX_SKEW} \subseteq Nat

Papeis    == {"consultor", "admin", "analista"}
TokenType == {"access", "refresh"}

\* par is the key pair that signs: the public file only verifies what its own twin signed.
create_access_token(sub, papel, par, agora) ==
    [alg |-> "RS256", chave |-> par, type |-> "access", sub |-> sub, role |-> papel,
     jti |-> <<sub, agora>>, iss |-> jwt_issuer, aud |-> jwt_audience,
     iat |-> agora, exp |-> agora + jwt_access_ttl]

create_refresh_token(sub, papel, par, agora) ==
    [create_access_token(sub, papel, par, agora) EXCEPT
        !.type = "refresh", !.exp = agora + jwt_refresh_ttl]

\* No type, no jti and no audience: a token for one request to the Core.
create_internal_token(sub, papel, agora) ==
    [alg |-> "HS256", chave |-> JWT_SECRET, sub |-> sub, role |-> papel, iss |-> jwt_issuer,
     iat |-> agora, exp |-> agora + core_internal_token_ttl]

EXIGIDAS == {"exp", "iat", "iss", "aud", "sub", "jti", "type"}

\* jwt.decode and the test of the type; Nulo is a header without a token.
decode_token(t, expected_type, par, agora) ==
    /\ t # Nulo
    /\ t.alg = "RS256" /\ t.chave = par
    /\ EXIGIDAS \subseteq DOMAIN t
    /\ t.iat <= agora /\ agora < t.exp
    /\ t.iss = jwt_issuer /\ t.aud = jwt_audience
    /\ t.type = expected_type

\* The Core's side (JwtService.parse): the signature and the expiry, nothing else.
parse(t, segredo, agora) == t # Nulo /\ t.alg = "HS256" /\ t.chave = segredo /\ agora <= t.exp

\* The role a handler sees, or Nulo when the dependency answers 401.
current_principal(t, par, agora) == IF decode_token(t, "access", par, agora) THEN t.role ELSE Nulo

\* require_hmac_signature: a MAC of this very body with a timestamp inside the window.
Assinada(assinatura, agora) ==
    /\ assinatura.integra
    /\ agora - assinatura.timestamp \in -MAX_SKEW .. MAX_SKEW
=============================================================================
