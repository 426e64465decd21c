------------------------ MODULE MCKeycloakDocuments ------------------------
\* Instances of KeycloakDocuments for TLC.
EXTENDS KeycloakDocuments

MCString == {"k", "s", "a", "b", "RSA", "sub", "aud", "roles", "realm_access", "resource_access",
             "keys", "kid", "kty", "x5c", "endpoint", "aliases"}
MCChain == {<<"s", "kid">>}
=============================================================================
