\* Texts of up to 12 tokens: an array in an object in an array.  A client and a
\* role have the name of a claim, a client that of the member roles.
SPECIFICATION DocumentsSpec
CONSTANTS
  String <- MCString
  MaxLen = 12
  MaxDepth = 3
  Role = {"a", "resource_access"}
  Client = {"roles", "realm_access"}
  KeyId = {"s", "kty"}
  KeyType = {"RSA"}
  Chain <- MCChain
  MaxRoles = 2
  MaxClientRoles = 1
  MaxClients = 2
  MaxKeys = 2
INVARIANTS
  SkipsValues
  FindsFirstKey
  ClaimsExact
  PublishedExact
CHECK_DEADLOCK FALSE
