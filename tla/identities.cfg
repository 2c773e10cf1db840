\* Two accounts, two GitHub identities and an ORCID one, overlapping requests.
SPECIFICATION IdentitiesSpec
CONSTANTS
  Accounts = {alice, bob}
  GitHub = {g1, g2}
  Orcid = {o1}
  Requests = {t1, t2}
  Nobody = Nobody
  Identities <- MCIdentities
  ProviderOf <- MCProviderOf
SYMMETRY MCSymmetry
CHECK_DEADLOCK FALSE
PROPERTIES
  IdentitiesKeepOwner
  UnlinkKeepsSignIn
