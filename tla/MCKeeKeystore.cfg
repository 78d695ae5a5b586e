CONSTANTS
  k1 = k1
  k2 = k2
  app = app
  m1 = m1
  m2 = m2
  Key = {k1, k2}
  Secret <- Secrets
  Passphrase <- Passphrases
  gpg_store_digest <- Digests
  App = {app}
  Maker = {m1, m2}
  KeySize = 200
  NoKey = NoKey
  NoSecret = NoSecret
  Freed = Freed
SPECIFICATION Spec
SYMMETRY Symmetry
INVARIANTS TypeOK LinkLeads SignerIsAlice UnlockedSigns
