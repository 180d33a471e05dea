SPECIFICATION Spec
CONSTANTS
  p1 = p1  p2 = p2  h1 = h1  h2 = h2  a1 = a1  a2 = a2
  Procs = {p1, p2}
  Orgs = {o1}
  Wallets = {w1}
  Payers = {a1, a2}
  Tids = {t1, t2}
  Eids = {e1, e2}
  Pids = {n1, n2}
  Hashes = {h1, h2}
  Amounts = {1}
  Sender <- Senders
  Slots <- SaveSlots
  MaxAborts = 0
  Absent = Absent
  NoHash = NoHash
  NoWallet = NoWallet
  Open = Open
SYMMETRY Symmetric
INVARIANTS
  PaidMeansMined
  RecordsMatchChain
  PayerRegistered
  OrphanHashExplained
PROPERTIES
  ClosedForGood
