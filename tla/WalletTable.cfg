SPECIFICATION FairTableSpec
CONSTANTS
  Wallets = {w1, w2, w3}
  Solana = {w1, w2}
  Announced = {w1, w3}
  Components = {c1, c2}
  Features = {signTransaction}
INVARIANTS
  OneListenerEach
  TableIsCurrent
PROPERTY
  WalletIsShown
CHECK_DEADLOCK FALSE
