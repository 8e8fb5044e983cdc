SPECIFICATION FairSpec
CONSTANTS
  word = word
  wallet = wallet
  Bogus = Bogus
  NoLine = NoLine
  Wallet <- Wallets
  Line <- Lines
  Long <- LongLines
  Deaf = {"client"}
  Capacity = 1
  MaxLines = 2
PROPERTIES
  ImplementsRelay
  LinesArrive
  EndReachesBoth
  ReadersReturn
CHECK_DEADLOCK FALSE
