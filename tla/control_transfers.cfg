SPECIFICATION FairSpec
CONSTANTS
  Asked = {"vendor", "device", "message"}
  Wants = {8, 18}
  WriteLens = {5, 8}
  Addresses = {1, 2}
  MaxTransfers = 2
  MaxLostAcks = 1
  MaxLostTokens = 2
  MaxResets = 1
  MaxRestarts = 1
INVARIANTS TypeOK RepliesAreFresh ReadsInOrder CompletedIsHandled DataFollowsItsSetup AddressesAgree
PROPERTY TransferCompletes
