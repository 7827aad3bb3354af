\* One to four fragments: payloads of 0, 8 and 16 bytes.  Four messages and three
\* identifiers: the last message may take the identifier of the first.
SPECIFICATION FragmentsSpec
CONSTANTS
  PMTUs = {4, 12, 20}
  Lengths = {5, 8, 17, 24, 32}
  FragmentIDs = 3
  MaxMessages = 4
INVARIANTS
  FragmentsTypeOK
  ReturnedWasSent
  CompleteIsReturned
