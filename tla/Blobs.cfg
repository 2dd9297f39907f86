SPECIFICATION BlobsSpec
CONSTANTS
  Pages <- AllPages
  Bullet = 3
  MaxUrlOffset = 2
INVARIANTS MarksItsWords TilesTheText KeptOnce RecordsExact BlocksStay LinksStayOnTheirLine
