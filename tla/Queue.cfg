CONSTANTS
  u3 = u3
  i1 = i1
  User = {u1, u2, u3}
  Away = {u3}
  Starts <- MCStarts
  Image = {i1, i2}
  Named = {u1}
  NoOne = NoOne
  NoImage = NoImage
  TTL = 1
  MaxEvents = 2
SPECIFICATION FairSpec
INVARIANT TypeOK
INVARIANT OneImageEach
 
PROPERTY AbandonedIsOffered
PROPERTY Quiet
