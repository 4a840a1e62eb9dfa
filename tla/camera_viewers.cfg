CONSTANTS
  door = door  yard = yard  s1 = s1  s2 = s2  s3 = s3  v1 = v1  v2 = v2
  Cams = {door, yard}
  Configs <- YardOrBoth
  Sources = {s1, s2}
  NoSource = NoSource
  Loop = Loop
  Viewers = {v1}
  Watched <- AtTheDoor
SPECIFICATION FairSpec
INVARIANTS NoLeftovers
PROPERTIES StartsEnd
