CONSTANTS
  cam = cam  push = push  c1 = c1  c2 = c2  c3 = c3  d1 = d1
  k1 = k1  k2 = k2  video = video  audio = audio
  Producers = {cam, push}
  Pushed = {push}
  Conns = {c1, c2, c3, d1}
  NoConn = NoConn
  SourceOf <- OneSource
  Medias = {1}
  Sendonly = {}
  Flaky = {}
  CodecName <- TwoCodecs
  Subs = {}
  MaxTracks = 1
SPECIFICATION FairSpec
INVARIANTS TypeOK OneWatcher ConnUnlessNone NoGhost
PROPERTIES  WorkersEnd KeepsLease
