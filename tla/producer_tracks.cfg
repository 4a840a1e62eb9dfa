CONSTANTS
  cam = cam  push = push  c1 = c1  c2 = c2  c3 = c3  d1 = d1
  k1 = k1  k2 = k2  video = video  audio = audio
  Producers = {cam}
  Pushed = {}
  Conns = {c1, c2}
  NoConn = NoConn
  SourceOf <- OneSource
  Medias = {1, 2, 3}
  Sendonly = {3}
  Flaky = {2}
  CodecName <- TwoCodecs
  Subs = {k1}
  MaxTracks = 1
SPECIFICATION FewTracksSpec
PROPERTIES TracksFollow TalkersFollow
