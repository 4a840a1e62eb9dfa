CONSTANTS
  cam = cam  push = push  c1 = c1  c2 = c2  d1 = d1
  k1 = k1  k2 = k2  video = video  audio = audio
  Producers = {cam}
  Pushed = {}
  Conns = {c1, c2}
  NoConn = NoConn
  SourceOf <- OneSource
  Medias = {1}
  Sendonly = {}
  Flaky = {}
  CodecName <- OneCodec
  Subs = {k1, k2}
  Sources <- OneCamera
  ConsMedias <- Viewers
  Nobody = Nobody
SPECIFICATION StreamSpec
SYMMETRY SameViewers
INVARIANTS StreamTypeOK NoIdleSource GoneIsGone ServedOnceOn
PROPERTIES UsesProducers
