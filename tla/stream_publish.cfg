CONSTANTS
  cam = cam  push = push  c1 = c1  c2 = c2  d1 = d1
  k1 = k1  k2 = k2  video = video  audio = audio
  Producers = {cam, push}
  Pushed = {push}
  Conns = {c1, d1}
  NoConn = NoConn
  SourceOf <- OneSource
  Medias = {1, 2}
  Sendonly = {2}
  Flaky = {}
  CodecName <- VideoAndSpeaker
  Subs = {k1}
  Sources <- OneCamera
  ConsMedias <- AllCallers
  Nobody = Nobody
SPECIFICATION FairStream
PROPERTIES UsesProducers  PlaybackLeaves
