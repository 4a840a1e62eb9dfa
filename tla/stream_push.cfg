CONSTANTS
  cam = cam  push = push  c1 = c1  c2 = c2  d1 = d1
  k1 = k1  k2 = k2  video = video  audio = audio
  Producers = {push}
  Pushed = {push}
  Conns = {d1}
  NoConn = NoConn
  SourceOf <- OneSource
  Medias = {1, 2}
  Sendonly = {2}
  Flaky = {}
  CodecName <- VideoAndSpeaker
  Subs = {k1}
  Sources <- NoCamera
  ConsMedias <- Callers
  Nobody = Nobody
SPECIFICATION StreamSpec
INVARIANTS PushIsSafe
