CONSTANTS
  door = door  yard = yard  s1 = s1  s2 = s2  s3 = s3  v1 = v1  v2 = v2
  Cams = {door, yard}
  Configs <- OneOrBoth
  Sources = {s1, s2, s3}
  NoSource = NoSource
  Loop = Loop
  Viewers = {}
  Watched <- AtTheDoor
  person = person  vehicle = vehicle  face = face
  Order <- ThreeDetectors
  Person = person
  Vehicle = vehicle
  Workers = {"w1"}
  NoDetector = NoDetector
  back = back  a1 = a1  a2 = a2  p1 = p1  p2 = p2  q1 = q1  q2 = q2  q3 = q3
  Keys = {door, yard, back}
  Urls = {yard, back}
  LinkOf <- OwnServer
  NoKey = NoKey
  Streams = {"t1", "t2"}
  NoStream = "none"
  Askers = {a1, a2}
  Probes = {q1, q2, q3}
  NoProbe = "none"
  PreloadCalls = {p1, p2}
  NoCaller = "none"
  Publications = {"b1"}
SPECIFICATION SafetySpec
SYMMETRY Same
INVARIANTS TypeOK NoOrphan  ShutdownStops AnswersEnabled StaysNamed NoStrayConsumer
PROPERTIES KeepsLease
