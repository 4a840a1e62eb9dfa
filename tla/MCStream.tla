------------------------------ MODULE MCStream ------------------------------
(* Instances of Stream for TLC. *)
EXTENDS Stream, TLC

CONSTANTS cam, push, c1, c2, d1, k1, k2, video, audio

\* The connections c1 and c2 of a camera, d1 of a publisher or a playback.
OneSource == [c \in Conns |-> IF c = d1 THEN push ELSE cam]

OneCamera == <<cam>>
NoCamera == <<>>

Wanted(codec, all, talk) == [codecs |-> {codec}, all |-> all, talk |-> talk]

OneCodec == 1 :> video
VideoAndSpeaker == 1 :> video @@ 2 :> audio
Viewers == [k \in Subs |-> <<Wanted(video, FALSE, FALSE)>>]
Callers == [k \in Subs |-> <<Wanted(video, FALSE, FALSE), Wanted(audio, FALSE, TRUE)>>]
AllCallers == [k \in Subs |-> <<Wanted(video, TRUE, FALSE), Wanted(audio, FALSE, TRUE)>>]
SameViewers == Permutations(Subs)
=============================================================================
