SPECIFICATION TrainingSpec
CONSTANTS
  Clip = {clip}
  MaxFileEdits = 2
  MaxSaves = 1
  Transcriber = {w1, w2}
  Segments = 3
  MaxSourceEdits = 2
  Frames = 11
  MinSilence = 2
  Pad = 1
  MaxGap = 1
  MinClip = 3
  MaxClip = 4
  TrainClip = {a1, a2}
  NoRef = none
  MinClips = 1
  Run = {r1, r2}
  Final = {f1}
  Modes = {"zero", "lora", "soulx"}
  ValidUntil = 1
  MaxClock = 1
  MaxInputEdits = 2
  v1 = v1  s1 = s1
  Author = {w1, w2}
  SkillVersion = {v1, v2}
  SkillBody = {s1, s2}
  BlockedBody = {s2}
  MaxKills = 1
INVARIANTS
  DatasetIsReviewed
  TranscriptIsOfItsSource
  TrainsOnTrainSplit
  RecordsAreBound
  CandidatesAreSound
PROPERTIES
  PublishedIsOneMoment
  ReleasesAreImmutable
CHECK_DEADLOCK FALSE
