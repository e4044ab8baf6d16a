----------------------------- MODULE Segmentation -----------------------------
(***************************************************************************)
(* segment_silero_ranges.py: candidate clips are cut from a recording where *)
(* the Silero detector (adapters/vad.py) hears speech.  The detector is a   *)
(* hysteresis over one probability per frame; _detect_raw_spans turns its  *)
(* decisions into padded spans, _merge_spans joins near ones, and          *)
(* _split_and_filter_spans cuts long ones and drops short ones.  An action *)
(* is one round of one of their loops.  A frame is one sample long.        *)
(***************************************************************************)
EXTENDS Integers, Sequences

CONSTANTS
  Frames,       \* bound: the length of the recording
  MinSilence, Pad, MaxGap,    \* the detector's and the merger's settings, in frames
  MinClip, MaxClip            \* the shortest and the longest clip

ASSUME SegmentationAssumption ==
  /\ Frames \in Nat \ {0} /\ MinSilence \in Nat /\ Pad \in Nat /\ MaxGap \in Nat
  /\ MinClip \in Nat \ {0} /\ MaxClip \in Nat /\ MinClip <= MaxClip

VARIABLES
  position,     \* frames heard
  detector,     \* SileroV5VAD: triggered, and the frame its silence began at (0: none)
  speechStart,  \* _detect_raw_spans: active_start, or -1
  spans,        \* its spans, <<start, end>>
  phase,        \* the loop segment_audio is in, or how it ended
  cursor,       \* the span that the loop of _merge_spans or of the cutting is at
  merged,       \* of _merge_spans
  cutFrom,      \* _split_and_filter_spans: start, what is left of the span at cursor
  clips         \* its result

segmentVars == <<position, detector, speechStart, spans, phase, cursor, merged, cutFrom, clips>>
hearing == <<position, detector, speechStart, spans>>

Larger(a, b) == IF a > b THEN a ELSE b
Smaller(a, b) == IF a < b THEN a ELSE b

SegmentInit ==
  /\ position = 0 /\ speechStart = -1 /\ spans = <<>>
  /\ detector = [triggered |-> FALSE, silentSince |-> 0]
  /\ phase = "hears" /\ cursor = 1 /\ merged = <<>> /\ cutFrom = 0 /\ clips = <<>>

(* SileroV5VAD.process: the silence begins with a frame that is clearly     *)
(* quiet; a frame in between neither starts nor ends it.                   *)
SilentSince(level) ==
  CASE level = "speech" -> 0
    [] level = "quiet" /\ detector.triggered /\ detector.silentSince = 0 -> position + 1
    [] OTHER -> detector.silentSince

SpeechStarted(level) == level = "speech" /\ ~detector.triggered

SpeechEnded(level) ==
  /\ level = "quiet" /\ detector.triggered
  /\ position + 1 - SilentSince(level) >= MinSilence

(* One frame through the detector and the loop of _detect_raw_spans. *)
Frame(level) ==
  /\ phase = "hears" /\ position < Frames
  /\ position' = position + 1
  /\ detector' =
       [triggered |-> (detector.triggered \/ SpeechStarted(level)) /\ ~SpeechEnded(level),
        silentSince |-> IF SpeechEnded(level) THEN 0 ELSE SilentSince(level)]
  /\ IF SpeechStarted(level) /\ speechStart = -1
     THEN speechStart' = Larger(0, position - Pad) /\ UNCHANGED spans
     ELSE IF SpeechEnded(level) /\ speechStart # -1
     THEN LET end == Smaller(Frames, position + 1 - MinSilence + Pad) IN
          /\ speechStart' = -1
          /\ spans' = IF end > speechStart THEN Append(spans, <<speechStart, end>>)
                      ELSE spans
     ELSE UNCHANGED <<speechStart, spans>>
  /\ UNCHANGED <<phase, cursor, merged, cutFrom, clips>>

(* The recording ends in speech, or after it. *)
EndOfAudio ==
  /\ phase = "hears" /\ position = Frames
  /\ spans' = IF speechStart = -1 THEN spans ELSE Append(spans, <<speechStart, Frames>>)
  /\ phase' = "merges"
  /\ UNCHANGED <<position, detector, speechStart, cursor, merged, cutFrom, clips>>

-----------------------------------------------------------------------------
(* _merge_spans: a span that begins near the end of the one before joins it. *)
Joins(span) == merged # <<>> /\ span[1] - merged[Len(merged)][2] <= MaxGap

Extended(last, span) == <<last[1], Larger(last[2], span[2])>>

MergeSpan ==
  /\ phase = "merges" /\ cursor <= Len(spans)
  /\ LET span == spans[cursor] IN
     IF span[1] < 0 \/ span[2] <= span[1]
     THEN phase' = "invalid" /\ UNCHANGED <<cursor, merged>>
     ELSE /\ merged' = IF Joins(span)
                       THEN [merged EXCEPT ![Len(merged)] = Extended(@, span)]
                       ELSE Append(merged, span)
          /\ cursor' = cursor + 1
          /\ UNCHANGED phase
  /\ UNCHANGED <<hearing, cutFrom, clips>>

(* Where the cutting of the k-th merged span begins. *)
RawStart(k) == IF k <= Len(merged) THEN merged[k][1] ELSE Frames

BeginCutting ==
  /\ phase = "merges" /\ cursor > Len(spans)
  /\ phase' = "cuts" /\ cursor' = 1 /\ cutFrom' = RawStart(1)
  /\ UNCHANGED <<hearing, merged, clips>>

(* Mutant: a long span is always cut at MaxClip. *)
CutAtMaxClip(start, end) == start + MaxClip

(* _split_and_filter_spans: where the next cut of a long span falls; the    *)
(* last piece is kept at MinClip or more.                                  *)
CutAt(start, end) ==
  IF end - (start + MaxClip) < MinClip THEN end - MinClip ELSE start + MaxClip

(* The condition of its while loop, with the break. *)
Cuts(start, end) == end - start > MaxClip /\ CutAt(start, end) - start >= MinClip

CutSpan ==
  /\ phase = "cuts" /\ cursor <= Len(merged)
  /\ LET end == merged[cursor][2] IN
     /\ Cuts(cutFrom, end)
     /\ clips' = Append(clips, <<cutFrom, CutAt(cutFrom, end)>>)
     /\ cutFrom' = CutAt(cutFrom, end)
  /\ UNCHANGED <<hearing, phase, cursor, merged>>

KeepRest ==
  /\ phase = "cuts" /\ cursor <= Len(merged)
  /\ LET end == merged[cursor][2] IN
     /\ ~Cuts(cutFrom, end)
     /\ clips' = IF end - cutFrom >= MinClip THEN Append(clips, <<cutFrom, end>>) ELSE clips
  /\ cursor' = cursor + 1 /\ cutFrom' = RawStart(cursor + 1)
  /\ UNCHANGED <<hearing, phase, merged>>

(* segment_audio writes the candidates, or finds none. *)
WriteCandidates ==
  /\ phase = "cuts" /\ cursor > Len(merged)
  /\ phase' = IF clips = <<>> THEN "empty" ELSE "written"
  /\ UNCHANGED <<hearing, cursor, merged, cutFrom, clips>>

SegmentNext ==
  \/ \E level \in {"speech", "between", "quiet"} : Frame(level)
  \/ EndOfAudio \/ MergeSpan \/ BeginCutting \/ CutSpan \/ KeepRest \/ WriteCandidates

SegmentSpec == SegmentInit /\ [][SegmentNext]_segmentVars

-----------------------------------------------------------------------------
Hears(span, t) == span[1] <= t /\ t < span[2]
Length(span) == span[2] - span[1]

(* What the person is given to review: clips in order, apart, within the    *)
(* recording and never too short, and a clip is longer than MaxClip only   *)
(* where two clips of MinClip would not fit; together they hold exactly    *)
(* the stretches of speech that are long enough.  Those have lost nothing  *)
(* of the detector's spans in the merging, are apart by more than MaxGap,  *)
(* and no span is found invalid (_detect_raw_spans, _merge_spans,          *)
(* _split_and_filter_spans).                                               *)
CandidatesAreSound ==
  /\ phase # "invalid"
  /\ phase \in {"written", "empty"} =>
       /\ \A i \in 1 .. Len(clips) :
            /\ 0 <= clips[i][1] /\ clips[i][2] <= Frames
            /\ Length(clips[i]) >= MinClip
            /\ Length(clips[i]) <= MaxClip \/ Length(clips[i]) < 2 * MinClip
            /\ i > 1 => clips[i - 1][2] <= clips[i][1]
       /\ \A t \in 0 .. Frames - 1 :
            (\E i \in 1 .. Len(clips) : Hears(clips[i], t))
            <=> \E k \in 1 .. Len(merged) : Length(merged[k]) >= MinClip /\ Hears(merged[k], t)
       /\ \A k \in 1 .. Len(merged) - 1 : merged[k + 1][1] - merged[k][2] > MaxGap
       /\ \A j \in 1 .. Len(spans), t \in 0 .. Frames - 1 :
            Hears(spans[j], t) => \E k \in 1 .. Len(merged) : Hears(merged[k], t)

(* Not so for a MinClip of more than half of MaxClip, which segment_audio   *)
(* accepts: "Each candidate must be 3-30 seconds."                         *)
CandidatesFit ==
  phase = "written" => \A i \in 1 .. Len(clips) : Length(clips[i]) <= MaxClip
=============================================================================
