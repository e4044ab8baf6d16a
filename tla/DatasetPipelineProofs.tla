------------------------- MODULE DatasetPipelineProofs -------------------------
(***************************************************************************)
(* Proofs about DatasetPipeline: whatever a command publishes describes    *)
(* one moment of its run, and a dataset holds what was reviewed.           *)
(*                                                                         *)
(* A command reads the files that it will name one after the other, and    *)
(* looks at each of them again after it has read the last (its pivot).     *)
(* Content never comes back, except a plan's: a file that is the same at   *)
(* both looks was the same in between, so the moment at which the last     *)
(* file was read held all of them.  PipelineIInv says, for every number of *)
(* accesses made, what each comparison so far has established: either the  *)
(* files still agree with the memory of the command, or the one that does  *)
(* not will be looked at again.                                            *)
(***************************************************************************)
EXTENDS DatasetPipeline, SequenceTheorems, TLAPS

-----------------------------------------------------------------------------
(* The scripts of the commands, access by access.                          *)

Hows == {"bind", "seen", "queue", "plan", "load", "check", "cut", "heard"}
FileNames == {"transcript", "evidence", "source", "authorization", "tools", "video",
              "media", "ranges", "queue", "audio", "decisions", "plan"}
Accesses == FileNames \X Hows

\* Files whose content never comes back, and those of them that carry a version.
Lasting == FileNames \ {"plan"}
Dated == FileNames \ {"decisions", "plan"}
PlanNames == {"authorization", "queue", "decisions", "source"}

(* The inputs of a queue, the files acquire binds, and the names of all files.              *)
LEMMA FilesAre ==
  /\ ToSet(Inputs) = {"transcript", "evidence", "source", "authorization"}
  /\ ToSet(Hosts) = {"authorization", "tools", "video"}
  /\ FileName = FileNames
<1>1. ToSet(Inputs) = {"transcript", "evidence", "source", "authorization"}
  BY DEF ToSet, Inputs
<1>2. ToSet(Hosts) = {"authorization", "tools", "video"}
  BY DEF ToSet, Hosts
<1> QED
  BY <1>1, <1>2 DEF FileName, FileNames

(* What one script followed by another looks like. *)
LEMMA Followed ==
  ASSUME NEW s \in Seq(Accesses), NEW t \in Seq(Accesses)
  PROVE  /\ s \o t \in Seq(Accesses) /\ Len(s \o t) = Len(s) + Len(t)
         /\ \A i \in 1 .. Len(s) + Len(t) :
              (s \o t)[i] = IF i <= Len(s) THEN s[i] ELSE t[i - Len(s)]
  BY ConcatProperties

(* The same of a script that is known by another name.                                      *)
LEMMA Joined ==
  ASSUME NEW r, NEW s \in Seq(Accesses), NEW t \in Seq(Accesses), r = s \o t
  PROVE  /\ r \in Seq(Accesses) /\ Len(r) = Len(s) + Len(t)
         /\ \A i \in 1 .. Len(s) + Len(t) : r[i] = IF i <= Len(s) THEN s[i] ELSE t[i - Len(s)]
  BY Followed, Zenon

(* Every file may be accessed in every way.                                                 *)
LEMMA AccessesAre == \A f \in FileNames : \A how \in Hows : <<f, how>> \in Accesses
  BY DEF Accesses

(* The four accesses that one pass over the inputs of a queue makes ...                     *)
LEMMA EachInput ==
  ASSUME NEW how \in Hows
  PROVE  Each(Inputs, how) = << <<"transcript", how>>, <<"evidence", how>>,
                                <<"source", how>>, <<"authorization", how>> >>
  BY DEF Each, Inputs

(* ... one by one, ...                                                                      *)
LEMMA EachInputIs ==
  ASSUME NEW how \in Hows
  PROVE  /\ Each(Inputs, how) \in Seq(Accesses) /\ Len(Each(Inputs, how)) = 4
         /\ Each(Inputs, how)[1] = <<"transcript", how>>
         /\ Each(Inputs, how)[2] = <<"evidence", how>>
         /\ Each(Inputs, how)[3] = <<"source", how>>
         /\ Each(Inputs, how)[4] = <<"authorization", how>>
<1> DEFINE a == <<"transcript", how>>
           b == <<"evidence", how>>
           c == <<"source", how>>
           d == <<"authorization", how>>
<1>1. a \in Accesses /\ b \in Accesses /\ c \in Accesses /\ d \in Accesses
  BY AccessesAre DEF FileNames
<1>2. Each(Inputs, how) = <<a, b, c, d>>
  BY EachInput
<1> HIDE DEF a, b, c, d
<1>3. /\ <<a, b, c, d>> \in Seq(Accesses) /\ Len(<<a, b, c, d>>) = 4
      /\ <<a, b, c, d>>[1] = a /\ <<a, b, c, d>>[2] = b
      /\ <<a, b, c, d>>[3] = c /\ <<a, b, c, d>>[4] = d
  BY <1>1
<1> QED
  BY <1>2, <1>3 DEF a, b, c, d

(* ... and the three of acquire_bilibili_video's first pass.                                *)
LEMMA EachHostIs ==
  /\ Each(Hosts, "bind") \in Seq(Accesses) /\ Len(Each(Hosts, "bind")) = 3
  /\ Each(Hosts, "bind")[1] = <<"authorization", "bind">>
  /\ Each(Hosts, "bind")[2] = <<"tools", "bind">>
  /\ Each(Hosts, "bind")[3] = <<"video", "bind">>
<1> DEFINE a == <<"authorization", "bind">>
           b == <<"tools", "bind">>
           c == <<"video", "bind">>
<1>1. a \in Accesses /\ b \in Accesses /\ c \in Accesses
  BY AccessesAre DEF FileNames, Hows
<1>2. Each(Hosts, "bind") = <<a, b, c>>
  BY DEF Each, Hosts
<1> HIDE DEF a, b, c
<1>3. /\ <<a, b, c>> \in Seq(Accesses) /\ Len(<<a, b, c>>) = 3
      /\ <<a, b, c>>[1] = a /\ <<a, b, c>>[2] = b /\ <<a, b, c>>[3] = c
  BY <1>1
<1> QED
  BY <1>2, <1>3 DEF a, b, c

(* Short scripts are what they are written to be.                                           *)
LEMMA ShortSequences ==
  /\ \A a \in Accesses : <<a>> \in Seq(Accesses) /\ Len(<<a>>) = 1 /\ <<a>>[1] = a
  /\ \A a, b \in Accesses :
       /\ <<a, b>> \in Seq(Accesses) /\ Len(<<a, b>>) = 2
       /\ <<a, b>>[1] = a /\ <<a, b>>[2] = b
  /\ \A a, b, c \in Accesses :
       /\ <<a, b, c>> \in Seq(Accesses) /\ Len(<<a, b, c>>) = 3
       /\ <<a, b, c>>[1] = a /\ <<a, b, c>>[2] = b /\ <<a, b, c>>[3] = c
  /\ \A a, b, c, d, e \in Accesses :
       /\ <<a, b, c, d, e>> \in Seq(Accesses) /\ Len(<<a, b, c, d, e>>) = 5
       /\ <<a, b, c, d, e>>[1] = a /\ <<a, b, c, d, e>>[2] = b /\ <<a, b, c, d, e>>[3] = c
       /\ <<a, b, c, d, e>>[4] = d /\ <<a, b, c, d, e>>[5] = e
  OBVIOUS

(* The accesses of _load_review_pair, one by one. *)
LEMMA PairSteps ==
  /\ PairScript \in Seq(Accesses) /\ Len(PairScript) = 17
  /\ PairScript[1] = <<"queue", "bind">> /\ PairScript[2] = <<"audio", "queue">>
  /\ PairScript[3] = <<"queue", "seen">> /\ PairScript[4] = <<"transcript", "queue">>
  /\ PairScript[5] = <<"evidence", "queue">> /\ PairScript[6] = <<"source", "queue">>
  /\ PairScript[7] = <<"authorization", "queue">> /\ PairScript[8] = <<"decisions", "load">>
  /\ PairScript[9] = <<"decisions", "load">> /\ PairScript[10] = <<"decisions", "bind">>
  /\ PairScript[11] = <<"queue", "seen">> /\ PairScript[12] = <<"audio", "seen">>
  /\ PairScript[13] = <<"transcript", "seen">> /\ PairScript[14] = <<"evidence", "seen">>
  /\ PairScript[15] = <<"source", "seen">> /\ PairScript[16] = <<"authorization", "seen">>
  /\ PairScript[17] = <<"decisions", "seen">>
<1> DEFINE s1 == << <<"queue", "bind">>, <<"audio", "queue">>, <<"queue", "seen">> >>
           s2 == Each(Inputs, "queue")
           s3 == << <<"decisions", "load">>, <<"decisions", "load">>, <<"decisions", "bind">>,
                    <<"queue", "seen">>, <<"audio", "seen">> >>
           s4 == Each(Inputs, "seen")
           s5 == << <<"decisions", "seen">> >>
<1>1. /\ s1 \in Seq(Accesses) /\ Len(s1) = 3 /\ s1[1] = <<"queue", "bind">>
      /\ s1[2] = <<"audio", "queue">> /\ s1[3] = <<"queue", "seen">>
  BY AccessesAre, ShortSequences DEF FileNames, Hows
<1>3. /\ s3 \in Seq(Accesses) /\ Len(s3) = 5 /\ s3[1] = <<"decisions", "load">>
      /\ s3[2] = <<"decisions", "load">> /\ s3[3] = <<"decisions", "bind">>
      /\ s3[4] = <<"queue", "seen">> /\ s3[5] = <<"audio", "seen">>
  BY AccessesAre, ShortSequences DEF FileNames, Hows
<1>5. s5 \in Seq(Accesses) /\ Len(s5) = 1 /\ s5[1] = <<"decisions", "seen">>
  BY AccessesAre, ShortSequences DEF FileNames, Hows
<1>2. /\ s2 \in Seq(Accesses) /\ Len(s2) = 4 /\ s2[1] = <<"transcript", "queue">>
      /\ s2[2] = <<"evidence", "queue">> /\ s2[3] = <<"source", "queue">>
      /\ s2[4] = <<"authorization", "queue">>
  BY EachInputIs DEF Hows
<1>4. /\ s4 \in Seq(Accesses) /\ Len(s4) = 4 /\ s4[1] = <<"transcript", "seen">>
      /\ s4[2] = <<"evidence", "seen">> /\ s4[3] = <<"source", "seen">>
      /\ s4[4] = <<"authorization", "seen">>
  BY EachInputIs DEF Hows
<1>6. PairScript = s1 \o s2 \o s3 \o s4 \o s5
  BY DEF PairScript
<1> HIDE DEF s1, s2, s3, s4, s5
<1> DEFINE t2 == s1 \o s2
           t3 == t2 \o s3
           t4 == t3 \o s4
           t5 == t4 \o s5
<1>7. /\ t2 \in Seq(Accesses) /\ Len(t2) = 7
      /\ \A i \in 1 .. 7 : t2[i] = IF i <= 3 THEN s1[i] ELSE s2[i - 3]
  <2>1. /\ t2 \in Seq(Accesses) /\ Len(t2) = Len(s1) + Len(s2)
        /\ \A i \in 1 .. Len(s1) + Len(s2) :
             t2[i] = IF i <= Len(s1) THEN s1[i] ELSE s2[i - Len(s1)]
    BY <1>1, <1>2, Followed, Zenon
  <2> HIDE DEF t2
  <2> QED
    BY <1>1, <1>2, <2>1
<1> HIDE DEF t2
<1>8. /\ t3 \in Seq(Accesses) /\ Len(t3) = 12
      /\ \A i \in 1 .. 12 : t3[i] = IF i <= 7 THEN t2[i] ELSE s3[i - 7]
  <2>1. /\ t3 \in Seq(Accesses) /\ Len(t3) = Len(t2) + Len(s3)
        /\ \A i \in 1 .. Len(t2) + Len(s3) :
             t3[i] = IF i <= Len(t2) THEN t2[i] ELSE s3[i - Len(t2)]
    BY <1>7, <1>3, Followed, Zenon
  <2> HIDE DEF t3
  <2> QED
    BY <1>7, <1>3, <2>1
<1> HIDE DEF t3
<1>9. /\ t4 \in Seq(Accesses) /\ Len(t4) = 16
      /\ \A i \in 1 .. 16 : t4[i] = IF i <= 12 THEN t3[i] ELSE s4[i - 12]
  <2>1. /\ t4 \in Seq(Accesses) /\ Len(t4) = Len(t3) + Len(s4)
        /\ \A i \in 1 .. Len(t3) + Len(s4) :
             t4[i] = IF i <= Len(t3) THEN t3[i] ELSE s4[i - Len(t3)]
    BY <1>8, <1>4, Followed, Zenon
  <2> HIDE DEF t4
  <2> QED
    BY <1>8, <1>4, <2>1
<1> HIDE DEF t4
<1>10. /\ t5 \in Seq(Accesses) /\ Len(t5) = 17
       /\ \A i \in 1 .. 17 : t5[i] = IF i <= 16 THEN t4[i] ELSE s5[i - 16]
  <2>1. /\ t5 \in Seq(Accesses) /\ Len(t5) = Len(t4) + Len(s5)
        /\ \A i \in 1 .. Len(t4) + Len(s5) :
             t5[i] = IF i <= Len(t4) THEN t4[i] ELSE s5[i - Len(t4)]
    BY <1>9, <1>5, Followed, Zenon
  <2> HIDE DEF t5
  <2> QED
    BY <1>9, <1>5, <2>1
<1> HIDE DEF t5
<1>11. PairScript = t5
  BY <1>6 DEF t5, t4, t3, t2
<1>12. /\ t5[1] = s1[1] /\ t5[2] = s1[2] /\ t5[3] = s1[3]
       /\ t5[4] = s2[1] /\ t5[5] = s2[2] /\ t5[6] = s2[3] /\ t5[7] = s2[4]
  BY <1>7, <1>8, <1>9, <1>10
<1>13. /\ t5[8] = s3[1] /\ t5[9] = s3[2] /\ t5[10] = s3[3] /\ t5[11] = s3[4] /\ t5[12] = s3[5]
  BY <1>8, <1>9, <1>10
<1>14. t5[13] = s4[1] /\ t5[14] = s4[2] /\ t5[15] = s4[3] /\ t5[16] = s4[4] /\ t5[17] = s5[1]
  BY <1>9, <1>10
<1> QED
  BY <1>1, <1>2, <1>3, <1>4, <1>5, <1>10, <1>11, <1>12, <1>13, <1>14

(* The accesses of the commands. *)
LEMMA ExportSteps ==
  /\ ExportScript \in Seq(Accesses) /\ Len(ExportScript) = 22
  /\ ExportScript[1] = <<"authorization", "bind">> /\ ExportScript[2] = <<"authorization", "seen">>
  /\ \A i \in 3 .. 19 : ExportScript[i] = PairScript[i - 2]
  /\ ExportScript[20] = <<"queue", "seen">> /\ ExportScript[21] = <<"decisions", "seen">>
  /\ ExportScript[22] = <<"authorization", "seen">>
<1> DEFINE s1 == << <<"authorization", "bind">>, <<"authorization", "seen">> >>
           s2 == << <<"queue", "seen">>, <<"decisions", "seen">>, <<"authorization", "seen">> >>
           t == s1 \o PairScript
<1>1. /\ s1 \in Seq(Accesses) /\ Len(s1) = 2 /\ s1[1] = <<"authorization", "bind">>
      /\ s1[2] = <<"authorization", "seen">>
  BY AccessesAre, ShortSequences DEF FileNames, Hows
<1>2. /\ s2 \in Seq(Accesses) /\ Len(s2) = 3 /\ s2[1] = <<"queue", "seen">>
      /\ s2[2] = <<"decisions", "seen">> /\ s2[3] = <<"authorization", "seen">>
  BY AccessesAre, ShortSequences DEF FileNames, Hows
<1>3. t = s1 \o PairScript /\ ExportScript = t \o s2
  BY DEF ExportScript
<1> HIDE DEF s1, s2, t
<1>4. /\ t \in Seq(Accesses) /\ Len(t) = 19
      /\ \A i \in 1 .. 19 : t[i] = IF i <= 2 THEN s1[i] ELSE PairScript[i - 2]
  <2>1. PairScript \in Seq(Accesses) /\ Len(PairScript) = 17
    BY PairSteps
  <2>3. s1 \in Seq(Accesses) /\ PairScript \in Seq(Accesses) /\ t = s1 \o PairScript
    BY <1>1, <1>3, <2>1
  <2>2. /\ t \in Seq(Accesses) /\ Len(t) = Len(s1) + Len(PairScript)
        /\ \A i \in 1 .. Len(s1) + Len(PairScript) :
             t[i] = IF i <= Len(s1) THEN s1[i] ELSE PairScript[i - Len(s1)]
    BY <2>3, Joined, Zenon
  <2> QED
    BY <1>1, <2>1, <2>2
<1>5. /\ ExportScript \in Seq(Accesses) /\ Len(ExportScript) = 22
      /\ \A i \in 1 .. 22 : ExportScript[i] = IF i <= 19 THEN t[i] ELSE s2[i - 19]
  <2>3. t \in Seq(Accesses) /\ s2 \in Seq(Accesses) /\ ExportScript = t \o s2
    BY <1>2, <1>3, <1>4
  <2>1. /\ ExportScript \in Seq(Accesses) /\ Len(ExportScript) = Len(t) + Len(s2)
        /\ \A i \in 1 .. Len(t) + Len(s2) :
             ExportScript[i] = IF i <= Len(t) THEN t[i] ELSE s2[i - Len(t)]
    BY <2>3, Joined, Zenon
  <2> QED
    BY <1>2, <1>4, <2>1
<1>6. ASSUME NEW i \in 3 .. 19 PROVE ExportScript[i] = PairScript[i - 2]
  <2>1. i \in 1 .. 19 /\ ~(i <= 2) /\ i \in 1 .. Len(ExportScript) /\ i <= 19
    BY <1>5
  <2>2. ExportScript[i] = t[i]
    BY <1>5, <2>1
  <2>3. t[i] = PairScript[i - 2]
    BY <1>4, <2>1
  <2> QED
    BY <2>2, <2>3
<1>7. ExportScript[1] = s1[1] /\ ExportScript[2] = s1[2]
  BY <1>4, <1>5
<1>8. ExportScript[20] = s2[1] /\ ExportScript[21] = s2[2] /\ ExportScript[22] = s2[3]
  BY <1>5
<1> QED
  BY <1>1, <1>2, <1>5, <1>6, <1>7, <1>8

(* The accesses of validate_plan_review_evidence: _load_review_pair's from the fourth on.   *)
LEMMA EvidenceSteps ==
  /\ EvidenceScript \in Seq(Accesses) /\ Len(EvidenceScript) = 21
  /\ EvidenceScript[1] = <<"authorization", "plan">> /\ EvidenceScript[2] = <<"queue", "plan">>
  /\ EvidenceScript[3] = <<"decisions", "plan">>
  /\ \A i \in 4 .. 20 : EvidenceScript[i] = PairScript[i - 3]
  /\ EvidenceScript[21] = <<"plan", "check">>
<1> DEFINE s1 == << <<"authorization", "plan">>, <<"queue", "plan">>, <<"decisions", "plan">> >>
           s2 == << <<"plan", "check">> >>
           t == s1 \o PairScript
<1>1. /\ s1 \in Seq(Accesses) /\ Len(s1) = 3 /\ s1[1] = <<"authorization", "plan">>
      /\ s1[2] = <<"queue", "plan">> /\ s1[3] = <<"decisions", "plan">>
  BY AccessesAre, ShortSequences DEF FileNames, Hows
<1>2. s2 \in Seq(Accesses) /\ Len(s2) = 1 /\ s2[1] = <<"plan", "check">>
  BY AccessesAre, ShortSequences DEF FileNames, Hows
<1>3. t = s1 \o PairScript /\ EvidenceScript = t \o s2
  BY DEF EvidenceScript
<1> HIDE DEF s1, s2, t
<1>4. /\ t \in Seq(Accesses) /\ Len(t) = 20
      /\ \A i \in 1 .. 20 : t[i] = IF i <= 3 THEN s1[i] ELSE PairScript[i - 3]
  <2>1. PairScript \in Seq(Accesses) /\ Len(PairScript) = 17
    BY PairSteps
  <2>3. s1 \in Seq(Accesses) /\ PairScript \in Seq(Accesses) /\ t = s1 \o PairScript
    BY <1>1, <1>3, <2>1
  <2>2. /\ t \in Seq(Accesses) /\ Len(t) = Len(s1) + Len(PairScript)
        /\ \A i \in 1 .. Len(s1) + Len(PairScript) :
             t[i] = IF i <= Len(s1) THEN s1[i] ELSE PairScript[i - Len(s1)]
    BY <2>3, Joined, Zenon
  <2> QED
    BY <1>1, <2>1, <2>2
<1>5. /\ EvidenceScript \in Seq(Accesses) /\ Len(EvidenceScript) = 21
      /\ \A i \in 1 .. 21 : EvidenceScript[i] = IF i <= 20 THEN t[i] ELSE s2[i - 20]
  <2>3. t \in Seq(Accesses) /\ s2 \in Seq(Accesses) /\ EvidenceScript = t \o s2
    BY <1>2, <1>3, <1>4
  <2>1. /\ EvidenceScript \in Seq(Accesses) /\ Len(EvidenceScript) = Len(t) + Len(s2)
        /\ \A i \in 1 .. Len(t) + Len(s2) :
             EvidenceScript[i] = IF i <= Len(t) THEN t[i] ELSE s2[i - Len(t)]
    BY <2>3, Joined, Zenon
  <2> QED
    BY <1>2, <1>4, <2>1
<1>6. ASSUME NEW i \in 4 .. 20 PROVE EvidenceScript[i] = PairScript[i - 3]
  <2>1. i \in 1 .. 20 /\ ~(i <= 3) /\ i \in 1 .. Len(EvidenceScript) /\ i <= 20
    BY <1>5
  <2>2. EvidenceScript[i] = t[i]
    BY <1>5, <2>1
  <2>3. t[i] = PairScript[i - 3]
    BY <1>4, <2>1
  <2> QED
    BY <2>2, <2>3
<1>7. EvidenceScript[1] = s1[1] /\ EvidenceScript[2] = s1[2] /\ EvidenceScript[3] = s1[3]
  BY <1>4, <1>5
<1>8. EvidenceScript[21] = s2[1]
  BY <1>5
<1> QED
  BY <1>1, <1>2, <1>5, <1>6, <1>7, <1>8

(* The accesses of build_dataset: two rounds of evidence, and the cut between them.         *)
LEMMA DatasetSteps ==
  /\ DatasetScript \in Seq(Accesses) /\ Len(DatasetScript) = 47
  /\ DatasetScript[1] = <<"plan", "bind">> /\ DatasetScript[2] = <<"authorization", "plan">>
  /\ DatasetScript[3] = <<"source", "plan">>
  /\ \A i \in 4 .. 24 : DatasetScript[i] = EvidenceScript[i - 3]
  /\ DatasetScript[25] = <<"source", "cut">> /\ DatasetScript[26] = <<"source", "plan">>
  /\ \A i \in 27 .. 47 : DatasetScript[i] = EvidenceScript[i - 26]
<1> DEFINE s1 == << <<"plan", "bind">>, <<"authorization", "plan">>, <<"source", "plan">> >>
           s2 == << <<"source", "cut">>, <<"source", "plan">> >>
           t == s1 \o EvidenceScript
           u == t \o s2
<1>1. /\ s1 \in Seq(Accesses) /\ Len(s1) = 3 /\ s1[1] = <<"plan", "bind">>
      /\ s1[2] = <<"authorization", "plan">> /\ s1[3] = <<"source", "plan">>
  BY AccessesAre, ShortSequences DEF FileNames, Hows
<1>2. /\ s2 \in Seq(Accesses) /\ Len(s2) = 2 /\ s2[1] = <<"source", "cut">>
      /\ s2[2] = <<"source", "plan">>
  BY AccessesAre, ShortSequences DEF FileNames, Hows
<1>3. t = s1 \o EvidenceScript /\ u = t \o s2 /\ DatasetScript = u \o EvidenceScript
  BY DEF DatasetScript
<1> HIDE DEF s1, s2, t, u
<1>4. EvidenceScript \in Seq(Accesses) /\ Len(EvidenceScript) = 21
  BY EvidenceSteps
<1>5. /\ t \in Seq(Accesses) /\ Len(t) = 24
      /\ \A i \in 1 .. 24 : t[i] = IF i <= 3 THEN s1[i] ELSE EvidenceScript[i - 3]
  <2>3. s1 \in Seq(Accesses) /\ EvidenceScript \in Seq(Accesses) /\ t = s1 \o EvidenceScript
    BY <1>1, <1>3, <1>4
  <2>1. /\ t \in Seq(Accesses) /\ Len(t) = Len(s1) + Len(EvidenceScript)
        /\ \A i \in 1 .. Len(s1) + Len(EvidenceScript) :
             t[i] = IF i <= Len(s1) THEN s1[i] ELSE EvidenceScript[i - Len(s1)]
    BY <2>3, Joined, Zenon
  <2> QED
    BY <1>1, <1>4, <2>1
<1>6. /\ u \in Seq(Accesses) /\ Len(u) = 26
      /\ \A i \in 1 .. 26 : u[i] = IF i <= 24 THEN t[i] ELSE s2[i - 24]
  <2>3. t \in Seq(Accesses) /\ s2 \in Seq(Accesses) /\ u = t \o s2
    BY <1>2, <1>3, <1>5
  <2>1. /\ u \in Seq(Accesses) /\ Len(u) = Len(t) + Len(s2)
        /\ \A i \in 1 .. Len(t) + Len(s2) : u[i] = IF i <= Len(t) THEN t[i] ELSE s2[i - Len(t)]
    BY <2>3, Joined, Zenon
  <2> QED
    BY <1>2, <1>5, <2>1
<1>7. /\ DatasetScript \in Seq(Accesses) /\ Len(DatasetScript) = 47
      /\ \A i \in 1 .. 47 : DatasetScript[i] = IF i <= 26 THEN u[i] ELSE EvidenceScript[i - 26]
  <2>3. u \in Seq(Accesses) /\ EvidenceScript \in Seq(Accesses) /\ DatasetScript = u \o EvidenceScript
    BY <1>3, <1>4, <1>6
  <2>1. /\ DatasetScript \in Seq(Accesses) /\ Len(DatasetScript) = Len(u) + Len(EvidenceScript)
        /\ \A i \in 1 .. Len(u) + Len(EvidenceScript) :
             DatasetScript[i] = IF i <= Len(u) THEN u[i] ELSE EvidenceScript[i - Len(u)]
    BY <2>3, Joined, Zenon
  <2> QED
    BY <1>4, <1>6, <2>1
<1>8. /\ \A i \in 4 .. 24 : DatasetScript[i] = EvidenceScript[i - 3]
      /\ \A i \in 27 .. 47 : DatasetScript[i] = EvidenceScript[i - 26]
  BY <1>5, <1>6, <1>7
<1>9. DatasetScript[1] = s1[1] /\ DatasetScript[2] = s1[2] /\ DatasetScript[3] = s1[3]
  BY <1>5, <1>6, <1>7
<1>10. DatasetScript[25] = s2[1] /\ DatasetScript[26] = s2[2]
  BY <1>6, <1>7
<1> QED
  BY <1>1, <1>2, <1>7, <1>8, <1>9, <1>10

(* The accesses of build_review_queue: the inputs twice, and the cut between them.          *)
LEMMA QueueSteps ==
  /\ QueueScript \in Seq(Accesses) /\ Len(QueueScript) = 11
  /\ QueueScript[1] = <<"transcript", "bind">> /\ QueueScript[2] = <<"evidence", "bind">>
  /\ QueueScript[3] = <<"source", "bind">> /\ QueueScript[4] = <<"authorization", "bind">>
  /\ QueueScript[5] = <<"transcript", "seen">> /\ QueueScript[6] = <<"evidence", "seen">>
  /\ QueueScript[7] = <<"source", "cut">> /\ QueueScript[8] = <<"transcript", "seen">>
  /\ QueueScript[9] = <<"evidence", "seen">> /\ QueueScript[10] = <<"source", "seen">>
  /\ QueueScript[11] = <<"authorization", "seen">>
<1> DEFINE s1 == Each(Inputs, "bind")
           s2 == << <<"transcript", "seen">>, <<"evidence", "seen">>, <<"source", "cut">> >>
           s3 == Each(Inputs, "seen")
           t == s1 \o s2
<1>1. /\ s1 \in Seq(Accesses) /\ Len(s1) = 4 /\ s1[1] = <<"transcript", "bind">>
      /\ s1[2] = <<"evidence", "bind">> /\ s1[3] = <<"source", "bind">>
      /\ s1[4] = <<"authorization", "bind">>
  BY EachInputIs DEF Hows
<1>2. /\ s2 \in Seq(Accesses) /\ Len(s2) = 3 /\ s2[1] = <<"transcript", "seen">>
      /\ s2[2] = <<"evidence", "seen">> /\ s2[3] = <<"source", "cut">>
  BY AccessesAre, ShortSequences DEF FileNames, Hows
<1>3. /\ s3 \in Seq(Accesses) /\ Len(s3) = 4 /\ s3[1] = <<"transcript", "seen">>
      /\ s3[2] = <<"evidence", "seen">> /\ s3[3] = <<"source", "seen">>
      /\ s3[4] = <<"authorization", "seen">>
  BY EachInputIs DEF Hows
<1>4. t = s1 \o s2 /\ QueueScript = t \o s3
  BY DEF QueueScript
<1> HIDE DEF s1, s2, s3, t
<1>5. /\ t \in Seq(Accesses) /\ Len(t) = 7
      /\ \A i \in 1 .. 7 : t[i] = IF i <= 4 THEN s1[i] ELSE s2[i - 4]
  <2>3. s1 \in Seq(Accesses) /\ s2 \in Seq(Accesses) /\ t = s1 \o s2
    BY <1>1, <1>2, <1>4
  <2>1. /\ t \in Seq(Accesses) /\ Len(t) = Len(s1) + Len(s2)
        /\ \A i \in 1 .. Len(s1) + Len(s2) : t[i] = IF i <= Len(s1) THEN s1[i] ELSE s2[i - Len(s1)]
    BY <2>3, Joined, Zenon
  <2> QED
    BY <1>1, <1>2, <2>1
<1>6. /\ QueueScript \in Seq(Accesses) /\ Len(QueueScript) = 11
      /\ \A i \in 1 .. 11 : QueueScript[i] = IF i <= 7 THEN t[i] ELSE s3[i - 7]
  <2>3. t \in Seq(Accesses) /\ s3 \in Seq(Accesses) /\ QueueScript = t \o s3
    BY <1>3, <1>4, <1>5
  <2>1. /\ QueueScript \in Seq(Accesses) /\ Len(QueueScript) = Len(t) + Len(s3)
        /\ \A i \in 1 .. Len(t) + Len(s3) :
             QueueScript[i] = IF i <= Len(t) THEN t[i] ELSE s3[i - Len(t)]
    BY <2>3, Joined, Zenon
  <2> QED
    BY <1>3, <1>5, <2>1
<1> QED
  BY <1>1, <1>2, <1>3, <1>5, <1>6

(* The accesses of acquire_bilibili_video, segment_audio and prepare_audio_only_evidence.   *)
LEMMA ShortScripts ==
  /\ AcquireScript \in Seq(Accesses) /\ Len(AcquireScript) = 6
  /\ AcquireScript[1] = <<"authorization", "bind">> /\ AcquireScript[2] = <<"tools", "bind">>
  /\ AcquireScript[3] = <<"video", "bind">> /\ AcquireScript[4] = <<"video", "seen">>
  /\ AcquireScript[5] = <<"authorization", "seen">> /\ AcquireScript[6] = <<"tools", "seen">>
  /\ SegmentScript \in Seq(Accesses) /\ Len(SegmentScript) = 3
  /\ SegmentScript[1] = <<"source", "bind">> /\ SegmentScript[2] = <<"source", "heard">>
  /\ SegmentScript[3] = <<"source", "seen">>
  /\ EvidenceFileScript \in Seq(Accesses) /\ Len(EvidenceFileScript) = 5
  /\ EvidenceFileScript[1] = <<"source", "bind">> /\ EvidenceFileScript[2] = <<"transcript", "bind">>
  /\ EvidenceFileScript[3] = <<"transcript", "seen">> /\ EvidenceFileScript[4] = <<"source", "seen">>
  /\ EvidenceFileScript[5] = <<"transcript", "seen">>
<1> DEFINE s1 == Each(Hosts, "bind")
           s2 == << <<"video", "seen">>, <<"authorization", "seen">>, <<"tools", "seen">> >>
<1>1. /\ s1 \in Seq(Accesses) /\ Len(s1) = 3 /\ s1[1] = <<"authorization", "bind">>
      /\ s1[2] = <<"tools", "bind">> /\ s1[3] = <<"video", "bind">>
  BY EachHostIs
<1>2. /\ s2 \in Seq(Accesses) /\ Len(s2) = 3 /\ s2[1] = <<"video", "seen">>
      /\ s2[2] = <<"authorization", "seen">> /\ s2[3] = <<"tools", "seen">>
  BY AccessesAre, ShortSequences DEF FileNames, Hows
<1>3. AcquireScript = s1 \o s2
  BY DEF AcquireScript
<1> HIDE DEF s1, s2
<1>4. /\ AcquireScript \in Seq(Accesses) /\ Len(AcquireScript) = 6
      /\ \A i \in 1 .. 6 : AcquireScript[i] = IF i <= 3 THEN s1[i] ELSE s2[i - 3]
  <2>3. s1 \in Seq(Accesses) /\ s2 \in Seq(Accesses) /\ AcquireScript = s1 \o s2
    BY <1>1, <1>2, <1>3
  <2>1. /\ AcquireScript \in Seq(Accesses) /\ Len(AcquireScript) = Len(s1) + Len(s2)
        /\ \A i \in 1 .. Len(s1) + Len(s2) :
             AcquireScript[i] = IF i <= Len(s1) THEN s1[i] ELSE s2[i - Len(s1)]
    BY <2>3, Joined, Zenon
  <2> QED
    BY <1>1, <1>2, <2>1
<1>5. /\ SegmentScript \in Seq(Accesses) /\ Len(SegmentScript) = 3
      /\ SegmentScript[1] = <<"source", "bind">> /\ SegmentScript[2] = <<"source", "heard">>
      /\ SegmentScript[3] = <<"source", "seen">>
  BY AccessesAre, ShortSequences DEF FileNames, Hows, SegmentScript
<1>6. /\ EvidenceFileScript \in Seq(Accesses) /\ Len(EvidenceFileScript) = 5
      /\ EvidenceFileScript[1] = <<"source", "bind">> /\ EvidenceFileScript[2] = <<"transcript", "bind">>
      /\ EvidenceFileScript[3] = <<"transcript", "seen">> /\ EvidenceFileScript[4] = <<"source", "seen">>
      /\ EvidenceFileScript[5] = <<"transcript", "seen">>
  BY AccessesAre, ShortSequences DEF FileNames, Hows, EvidenceFileScript
<1> QED
  BY <1>1, <1>2, <1>4, <1>5, <1>6

(* The last round in which a plan's evidence is looked at begins after this access. *)
PairBase(name) == IF name = "export" THEN 2 ELSE 29

PipelineCommands == {"acquire", "segment", "evidence", "queue", "export", "dataset"}
Readings == {"bind", "seen", "queue", "plan"}

\* The access after which a command holds all that it will name, and what it will name.
Pivot(name) == CASE name = "acquire" -> 3
                 [] name = "segment" -> 1
                 [] name = "evidence" -> 2
                 [] name = "queue" -> 4
                 [] name = "export" -> 12
                 [] name = "dataset" -> 39
Named(name) == CASE name = "acquire" -> {"authorization", "tools", "video"}
                 [] name = "segment" -> {"source"}
                 [] name = "evidence" -> {"source", "transcript"}
                 [] name = "queue" -> {"transcript", "evidence", "source", "authorization"}
                 [] name \in {"export", "dataset"} -> PlanNames

(* Where the rounds are, without the rest of what is known of the scripts.                  *)
LEMMA PairRuns ==
  /\ \A i \in 3 .. 19 : ExportScript[i] = PairScript[i - 2]
  /\ \A i \in 4 .. 20 : EvidenceScript[i] = PairScript[i - 3]
  /\ \A i \in 4 .. 24 : DatasetScript[i] = EvidenceScript[i - 3]
  /\ \A i \in 27 .. 47 : DatasetScript[i] = EvidenceScript[i - 26]
<1>1. \A i \in 3 .. 19 : ExportScript[i] = PairScript[i - 2]
  BY ExportSteps, Zenon
<1>2. \A i \in 4 .. 20 : EvidenceScript[i] = PairScript[i - 3]
  BY EvidenceSteps, Zenon
<1>3. \A i \in 4 .. 24 : DatasetScript[i] = EvidenceScript[i - 3]
  BY DatasetSteps, Zenon
<1>4. \A i \in 27 .. 47 : DatasetScript[i] = EvidenceScript[i - 26]
  BY DatasetSteps, Zenon
<1> QED
  BY <1>1, <1>2, <1>3, <1>4, Zenon

(* Where the last round is in the scripts of export and dataset. *)
LEMMA LastPair ==
  ASSUME NEW name \in {"export", "dataset"}
  PROVE  /\ PairBase(name) \in {2, 29} /\ Script(name) \in Seq(Accesses)
         /\ Len(Script(name)) >= PairBase(name) + 17 /\ Len(Script(name)) \in Nat
         /\ \A k \in 1 .. 17 : Script(name)[PairBase(name) + k] = PairScript[k]
         /\ \A i \in PairBase(name) + 18 .. Len(Script(name)) :
              Script(name)[i] \in {<<"queue", "seen">>, <<"decisions", "seen">>,
                        <<"authorization", "seen">>, <<"plan", "check">>}
<1> DEFINE b == PairBase(name)
           S == Script(name)
<1>1. CASE name = "export"
  <2>1. S = ExportScript /\ b = 2
    BY <1>1 DEF Script, PairBase
  <2>2. \A k \in 1 .. 17 : S[b + k] = PairScript[k]
    <3> SUFFICES ASSUME NEW k \in 1 .. 17 PROVE S[b + k] = PairScript[k]
      OBVIOUS
    <3>1. b + k \in 3 .. 19 /\ (b + k) - 2 = k
      BY <2>1
    <3> QED
      BY <2>1, <3>1, PairRuns
  <2>3. Len(S) = 22 /\ S \in Seq(Accesses)
    BY <2>1, ExportSteps
  <2>4. \A i \in b + 18 .. Len(S) : i = 20 \/ i = 21 \/ i = 22
    BY <2>1, <2>3
  <2>5. \A i \in b + 18 .. Len(S) :
              S[i] \in {<<"queue", "seen">>, <<"decisions", "seen">>,
                        <<"authorization", "seen">>, <<"plan", "check">>}
    BY <2>1, <2>4, ExportSteps
  <2> QED
    BY <2>1, <2>2, <2>3, <2>5 DEF b, S
<1>2. CASE name = "dataset"
  <2>1. S = DatasetScript /\ b = 29
    BY <1>2 DEF Script, PairBase
  <2>2. \A k \in 1 .. 17 : S[b + k] = PairScript[k]
    <3> SUFFICES ASSUME NEW k \in 1 .. 17 PROVE S[b + k] = PairScript[k]
      OBVIOUS
    <3>1. b + k \in 27 .. 47 /\ (b + k) - 26 = k + 3 /\ k + 3 \in 4 .. 20 /\ (k + 3) - 3 = k
      BY <2>1
    <3>2. S[b + k] = EvidenceScript[k + 3]
      BY <2>1, <3>1, PairRuns
    <3>3. EvidenceScript[k + 3] = PairScript[k]
      BY <3>1, PairRuns
    <3> QED
      BY <3>2, <3>3
  <2>3. Len(S) = 47 /\ S \in Seq(Accesses)
    BY <2>1, DatasetSteps
  <2>4. \A i \in b + 18 .. Len(S) : i = 47
    BY <2>1, <2>3
  <2>5. 47 \in 27 .. 47 /\ 47 - 26 = 21
    OBVIOUS
  <2>6. S[47] = <<"plan", "check">>
    <3>1. S[47] = EvidenceScript[21]
      BY <2>1, <2>5, PairRuns
    <3> QED
      BY <3>1, EvidenceSteps
  <2>7. b \in {2, 29} /\ Len(S) >= b + 17 /\ Len(S) \in Nat
    BY <2>1, <2>3
  <2>8. \A i \in b + 18 .. Len(S) :
              S[i] \in {<<"queue", "seen">>, <<"decisions", "seen">>,
                        <<"authorization", "seen">>, <<"plan", "check">>}
    BY <2>4, <2>6
  <2> HIDE DEF b, S
  <2> QED
    BY <2>2, <2>3, <2>7, <2>8, Zenon DEF b, S
<1> QED
  BY <1>1, <1>2

(* What the last round reads ...                                                            *)
LEMMA LastReads ==
  ASSUME NEW name \in {"export", "dataset"}
  PROVE  /\ PairBase(name) \in {2, 29} /\ Script(name) \in Seq(Accesses)
         /\ Len(Script(name)) >= PairBase(name) + 17 /\ Len(Script(name)) \in Nat
         /\ Script(name)[PairBase(name) + 1] = <<"queue", "bind">>
         /\ Script(name)[PairBase(name) + 2] = <<"audio", "queue">>
         /\ Script(name)[PairBase(name) + 3] = <<"queue", "seen">>
         /\ Script(name)[PairBase(name) + 4] = <<"transcript", "queue">>
         /\ Script(name)[PairBase(name) + 5] = <<"evidence", "queue">>
         /\ Script(name)[PairBase(name) + 6] = <<"source", "queue">>
         /\ Script(name)[PairBase(name) + 7] = <<"authorization", "queue">>
         /\ Script(name)[PairBase(name) + 8] = <<"decisions", "load">>
         /\ Script(name)[PairBase(name) + 9] = <<"decisions", "load">>
         /\ Script(name)[PairBase(name) + 10] = <<"decisions", "bind">>
<1> DEFINE b == PairBase(name)
           S == Script(name)
<1>1. \A k \in 1 .. 17 : S[b + k] = PairScript[k]
  BY LastPair, Zenon
<1>2. b \in {2, 29} /\ S \in Seq(Accesses) /\ Len(S) >= b + 17 /\ Len(S) \in Nat
  BY LastPair
<1> HIDE DEF b, S
<1>3. /\ S[b + 1] = <<"queue", "bind">> /\ S[b + 2] = <<"audio", "queue">>
      /\ S[b + 3] = <<"queue", "seen">> /\ S[b + 4] = <<"transcript", "queue">>
      /\ S[b + 5] = <<"evidence", "queue">> /\ S[b + 6] = <<"source", "queue">>
      /\ S[b + 7] = <<"authorization", "queue">> /\ S[b + 8] = <<"decisions", "load">>
      /\ S[b + 9] = <<"decisions", "load">> /\ S[b + 10] = <<"decisions", "bind">>
  BY <1>1, PairSteps
<1> QED
  BY <1>2, <1>3, Zenon DEF b, S

(* ... and what it looks at again, which is all that follows.                               *)
LEMMA LastLooks ==
  ASSUME NEW name \in {"export", "dataset"}
  PROVE  /\ Script(name)[PairBase(name) + 11] = <<"queue", "seen">>
         /\ Script(name)[PairBase(name) + 12] = <<"audio", "seen">>
         /\ Script(name)[PairBase(name) + 13] = <<"transcript", "seen">>
         /\ Script(name)[PairBase(name) + 14] = <<"evidence", "seen">>
         /\ Script(name)[PairBase(name) + 15] = <<"source", "seen">>
         /\ Script(name)[PairBase(name) + 16] = <<"authorization", "seen">>
         /\ Script(name)[PairBase(name) + 17] = <<"decisions", "seen">>
         /\ \A i \in PairBase(name) + 18 .. Len(Script(name)) :
              Script(name)[i] \in {<<"queue", "seen">>, <<"decisions", "seen">>,
                        <<"authorization", "seen">>, <<"plan", "check">>}
<1> DEFINE b == PairBase(name)
           S == Script(name)
<1>1. \A k \in 1 .. 17 : S[b + k] = PairScript[k]
  BY LastPair, Zenon
<1>2. \A i \in b + 18 .. Len(S) :
              S[i] \in {<<"queue", "seen">>, <<"decisions", "seen">>,
                        <<"authorization", "seen">>, <<"plan", "check">>}
  BY LastPair
<1> HIDE DEF b, S
<1>3. /\ S[b + 11] = <<"queue", "seen">> /\ S[b + 12] = <<"audio", "seen">>
      /\ S[b + 13] = <<"transcript", "seen">> /\ S[b + 14] = <<"evidence", "seen">>
      /\ S[b + 15] = <<"source", "seen">> /\ S[b + 16] = <<"authorization", "seen">>
      /\ S[b + 17] = <<"decisions", "seen">>
  BY <1>1, PairSteps
<1> QED
  BY <1>2, <1>3, Zenon DEF b, S

(* Where a dataset meets its plan, and where it cuts. *)
LEMMA DatasetMeetsPlan ==
  ASSUME NEW S, S = DatasetScript
  PROVE  /\ Len(S) = 47 /\ S[1] = <<"plan", "bind">> /\ S[2] = <<"authorization", "plan">>
         /\ S[3] = <<"source", "plan">> /\ S[25] = <<"source", "cut">>
         /\ S[26] = <<"source", "plan">> /\ S[27] = <<"authorization", "plan">>
         /\ S[28] = <<"queue", "plan">> /\ S[29] = <<"decisions", "plan">>
         /\ S[47] = <<"plan", "check">>
         /\ \A i \in 2 .. 47 : S[i][1] = "plan" => S[i][2] = "check"
         /\ \A i \in 26 .. 47 : S[i][2] # "cut"
<1>1. \A i \in 1 .. 21 : /\ EvidenceScript[i][1] = "plan" => EvidenceScript[i][2] = "check"
                         /\ EvidenceScript[i][2] # "cut"
  <2>1. \A k \in 1 .. 17 : PairScript[k][1] # "plan" /\ PairScript[k][2] # "cut"
    BY PairSteps
  <2>2. ASSUME NEW i \in 4 .. 20
        PROVE  EvidenceScript[i][1] # "plan" /\ EvidenceScript[i][2] # "cut"
    <3>1. EvidenceScript[i] = PairScript[i - 3] /\ i - 3 \in 1 .. 17
      BY PairRuns
    <3> QED
      BY <2>1, <3>1
  <2>3. \A i \in 1 .. 21 : i = 1 \/ i = 2 \/ i = 3 \/ i = 21 \/ i \in 4 .. 20
    OBVIOUS
  <2>4. /\ EvidenceScript[1][1] # "plan" /\ EvidenceScript[1][2] # "cut"
        /\ EvidenceScript[2][1] # "plan" /\ EvidenceScript[2][2] # "cut"
        /\ EvidenceScript[3][1] # "plan" /\ EvidenceScript[3][2] # "cut"
        /\ EvidenceScript[21][2] = "check"
    BY EvidenceSteps
  <2> QED
    BY <2>2, <2>3, <2>4
<1>2. ASSUME NEW i \in 4 .. 24 PROVE S[i][1] = "plan" => S[i][2] = "check"
  <2>1. S[i] = EvidenceScript[i - 3] /\ i - 3 \in 1 .. 21
    BY PairRuns
  <2> QED
    BY <1>1, <2>1
<1>3. ASSUME NEW i \in 27 .. 47
      PROVE  /\ S[i][1] = "plan" => S[i][2] = "check"
             /\ S[i][2] # "cut"
  <2>1. S[i] = EvidenceScript[i - 26] /\ i - 26 \in 1 .. 21
    BY PairRuns
  <2> QED
    BY <1>1, <2>1
<1>4. S[27] = EvidenceScript[1] /\ S[28] = EvidenceScript[2] /\ S[29] = EvidenceScript[3]
      /\ S[47] = EvidenceScript[21]
  <2>1. \A i \in {27, 28, 29, 47} : S[i] = EvidenceScript[i - 26]
    BY PairRuns
  <2> QED
    BY <2>1
<1>5. \A i \in 2 .. 47 : i = 2 \/ i = 3 \/ i = 25 \/ i = 26 \/ i \in 4 .. 24 \/ i \in 27 .. 47
  OBVIOUS
<1>6. \A i \in 26 .. 47 : i = 26 \/ i \in 27 .. 47
  OBVIOUS
<1>9. /\ Len(S) = 47 /\ S[1] = <<"plan", "bind">> /\ S[2] = <<"authorization", "plan">>
      /\ S[3] = <<"source", "plan">> /\ S[25] = <<"source", "cut">>
      /\ S[26] = <<"source", "plan">>
  BY DatasetSteps, Zenon
<1>10. /\ S[2][1] # "plan" /\ S[3][1] # "plan" /\ S[25][1] # "plan" /\ S[26][1] # "plan"
       /\ S[26][2] # "cut"
  BY <1>9
<1>7. \A i \in 2 .. 47 : S[i][1] = "plan" => S[i][2] = "check"
  BY <1>2, <1>3, <1>5, <1>10
<1>8. \A i \in 26 .. 47 : S[i][2] # "cut"
  BY <1>3, <1>6, <1>10
<1> QED
  BY <1>4, <1>7, <1>8, <1>9, EvidenceSteps, Zenon

(* Every command looks twice at what it names: until its pivot it reads, after it only
   compares. *)
LEMMA ScriptsLookTwice ==
  ASSUME NEW name \in PipelineCommands, NEW S, S = Script(name), NEW p, p = Pivot(name)
  PROVE  /\ S \in Seq(Accesses) /\ DOMAIN S = 1 .. Len(S) /\ Len(S) \in Nat
         /\ \A i \in DOMAIN S : S[i][1] \in FileNames /\ S[i][2] \in Hows
                                /\ S[i] = <<S[i][1], S[i][2]>>
         /\ p \in DOMAIN S /\ S[p][2] = "bind" /\ p \in Nat
         /\ \A i \in DOMAIN S : p < i => S[i][2] \in {"seen", "cut", "heard", "check"}
         /\ \A f \in Named(name) :
              /\ f \in Lasting
              /\ \E i \in DOMAIN S : i <= p /\ S[i][1] = f /\ S[i][2] \in Readings
              /\ \E i \in DOMAIN S : p < i /\ S[i] = <<f, "seen">>
<1>1. /\ S \in Seq(Accesses) /\ p \in 1 .. Len(S) /\ S[p][2] = "bind"
      /\ \A i \in 1 .. Len(S) : p < i => S[i][2] \in {"seen", "cut", "heard", "check"}
      /\ \A f \in Named(name) :
           /\ f \in Lasting
           /\ \E i \in 1 .. Len(S) : i <= p /\ S[i][1] = f /\ S[i][2] \in Readings
           /\ \E i \in 1 .. Len(S) : p < i /\ S[i] = <<f, "seen">>
  <2>1. CASE name = "acquire"
    <3>1. S = AcquireScript /\ p = 3 /\ Named(name) = {"authorization", "tools", "video"}
      BY <2>1 DEF Script, Pivot, Named
    <3>2. \A i \in 1 .. 6 : i \in {1, 2, 3, 4, 5, 6}
      OBVIOUS
    <3> QED
      BY <3>1, <3>2, ShortScripts DEF Lasting, FileNames, Readings
  <2>2. CASE name = "segment"
    <3>1. S = SegmentScript /\ p = 1 /\ Named(name) = {"source"}
      BY <2>2 DEF Script, Pivot, Named
    <3>2. \A i \in 1 .. 3 : i \in {1, 2, 3}
      OBVIOUS
    <3> QED
      BY <3>1, <3>2, ShortScripts DEF Lasting, FileNames, Readings
  <2>3. CASE name = "evidence"
    <3>1. S = EvidenceFileScript /\ p = 2 /\ Named(name) = {"source", "transcript"}
      BY <2>3 DEF Script, Pivot, Named
    <3>2. \A i \in 1 .. 5 : i \in {1, 2, 3, 4, 5}
      OBVIOUS
    <3> QED
      BY <3>1, <3>2, ShortScripts DEF Lasting, FileNames, Readings
  <2>4. CASE name = "queue"
    <3>1. /\ S = QueueScript /\ p = 4
          /\ Named(name) = {"transcript", "evidence", "source", "authorization"}
      BY <2>4 DEF Script, Pivot, Named
    <3>2. \A i \in 1 .. 11 : 4 < i => i \in {5, 6, 7, 8, 9, 10, 11}
      OBVIOUS
    <3> QED
      BY <3>1, <3>2, QueueSteps DEF Lasting, FileNames, Readings
  <2>5. CASE name \in {"export", "dataset"}
    <3> DEFINE b == PairBase(name)
    <3>1. Named(name) = PlanNames /\ p = b + 10
      BY <2>5 DEF Pivot, Named, PairBase
    <3> HIDE DEF b
    <3>2. /\ b \in {2, 29} /\ S \in Seq(Accesses) /\ Len(S) >= b + 17 /\ Len(S) \in Nat
          /\ S[b + 1] = <<"queue", "bind">>
          /\ S[b + 6] = <<"source", "queue">>
          /\ S[b + 7] = <<"authorization", "queue">>
          /\ S[b + 10] = <<"decisions", "bind">>
      BY <2>5, LastReads DEF b
    <3>3. /\ S[b + 11] = <<"queue", "seen">> /\ S[b + 12] = <<"audio", "seen">>
          /\ S[b + 13] = <<"transcript", "seen">> /\ S[b + 14] = <<"evidence", "seen">>
          /\ S[b + 15] = <<"source", "seen">> /\ S[b + 16] = <<"authorization", "seen">>
          /\ S[b + 17] = <<"decisions", "seen">>
          /\ \A i \in b + 18 .. Len(S) :
               S[i] \in {<<"queue", "seen">>, <<"decisions", "seen">>,
                         <<"authorization", "seen">>, <<"plan", "check">>}
    <4>1. name \in {"export", "dataset"} /\ b = PairBase(name)
      BY <2>5 DEF b
    <4> QED
      BY <4>1, LastLooks
    <3>4. ASSUME NEW i \in 1 .. Len(S), p < i PROVE S[i][2] \in {"seen", "cut", "heard", "check"}
      <4>1. i \in {b + 11, b + 12, b + 13, b + 14, b + 15, b + 16, b + 17} \/ i \in b + 18 .. Len(S)
        <5>1. i \in Int /\ b \in Int /\ Len(S) \in Int /\ b + 10 < i /\ i <= Len(S)
          BY <3>1, <3>2, <3>4
        <5>2. \/ i = b + 11 \/ i = b + 12 \/ i = b + 13 \/ i = b + 14 \/ i = b + 15
              \/ i = b + 16 \/ i = b + 17 \/ b + 18 <= i
          BY <5>1
        <5> QED
          BY <5>1, <5>2
      <4> QED
        BY <3>3, <4>1
    <3>5. ASSUME NEW f \in PlanNames
          PROVE  /\ f \in Lasting
                 /\ \E i \in 1 .. Len(S) : i <= p /\ S[i][1] = f /\ S[i][2] \in Readings
                 /\ \E i \in 1 .. Len(S) : p < i /\ S[i] = <<f, "seen">>
      <4>1. {b + 1, b + 6, b + 7, b + 10, b + 11, b + 15, b + 16, b + 17} \subseteq 1 .. Len(S)
        BY <3>2
      <4>2. f \in Lasting
        BY DEF PlanNames, Lasting, FileNames
      <4>3. \E i \in {b + 1, b + 6, b + 7, b + 10} : i <= p /\ S[i][1] = f /\ S[i][2] \in Readings
        BY <3>1, <3>2 DEF PlanNames, Readings
      <4>4. \E i \in {b + 11, b + 15, b + 16, b + 17} : p < i /\ S[i] = <<f, "seen">>
        BY <3>1, <3>2, <3>3 DEF PlanNames
      <4> QED
        BY <4>1, <4>2, <4>3, <4>4
    <3>6. p \in 1 .. Len(S) /\ S[p][2] = "bind"
      BY <3>1, <3>2
    <3> QED
      BY <3>1, <3>2, <3>4, <3>5, <3>6
  <2> QED
    BY <2>1, <2>2, <2>3, <2>4, <2>5 DEF PipelineCommands
<1>2. DOMAIN S = 1 .. Len(S) /\ Len(S) \in Nat /\ \A i \in 1 .. Len(S) : S[i] \in Accesses
  BY <1>1, LenProperties
<1>3. \A a \in Accesses : a[1] \in FileNames /\ a[2] \in Hows /\ a = <<a[1], a[2]>>
  BY DEF Accesses
<1> QED
  BY <1>1, <1>2, <1>3

-----------------------------------------------------------------------------
(* The inductive invariant.                                                *)

\* A content that carries a version of its own.
Stamped(x) == "version" \in DOMAIN x /\ x.version \in 0 .. edits

\* A queue's audio was cut from the source that it names.
IsQueue(q) ==
  /\ Stamped(q) /\ "names" \in DOMAIN q
  /\ q.names["audio"].cut = q.names["source"] /\ q.names["audio"].version = 0

\* The audio was changed after the queue was built.
AudioIsNew == content["audio"] # Absent /\ content["audio"].version > 0

\* A reviewer heard the audio of q, or an audio that is still not that one.
Genuine(heard, q) == heard = Absent \/ heard = q.names["audio"] \/ AudioIsNew

IsDecisions(d) ==
  /\ "queue" \in DOMAIN d /\ "of" \in DOMAIN d /\ DOMAIN d.of = Clip
  /\ \A c \in Clip : /\ {"ok", "revision", "heard"} = DOMAIN d.of[c]
                     /\ d.of[c].revision \in 0 .. saves /\ Genuine(d.of[c].heard, d.queue)

FilesSound ==
  /\ edits \in Nat /\ saves \in Nat
  /\ DOMAIN content = FileNames
  /\ \A f \in Dated : content[f] = Absent \/ Stamped(content[f])
  /\ content["queue"] = Absent \/ IsQueue(content["queue"])
  /\ content["queue"] = Absent <=> content["audio"] = Absent
  /\ content["decisions"] = Absent \/ IsDecisions(content["decisions"])
  /\ content["plan"] \in {Absent, Torn} \/ DOMAIN content["plan"].names = PlanNames

\* x was the content of f at some moment of the running command.
WasHeld(f, x) == \E m \in moments : m[f] = x

\* No moment of the running command holds anything newer than the files do.
IsPast(m) ==
  /\ \A f \in Dated : m[f] = Absent \/ (content[f] # Absent /\ m[f].version \in 0 .. edits)
  /\ \/ m["decisions"] = Absent
     \/ /\ content["decisions"] # Absent
        /\ \A c \in Clip : m["decisions"].of[c].revision \in 0 .. saves

MomentsSound ==
  /\ \A m \in moments : IsPast(m)
  /\ program.name # "idle" => \E m \in moments : \A f \in Lasting : m[f] = content[f]

ServerSound ==
  /\ DOMAIN server = {"queue", "loaded", "sending", "heard"}
  /\ server.queue # Absent => content["queue"] # Absent
  /\ server.sending => /\ server.queue # Absent
                       /\ content["audio"] = server.queue.names["audio"] \/ AudioIsNew
  /\ Genuine(server.heard, server.queue)
  /\ server.loaded # Absent => /\ IsDecisions(server.loaded)
                               /\ server.loaded.queue = server.queue

Commanded ==
  /\ DOMAIN program = {"name", "at", "seen"}
  /\ program.name \in PipelineCommands \cup {"idle"}
  /\ program.name # "idle" => program.at \in 1 .. Len(Script(program.name)) + 2

\* What a command has read, it read at a moment of its own.
Known ==
  program.name # "idle" =>
    LET S == Script(program.name) IN
    \A i \in DOMAIN S :
      i < program.at /\ S[i][2] \in Readings =>
        /\ S[i][1] \in DOMAIN program.seen
        /\ S[i][1] # "plan" => WasHeld(S[i][1], program.seen[S[i][1]])

\* From its pivot on there is a moment that held all that the command will name, unless
\* a file has changed that the command will look at again.
OneMoment ==
  program.name # "idle" =>
    LET S == Script(program.name) IN
    program.at > Pivot(program.name) =>
      \E m \in moments : \A f \in Named(program.name) :
        \/ m[f] = program.seen[f]
        \/ /\ content[f] # program.seen[f]
           /\ \A i \in DOMAIN S : Pivot(program.name) < i /\ i < program.at =>
                                    S[i] # <<f, "seen">>

\* The clips are cut from the source that was bound, or the source is not that one any more.
CutOnce ==
  program.name = "queue" =>
    /\ program.at > 7 => /\ "cut" \in DOMAIN program.seen
                         /\ \/ program.seen["cut"] = program.seen["source"]
                            \/ content["source"] # program.seen["source"]
    /\ program.at > 10 => program.seen["cut"] = program.seen["source"]

\* What the last round of export and dataset has found out about queue and decisions.
PairAgrees ==
  program.name \in {"export", "dataset"} =>
    LET seen == program.seen  b == PairBase(program.name) IN
    /\ program.at > 2 => seen["authorization"].allowed
    /\ program.at > b + 1 => IsQueue(seen["queue"])
    /\ program.at > b + 2 => seen["audio"] = seen["queue"].names["audio"]
    /\ program.at > b + 6 => seen["source"] = seen["queue"].names["source"]
    /\ program.at > b + 7 => seen["authorization"] = seen["queue"].names["authorization"]
    /\ program.at > b + 8 =>
         /\ "loaded" \in DOMAIN seen
         /\ seen["loaded"].queue = seen["queue"]
         /\ \A c \in Clip : Genuine(seen["loaded"].of[c].heard, seen["queue"])
    /\ program.at > b + 12 =>
         \A c \in Clip : seen["loaded"].of[c].heard \in {Absent, seen["queue"].names["audio"]}

\* What dataset has found out about its plan.
FollowsPlan ==
  program.name = "dataset" =>
    LET seen == program.seen  names == seen["plan"].names IN
    /\ program.at > 1 => DOMAIN names = PlanNames
    /\ program.at > 3 => WasHeld("source", names["source"])
    /\ program.at > 25 => /\ "cut" \in DOMAIN seen
                          /\ seen["cut"] = names["source"] \/ content["source"] # names["source"]
    /\ program.at > 26 => seen["cut"] = names["source"]
    /\ program.at > 29 => WasHeld("decisions", names["decisions"])
    /\ program.at > 38 => \/ seen["loaded"] = names["decisions"]
                          \/ content["decisions"] # names["decisions"]
    /\ program.at > 39 => \/ seen["loaded"] = names["decisions"]
                          \/ seen["decisions"] # names["decisions"]
    /\ program.at > 47 => EvidenceAgrees(seen)

PipelineIInv ==
  /\ FilesSound /\ MomentsSound /\ ServerSound /\ Commanded
  /\ Known /\ OneMoment /\ CutOnce /\ PairAgrees /\ FollowsPlan
  /\ DatasetIsReviewed

-----------------------------------------------------------------------------
(* Steps during which the command stands still: its accesses so far stay,   *)
(* the files that last do not get back a content they once had.            *)

SameAccesses ==
  /\ DOMAIN program' = DOMAIN program
  /\ program'.name = program.name /\ program'.seen = program.seen
  /\ \A k \in 0 .. Len(Script(program.name)) : k < program'.at <=> k < program.at

Growing ==
  /\ edits \in Nat /\ saves \in Nat /\ edits' \in Nat /\ saves' \in Nat
  /\ edits <= edits' /\ saves <= saves'
  /\ AudioIsNew => AudioIsNew'

FilesGoOn ==
  /\ Growing
  /\ moments \subseteq moments'
  /\ \A f \in Lasting : content'[f] = content[f] \/ ~WasHeld(f, content'[f])

(* What was read at a moment of the command was read at one of its moments later, too.      *)
LEMMA KnownGoesOn ==
  ASSUME Commanded, Known, SameAccesses, FilesGoOn
  PROVE  Known'
<1> DEFINE S == Script(program.name)
<1>1. CASE program.name = "idle"
  BY <1>1 DEF Known, SameAccesses
<1>2. CASE program.name # "idle"
  <2>1. S \in Seq(Accesses) /\ DOMAIN S = 1 .. Len(S) /\ Len(S) \in Nat
    BY <1>2, ScriptsLookTwice DEF Commanded
  <2>2. Script(program'.name) = S
    BY DEF SameAccesses
  <2>3. \A k \in 1 .. Len(S) : k < program'.at <=> k < program.at
    BY <2>1 DEF SameAccesses
  <2> HIDE DEF S
  <2>4. SUFFICES ASSUME NEW i \in DOMAIN S, i < program'.at, S[i][2] \in Readings
                 PROVE  /\ S[i][1] \in DOMAIN program'.seen
                        /\ S[i][1] # "plan" =>
                             \E m \in moments' : m[S[i][1]] = program'.seen[S[i][1]]
    BY <2>2 DEF Known, WasHeld
  <2>5. i < program.at
    BY <2>1, <2>3, <2>4
  <2>6. /\ S[i][1] \in DOMAIN program.seen
        /\ S[i][1] # "plan" => \E m \in moments : m[S[i][1]] = program.seen[S[i][1]]
    BY <1>2, <2>4, <2>5 DEF Known, S, WasHeld
  <2> QED
    BY <2>6 DEF SameAccesses, FilesGoOn
<1> QED
  BY <1>1, <1>2

(* What a command has read of a lasting file is either still there or gone for good. *)
LEMMA ReadingsStayGone ==
  ASSUME FilesGoOn, NEW f \in Lasting, NEW x, WasHeld(f, x), content[f] # x
  PROVE  content'[f] # x
  BY DEF FilesGoOn, WasHeld

(* Past its pivot a command has read all that it will name.                                 *)
LEMMA NamedWasHeld ==
  ASSUME Commanded, Known, program.name # "idle", program.at > Pivot(program.name),
         NEW f \in Named(program.name)
  PROVE  f \in Lasting /\ f \in DOMAIN program.seen /\ WasHeld(f, program.seen[f])
<1> DEFINE S == Script(program.name)
           p == Pivot(program.name)
<1>1. program.name \in PipelineCommands
  BY DEF Commanded
<1>2. /\ DOMAIN S = 1 .. Len(S) /\ Len(S) \in Nat /\ p \in Nat
      /\ f \in Lasting
      /\ \E i \in DOMAIN S : i <= p /\ S[i][1] = f /\ S[i][2] \in Readings
  BY <1>1, ScriptsLookTwice
<1>3. program.at \in Nat
  BY <1>1, <1>2 DEF Commanded, PipelineCommands
<1> HIDE DEF S, p
<1>4. PICK i \in DOMAIN S : i <= p /\ S[i][1] = f /\ S[i][2] \in Readings
  BY <1>2
<1>5. i < program.at
  BY <1>2, <1>3, <1>4 DEF p
<1>6. f # "plan"
  BY <1>2 DEF Lasting
<1> QED
  BY <1>2, <1>4, <1>5, <1>6 DEF Known, S

(* A file that is changed between two accesses of a command does not come back: the moment  *)
(* that agreed with the memory still does, or the file differs until it is looked at again. *)
LEMMA OneMomentGoesOn ==
  ASSUME Commanded, Known, OneMoment, SameAccesses, FilesGoOn
  PROVE  OneMoment'
<1> DEFINE S == Script(program.name)
           p == Pivot(program.name)
<1>1. CASE program.name = "idle"
  BY <1>1 DEF OneMoment, SameAccesses
<1>2. CASE program.name # "idle"
  <2>1. /\ DOMAIN S = 1 .. Len(S) /\ Len(S) \in Nat /\ p \in DOMAIN S
    BY <1>2, ScriptsLookTwice DEF Commanded
  <2>2. Script(program'.name) = S /\ Pivot(program'.name) = p
        /\ Named(program'.name) = Named(program.name)
    BY DEF SameAccesses
  <2>3. \A k \in 1 .. Len(S) : k < program'.at <=> k < program.at
    BY <2>1 DEF SameAccesses
  <2> HIDE DEF S, p
  <2>4. SUFFICES
          ASSUME program'.at > p
          PROVE  \E m \in moments' : \A f \in Named(program.name) :
                   \/ m[f] = program.seen[f]
                   \/ /\ content'[f] # program.seen[f]
                      /\ \A i \in DOMAIN S : p < i /\ i < program'.at => S[i] # <<f, "seen">>
    BY <1>2, <2>2 DEF OneMoment, SameAccesses
  <2>5. program.at > p
    BY <2>1, <2>3, <2>4
  <2>6. PICK m \in moments : \A f \in Named(program.name) :
                   \/ m[f] = program.seen[f]
                   \/ /\ content[f] # program.seen[f]
                      /\ \A i \in DOMAIN S : p < i /\ i < program.at => S[i] # <<f, "seen">>
    BY <1>2, <2>5 DEF OneMoment, S, p
  <2>7. m \in moments'
    BY DEF FilesGoOn
  <2>8. ASSUME NEW f \in Named(program.name), m[f] # program.seen[f]
        PROVE  /\ content'[f] # program.seen[f]
               /\ \A i \in DOMAIN S : p < i /\ i < program'.at => S[i] # <<f, "seen">>
    <3>1. f \in Lasting /\ WasHeld(f, program.seen[f])
      BY <1>2, <2>5, NamedWasHeld DEF p
    <3>2. content'[f] # program.seen[f]
      BY <2>6, <2>8, <3>1, ReadingsStayGone
    <3>3. \A i \in DOMAIN S : i < program'.at => i < program.at
      BY <2>1, <2>3
    <3> QED
      BY <2>6, <2>8, <3>2, <3>3
  <2> QED
    BY <2>7, <2>8
<1> QED
  BY <1>1, <1>2

(* A source that is replaced after the cut is not the bound one when it is looked at again. *)
LEMMA CutGoesOn ==
  ASSUME Commanded, Known, CutOnce, SameAccesses, FilesGoOn
  PROVE  CutOnce'
<1> SUFFICES ASSUME program.name = "queue"
             PROVE  /\ program'.at > 7 => /\ "cut" \in DOMAIN program.seen
                                          /\ \/ program.seen["cut"] = program.seen["source"]
                                             \/ content'["source"] # program.seen["source"]
                    /\ program'.at > 10 => program.seen["cut"] = program.seen["source"]
  BY DEF CutOnce, SameAccesses
<1>1. Script(program.name) = QueueScript /\ Len(QueueScript) = 11
  BY QueueSteps DEF Script
<1>2. (program'.at > 7 <=> program.at > 7) /\ (program'.at > 10 <=> program.at > 10)
  <2>1. \A k \in 0 .. 11 : k < program'.at <=> k < program.at
    BY <1>1 DEF SameAccesses
  <2>2. 7 \in 0 .. 11 /\ 10 \in 0 .. 11
    OBVIOUS
  <2> QED
    BY <2>1, <2>2
<1>3. ASSUME program.at > 7
      PROVE  "source" \in Lasting /\ WasHeld("source", program.seen["source"])
  <2>1. Pivot(program.name) = 4 /\ "source" \in Named(program.name)
    BY DEF Pivot, Named
  <2>2. program.at \in Nat
    BY <1>1 DEF Commanded
  <2>3. program.at > Pivot(program.name) /\ program.name # "idle"
    BY <1>3, <2>1, <2>2
  <2> QED
    BY <2>1, <2>3, NamedWasHeld
<1>4. program.at > 7 /\ content["source"] # program.seen["source"]
        => content'["source"] # program.seen["source"]
  BY <1>3, ReadingsStayGone
<1> QED
  BY <1>2, <1>4 DEF CutOnce

(* Versions, queues, what was heard and decisions stay sound while the counters grow.       *)
LEMMA StampGoesOn == ASSUME Growing, NEW x, Stamped(x) PROVE Stamped(x)'
  BY DEF Growing, Stamped

(* A queue stays one.                                                                       *)
LEMMA QueueGoesOn == ASSUME Growing, NEW q, IsQueue(q) PROVE IsQueue(q)'
  BY StampGoesOn DEF IsQueue

(* What was heard stays the queue's audio, or audio changed after the queue was built.      *)
LEMMA GenuineGoesOn ==
  ASSUME Growing, NEW heard, NEW q, Genuine(heard, q) PROVE Genuine(heard, q)'
  BY DEF Growing, Genuine

(* Decisions stay sound.                                                                    *)
LEMMA DecisionsGoOn == ASSUME Growing, NEW d, IsDecisions(d) PROVE IsDecisions(d)'
<1>1. ASSUME NEW c \in Clip PROVE d.of[c].revision \in 0 .. saves' /\ Genuine(d.of[c].heard, d.queue)'
  <2>1. d.of[c].revision \in 0 .. saves /\ Genuine(d.of[c].heard, d.queue)
    BY DEF IsDecisions
  <2> QED
    BY <2>1, GenuineGoesOn DEF Growing
<1> QED
  BY <1>1 DEF IsDecisions

(* What the last round has found out is about the command's memory, which stands still.     *)
LEMMA PairGoesOn ==
  ASSUME Commanded, PairAgrees, SameAccesses, FilesGoOn
  PROVE  PairAgrees'
<1> DEFINE b == PairBase(program.name)
           seen == program.seen
<1> SUFFICES ASSUME program.name \in {"export", "dataset"}
             PROVE  PairAgrees'
  BY DEF PairAgrees, SameAccesses
<1>1. b \in {2, 29} /\ Len(Script(program.name)) >= b + 17 /\ Len(Script(program.name)) \in Nat
  BY LastReads
<1>2. PairBase(program'.name) = b /\ program'.seen = seen /\ program'.name = program.name
  BY DEF SameAccesses
<1> HIDE DEF b
<1>3. /\ program'.at > 2 <=> program.at > 2
      /\ program'.at > b + 1 <=> program.at > b + 1
      /\ program'.at > b + 2 <=> program.at > b + 2
      /\ program'.at > b + 6 <=> program.at > b + 6
      /\ program'.at > b + 7 <=> program.at > b + 7
      /\ program'.at > b + 8 <=> program.at > b + 8
      /\ program'.at > b + 12 <=> program.at > b + 12
  <2>1. \A k \in {2, b + 1, b + 2, b + 6, b + 7, b + 8, b + 12} :
          k \in 0 .. Len(Script(program.name))
    BY <1>1
  <2>2. \A k \in {2, b + 1, b + 2, b + 6, b + 7, b + 8, b + 12} :
          k < program'.at <=> k < program.at
    BY <2>1 DEF SameAccesses
  <2> QED
    BY <2>2
<1> HIDE DEF seen
<1>4. /\ program.at > 2 => seen["authorization"].allowed
      /\ program.at > b + 1 => IsQueue(seen["queue"])
      /\ program.at > b + 2 => seen["audio"] = seen["queue"].names["audio"]
      /\ program.at > b + 6 => seen["source"] = seen["queue"].names["source"]
      /\ program.at > b + 7 => seen["authorization"] = seen["queue"].names["authorization"]
      /\ program.at > b + 8 =>
           /\ "loaded" \in DOMAIN seen
           /\ seen["loaded"].queue = seen["queue"]
           /\ \A c \in Clip : Genuine(seen["loaded"].of[c].heard, seen["queue"])
      /\ program.at > b + 12 =>
           \A c \in Clip : seen["loaded"].of[c].heard \in {Absent, seen["queue"].names["audio"]}
  BY DEF PairAgrees, b, seen
<1>5. program.at > b + 1 => IsQueue(program.seen["queue"])'
  <2>1. ASSUME NEW q, IsQueue(q) PROVE IsQueue(q)'
    BY <2>1, QueueGoesOn DEF FilesGoOn
  <2>2. \A q : IsQueue(q) => /\ "version" \in DOMAIN q /\ q.version \in 0 .. edits'
                            /\ "names" \in DOMAIN q
                            /\ q.names["audio"].cut = q.names["source"]
                            /\ q.names["audio"].version = 0
    BY <2>1 DEF IsQueue, Stamped
  <2> QED
    BY <1>2, <1>4, <2>2 DEF IsQueue, Stamped
<1>6. program.at > b + 8 =>
        \A c \in Clip : Genuine(program.seen["loaded"].of[c].heard, program.seen["queue"])'
  <2>1. ASSUME NEW heard, NEW q, Genuine(heard, q) PROVE Genuine(heard, q)'
    BY <2>1, GenuineGoesOn DEF FilesGoOn
  <2>2. \A heard, q : Genuine(heard, q) =>
          heard = Absent \/ heard = q.names["audio"] \/ AudioIsNew'
    BY <2>1 DEF Genuine
  <2> QED
    BY <1>2, <1>4, <2>2 DEF Genuine
<1>7. /\ program'.at > 2 => program'.seen["authorization"].allowed
      /\ program'.at > b + 2 => program'.seen["audio"] = program'.seen["queue"].names["audio"]
      /\ program'.at > b + 6 => program'.seen["source"] = program'.seen["queue"].names["source"]
      /\ program'.at > b + 7 =>
           program'.seen["authorization"] = program'.seen["queue"].names["authorization"]
      /\ program'.at > b + 8 => "loaded" \in DOMAIN program'.seen
      /\ program'.at > b + 8 => program'.seen["loaded"].queue = program'.seen["queue"]
      /\ program'.at > b + 12 =>
           \A c \in Clip : program'.seen["loaded"].of[c].heard
                              \in {Absent, program'.seen["queue"].names["audio"]}
  BY <1>2, <1>3, <1>4
<1> QED
  BY <1>2, <1>3, <1>5, <1>6, <1>7 DEF PairAgrees

(* So is what dataset has found out about its plan; a file that differs from the plan's     *)
(* name for it does not get that content back.                                              *)
LEMMA PlanGoesOn ==
  ASSUME Commanded, FollowsPlan, SameAccesses, FilesGoOn
  PROVE  FollowsPlan'
<1> DEFINE seen == program.seen
           names == seen["plan"].names
<1> SUFFICES ASSUME program.name = "dataset"
             PROVE  FollowsPlan'
  BY DEF FollowsPlan, SameAccesses
<1>1. Script(program.name) = DatasetScript /\ Len(DatasetScript) = 47
  BY DatasetSteps DEF Script
<1>2. program'.seen = seen /\ program'.name = program.name
  BY DEF SameAccesses
<1>3. \A k \in {1, 3, 25, 26, 29, 38, 39, 47} : program'.at > k <=> program.at > k
  <2>1. \A k \in 0 .. 47 : k < program'.at <=> k < program.at
    BY <1>1 DEF SameAccesses
  <2>2. \A k \in {1, 3, 25, 26, 29, 38, 39, 47} : k \in 0 .. 47
    OBVIOUS
  <2> QED
    BY <2>1, <2>2
<1>4. /\ program.at > 1 => DOMAIN names = PlanNames
      /\ program.at > 3 => WasHeld("source", names["source"])
      /\ program.at > 25 => /\ "cut" \in DOMAIN seen
                            /\ seen["cut"] = names["source"] \/ content["source"] # names["source"]
      /\ program.at > 26 => seen["cut"] = names["source"]
      /\ program.at > 29 => WasHeld("decisions", names["decisions"])
      /\ program.at > 38 => \/ seen["loaded"] = names["decisions"]
                            \/ content["decisions"] # names["decisions"]
      /\ program.at > 39 => \/ seen["loaded"] = names["decisions"]
                            \/ seen["decisions"] # names["decisions"]
      /\ program.at > 47 => EvidenceAgrees(seen)
  BY DEF FollowsPlan
<1>5. "source" \in Lasting /\ "decisions" \in Lasting
  BY DEF Lasting, FileNames
<1> HIDE DEF seen, names
<1>6. program.at > 3 => \E m \in moments' : m["source"] = names["source"]
  BY <1>4 DEF FilesGoOn, WasHeld
<1>7. program.at > 29 => \E m \in moments' : m["decisions"] = names["decisions"]
  BY <1>4 DEF FilesGoOn, WasHeld
<1>8. program.at > 25 => /\ "cut" \in DOMAIN seen
                         /\ seen["cut"] = names["source"] \/ content'["source"] # names["source"]
  <2>1. program.at > 25 => program.at > 3
    BY <1>1 DEF Commanded
  <2> QED
    BY <1>4, <1>5, <2>1, ReadingsStayGone
<1>9. program.at > 38 => \/ seen["loaded"] = names["decisions"]
                         \/ content'["decisions"] # names["decisions"]
  <2>1. program.at > 38 => program.at > 29
    BY <1>1 DEF Commanded
  <2> QED
    BY <1>4, <1>5, <2>1, ReadingsStayGone
<1>10. /\ program'.at > 1 <=> program.at > 1
       /\ program'.at > 3 <=> program.at > 3
       /\ program'.at > 25 <=> program.at > 25
       /\ program'.at > 26 <=> program.at > 26
       /\ program'.at > 29 <=> program.at > 29
       /\ program'.at > 38 <=> program.at > 38
       /\ program'.at > 39 <=> program.at > 39
       /\ program'.at > 47 <=> program.at > 47
  BY <1>3
<1> QED
  BY <1>2, <1>4, <1>6, <1>7, <1>8, <1>9, <1>10 DEF FollowsPlan, WasHeld, seen, names,
     EvidenceAgrees, Approved

-----------------------------------------------------------------------------
(* One access of the running command.                                      *)

(* What an access does, whatever it is an access of.                                        *)
LEMMA AccessIs ==
  ASSUME Commanded, Access, NEW S, S = Script(program.name), NEW at, at = program.at
  PROVE  /\ program.name \in PipelineCommands /\ at \in DOMAIN S /\ at \in Nat
         /\ DOMAIN S = 1 .. Len(S) /\ Len(S) \in Nat
         /\ S[at][1] \in FileNames /\ S[at][2] \in Hows /\ S[at] = <<S[at][1], S[at][2]>>
         /\ Accepts(program.seen, S[at][1], S[at][2])
         /\ DOMAIN program' = DOMAIN program /\ program'.name = program.name
         /\ program'.at = at + 1
         /\ program'.seen = Remember(program.seen, S[at][1], S[at][2])
         /\ UNCHANGED <<content, server, dataset, moments, edits, saves>>
<1>1. program.name \in PipelineCommands /\ at \in DOMAIN S
  BY DEF Access, Commanded
<1>2. /\ DOMAIN S = 1 .. Len(S) /\ Len(S) \in Nat
      /\ S[at][1] \in FileNames /\ S[at][2] \in Hows /\ S[at] = <<S[at][1], S[at][2]>>
  BY <1>1, ScriptsLookTwice
<1>3. at \in Nat
  BY <1>1, <1>2
<1>4. /\ Accepts(program.seen, S[at][1], S[at][2])
      /\ program' = [program EXCEPT !.at = @ + 1,
                                    !.seen = Remember(program.seen, S[at][1], S[at][2])]
      /\ UNCHANGED <<content, server, dataset, moments, edits, saves>>
  BY DEF Access
<1>5. DOMAIN program = {"name", "at", "seen"}
  BY DEF Commanded
<1> QED
  BY <1>1, <1>2, <1>3, <1>4, <1>5

(* What an access adds to the command's memory, and what it leaves there. *)
LEMMA Remembers ==
  ASSUME NEW seen, NEW f \in FileNames, NEW how \in Hows, NEW new, new = Remember(seen, f, how)
  PROVE  /\ how \in Readings => f \in DOMAIN new /\ new[f] = content[f]
         /\ how = "cut" => "cut" \in DOMAIN new /\ new["cut"] = content[f]
         /\ how = "load" => "loaded" \in DOMAIN new /\ new["loaded"] = content[f]
         /\ \A g \in DOMAIN seen : g \in DOMAIN new
         /\ \A g \in DOMAIN seen :
              \/ new[g] = seen[g] \/ (g = f /\ how \in Readings)
              \/ (g = "cut" /\ how = "cut") \/ (g = "loaded" /\ how = "load")
<1>1. CASE how \in Readings
  <2>1. new = With(seen, f, content[f])
    BY <1>1 DEF Remember, Readings
  <2> QED
    BY <1>1, <2>1 DEF With, Readings
<1>2. CASE how = "cut"
  <2>1. new = With(seen, "cut", content[f])
    BY <1>2 DEF Remember
  <2> QED
    BY <1>2, <2>1 DEF With, Readings
<1>3. CASE how = "load"
  <2>1. new = With(seen, "loaded", content[f])
    BY <1>3 DEF Remember
  <2> QED
    BY <1>3, <2>1 DEF With, Readings
<1>4. CASE how \in {"heard", "check"}
  <2>1. new = seen
    BY <1>4 DEF Remember
  <2> QED
    BY <1>4, <2>1 DEF Readings
<1> QED
  BY <1>1, <1>2, <1>3, <1>4 DEF Hows, Readings

(* A reading puts the content of the file into the memory, ...                              *)
LEMMA ReadingRemembers ==
  ASSUME NEW seen, NEW f, NEW how \in Readings
  PROVE  f \in DOMAIN Remember(seen, f, how) /\ Remember(seen, f, how)[f] = content[f]
<1>1. Remember(seen, f, how) = With(seen, f, content[f])
  BY DEF Remember, Readings
<1> QED
  BY <1>1 DEF With

(* ... cutting puts the source there as what was cut, ...                                   *)
LEMMA CutRemembers ==
  ASSUME NEW seen, NEW f
  PROVE  "cut" \in DOMAIN Remember(seen, f, "cut") /\ Remember(seen, f, "cut")["cut"] = content[f]
  BY DEF Remember, With

(* ... and loading puts the decisions there as what was loaded.                             *)
LEMMA LoadRemembers ==
  ASSUME NEW seen, NEW f
  PROVE  /\ "loaded" \in DOMAIN Remember(seen, f, "load")
         /\ Remember(seen, f, "load")["loaded"] = content[f]
  BY DEF Remember, With

(* An access that only compares leaves the whole memory as it is. *)
LEMMA LooksKeep ==
  ASSUME Commanded, Access, NEW S, S = Script(program.name), NEW at, at = program.at,
         NEW g \in DOMAIN program.seen,
         S[at][1] = g => S[at][2] \notin {"bind", "queue", "plan"},
         g = "cut" => S[at][2] # "cut", g = "loaded" => S[at][2] # "load"
  PROVE  g \in DOMAIN program'.seen /\ program'.seen[g] = program.seen[g]
<1> DEFINE f == S[at][1]
           how == S[at][2]
<1>1. /\ f \in FileNames /\ how \in Hows /\ Accepts(program.seen, f, how)
      /\ program'.seen = Remember(program.seen, f, how)
  BY AccessIs
<1>2. (how = "seen" /\ f = g) => content[f] = program.seen[f]
  BY <1>1 DEF Accepts
<1> HIDE DEF f, how
<1>3. /\ how \in Readings => program'.seen[f] = content[f]
      /\ g \in DOMAIN program'.seen
      /\ \/ program'.seen[g] = program.seen[g] \/ (g = f /\ how \in Readings)
         \/ (g = "cut" /\ how = "cut") \/ (g = "loaded" /\ how = "load")
  BY <1>1, Remembers
<1> QED
  BY <1>2, <1>3 DEF f, how, Readings

(* A file that was read is in the memory as it was at a moment of the command.              *)
LEMMA ReadIsKnown ==
  ASSUME Commanded, Known, program.name # "idle", NEW i \in DOMAIN Script(program.name),
         i < program.at, NEW g, NEW how \in Readings,
         Script(program.name)[i] = <<g, how>>
  PROVE  g \in DOMAIN program.seen /\ (g # "plan" => WasHeld(g, program.seen[g]))
<1>1. Script(program.name)[i][1] = g /\ Script(program.name)[i][2] = how
  OBVIOUS
<1> QED
  BY <1>1 DEF Known

(* The files as they are now are a moment of the command.                                   *)
LEMMA NowIsHeld ==
  ASSUME MomentsSound, program.name # "idle"
  PROVE  \E m \in moments : \A f \in Lasting : m[f] = content[f]
  BY DEF MomentsSound

(* Access keeps Known: what it reads, it reads now.                                         *)
LEMMA KnownAccess ==
  ASSUME MomentsSound, Commanded, Known, Access
  PROVE  Known'
<1> DEFINE S == Script(program.name)
           at == program.at
           f == S[at][1]
           how == S[at][2]
<1>1. /\ program.name \in PipelineCommands /\ at \in DOMAIN S /\ at \in Nat
      /\ DOMAIN S = 1 .. Len(S) /\ Len(S) \in Nat
      /\ f \in FileNames /\ how \in Hows /\ program'.name = program.name /\ program'.at = at + 1
      /\ program'.seen = Remember(program.seen, f, how) /\ moments' = moments
  BY AccessIs
<1>2. program.name # "idle"
  BY DEF Access
<1>3. Script(program'.name) = S
  BY <1>1
<1>4. \A i \in DOMAIN S : i < at /\ S[i][2] \in Readings =>
        S[i][1] \in DOMAIN program.seen /\ (S[i][1] # "plan" => WasHeld(S[i][1], program.seen[S[i][1]]))
  BY <1>2 DEF Known
<1>5. \A i \in DOMAIN S : S[i][1] \in FileNames
  BY <1>1, ScriptsLookTwice
<1> HIDE DEF S, at, f, how
<1>6. SUFFICES ASSUME NEW i \in DOMAIN S, i < at + 1, S[i][2] \in Readings
               PROVE  /\ S[i][1] \in DOMAIN program'.seen
                      /\ S[i][1] # "plan" => \E m \in moments : m[S[i][1]] = program'.seen[S[i][1]]
  BY <1>1, <1>3 DEF Known, WasHeld
<1> DEFINE g == S[i][1]
<1>7. \A h \in FileNames : h # "plan" => WasHeld(h, content[h])
  BY <1>2, NowIsHeld DEF Lasting, WasHeld
<1>8. CASE i = at
  <2>1. g = f /\ how \in Readings
    BY <1>6, <1>8 DEF f, how
  <2> HIDE DEF g
  <2>2. f \in DOMAIN program'.seen /\ program'.seen[f] = content[f]
    <3>1. f \in FileNames /\ how \in Hows /\ program'.seen = Remember(program.seen, f, how)
      BY <1>1
    <3> QED
      BY <2>1, <3>1, ReadingRemembers
  <2>3. f # "plan" => WasHeld(f, content[f])
    BY <1>1, <1>7
  <2> QED
    BY <2>1, <2>2, <2>3 DEF g, WasHeld
<1>9. CASE i # at
  <2>1. i < at
    BY <1>1, <1>6, <1>9
  <2>2. g \in DOMAIN program.seen /\ (g # "plan" => WasHeld(g, program.seen[g]))
    BY <1>4, <1>6, <2>1
  <2>3. g \in FileNames /\ g # "cut" /\ g # "loaded"
    BY <1>5 DEF FileNames
  <2> HIDE DEF g
  <2>4. /\ g \in DOMAIN program'.seen
        /\ program'.seen[g] = program.seen[g] \/ (g = f /\ program'.seen[f] = content[f])
    BY <1>1, <2>2, <2>3, Remembers
  <2> QED
    BY <1>7, <2>2, <2>3, <2>4 DEF g, WasHeld
<1> QED
  BY <1>8, <1>9

(* Access keeps OneMoment: at the pivot everything was read before, and what has changed since *)
(* is looked at again; from then on a comparison that fails ends the command.               *)
LEMMA OneMomentAccess ==
  ASSUME MomentsSound, Commanded, Known, OneMoment, Access
  PROVE  OneMoment'
<1> DEFINE S == Script(program.name)
           at == program.at
           p == Pivot(program.name)
           N == Named(program.name)
           f == S[at][1]
           how == S[at][2]
           seen == program.seen
           new == program'.seen
<1>1. /\ program.name \in PipelineCommands /\ at \in DOMAIN S /\ at \in Nat
      /\ DOMAIN S = 1 .. Len(S) /\ Len(S) \in Nat
      /\ f \in FileNames /\ how \in Hows /\ S[at] = <<f, how>>
      /\ program'.name = program.name /\ program'.at = at + 1
      /\ new = Remember(seen, f, how) /\ moments' = moments /\ content' = content
      /\ Accepts(seen, f, how)
  BY AccessIs
<1>2. program.name # "idle"
  BY DEF Access
<1>3. Script(program'.name) = S /\ Pivot(program'.name) = p /\ Named(program'.name) = N
  BY <1>1
<1>4. /\ p \in DOMAIN S /\ S[p][2] = "bind" /\ p \in Nat
      /\ \A i \in DOMAIN S : p < i => S[i][2] \in {"seen", "cut", "heard", "check"}
      /\ \A g \in N : /\ g \in Lasting
                      /\ \E i \in DOMAIN S : i <= p /\ S[i][1] = g /\ S[i][2] \in Readings
  BY <1>1, ScriptsLookTwice
<1>5. at > p => \E m \in moments : \A g \in N :
                  \/ m[g] = seen[g]
                  \/ /\ content[g] # seen[g]
                     /\ \A i \in DOMAIN S : p < i /\ i < at => S[i] # <<g, "seen">>
  BY <1>2 DEF OneMoment
<1>6. at > p => \A g \in N : g \in DOMAIN seen
  BY <1>2, NamedWasHeld
<1>7. SUFFICES ASSUME at + 1 > p
               PROVE  \E m \in moments : \A g \in N :
                        \/ m[g] = new[g]
                        \/ /\ content[g] # new[g]
                           /\ \A i \in DOMAIN S : p < i /\ i < at + 1 => S[i] # <<g, "seen">>
  <2> HIDE DEF S, at, p, N, f, how, seen
  <2> QED
    BY <1>1, <1>3 DEF OneMoment
<1> HIDE DEF S, at, p, N, f, how, seen, new
<1>8. CASE at = p
  <2>1. PICK m \in moments : \A g \in Lasting : m[g] = content[g]
    BY <1>2, NowIsHeld
  <2>2. \A i \in DOMAIN S : ~(p < i /\ i < at + 1)
    BY <1>1, <1>4, <1>8
  <2>3. \A g \in N : m[g] = content[g]
    BY <1>4, <2>1
  <2> QED
    BY <2>2, <2>3
<1>9. CASE at > p
  <2>1. PICK m \in moments : \A g \in N :
                  \/ m[g] = seen[g]
                  \/ /\ content[g] # seen[g]
                     /\ \A i \in DOMAIN S : p < i /\ i < at => S[i] # <<g, "seen">>
    BY <1>5, <1>9
  <2>2. how \in {"seen", "cut", "heard", "check"}
    BY <1>1, <1>4, <1>9 DEF how
  <2>3. how = "seen" => content[f] = seen[f]
    BY <1>1 DEF Accepts
  <2>4. ASSUME NEW g \in N PROVE new[g] = seen[g]
    <3>1. g \in DOMAIN seen /\ g # "cut" /\ g # "loaded"
      BY <1>4, <1>6, <1>9 DEF Lasting, FileNames
    <3>4. f \in FileNames /\ how \in Hows /\ new = Remember(seen, f, how)
      BY <1>1
    <3>2. how \in Readings => new[f] = content[f]
      BY <3>4, ReadingRemembers
    <3>3. new[g] = seen[g] \/ (g = f /\ how \in Readings)
      BY <3>1, <3>4, Remembers
    <3> QED
      BY <2>2, <2>3, <3>2, <3>3 DEF Readings
  <2>5. ASSUME NEW g \in N, content[g] # seen[g],
               \A i \in DOMAIN S : p < i /\ i < at => S[i] # <<g, "seen">>
        PROVE  \A i \in DOMAIN S : p < i /\ i < at + 1 => S[i] # <<g, "seen">>
    <3>1. S[at] # <<g, "seen">>
      BY <1>1, <2>3, <2>5
    <3>2. \A i \in DOMAIN S : i < at + 1 => i = at \/ i < at
      BY <1>1
    <3> QED
      BY <2>5, <3>1, <3>2
  <2> QED
    BY <2>1, <2>4, <2>5
<1>10. at = p \/ at > p
  BY <1>1, <1>4, <1>7
<1> QED
  BY <1>8, <1>9, <1>10

(* Access keeps CutOnce: the source is cut and looked at again, and did not change in between. *)
LEMMA CutAccess ==
  ASSUME Commanded, Known, CutOnce, Access
  PROVE  CutOnce'
<1> DEFINE S == Script(program.name)
           at == program.at
           seen == program.seen
           new == program'.seen
<1>1. /\ at \in Nat /\ at \in DOMAIN S /\ DOMAIN S = 1 .. Len(S)
      /\ program'.name = program.name /\ program'.at = at + 1 /\ content' = content
      /\ new = Remember(seen, S[at][1], S[at][2]) /\ Accepts(seen, S[at][1], S[at][2])
      /\ S[at][1] \in FileNames /\ S[at][2] \in Hows
  BY AccessIs
<1> SUFFICES ASSUME program.name = "queue" PROVE CutOnce'
  BY <1>1 DEF CutOnce
<1>2. S = QueueScript
  BY DEF Script
<1>3. at > 3 => "source" \in DOMAIN seen
  <2>1. S[3] = <<"source", "bind">> /\ 3 \in DOMAIN S
    BY <1>1, <1>2, QueueSteps
  <2> QED
    BY <1>1, <2>1, ReadIsKnown DEF Readings
<1>4. /\ at > 7 => /\ "cut" \in DOMAIN seen
                   /\ seen["cut"] = seen["source"] \/ content["source"] # seen["source"]
      /\ at > 10 => seen["cut"] = seen["source"]
  BY DEF CutOnce
<1> HIDE DEF at, seen, new
<1>5. CASE at < 7
  <2>1. ~(at + 1 > 7) /\ ~(at + 1 > 10)
    BY <1>1, <1>5
  <2> QED
    BY <1>1, <2>1 DEF CutOnce
<1>6. CASE at = 7
  <2>1. S[at][1] = "source" /\ S[at][2] = "cut"
    <3>1. S[7] = <<"source", "cut">>
      BY <1>2, QueueSteps
    <3> HIDE DEF S
    <3> QED
      BY <1>6, <3>1
  <2>2. "cut" \in DOMAIN new /\ new["cut"] = content["source"]
    BY <1>1, <2>1, CutRemembers
  <2>3. new["source"] = seen["source"]
    <3>1. "source" \in DOMAIN seen
      BY <1>3, <1>6
    <3> QED
      BY <1>1, <2>1, <3>1, Remembers DEF Readings
  <2>4. ~(at + 1 > 10)
    BY <1>6
  <2> QED
    BY <1>1, <2>2, <2>3, <2>4 DEF CutOnce, new
<1>7. CASE at > 7
  <2>1. at \in {8, 9, 10, 11}
    <3>1. Len(S) = 11
      BY <1>2, QueueSteps
    <3> HIDE DEF S
    <3> QED
      BY <1>1, <1>7, <3>1
  <2>2. S[at][2] = "seen"
    BY <1>2, <2>1, QueueSteps
  <2>3. "cut" \in DOMAIN seen /\ "source" \in DOMAIN seen
    BY <1>1, <1>3, <1>4, <1>7
  <2>4. "cut" \in DOMAIN new /\ new["cut"] = seen["cut"] /\ new["source"] = seen["source"]
    BY <2>2, <2>3, LooksKeep DEF at, seen, new
  <2>5. at = 10 => content["source"] = seen["source"]
    <3>1. at = 10 => S[at][1] = "source"
      BY <1>2, QueueSteps
    <3> QED
      BY <1>1, <2>2, <3>1 DEF Accepts
  <2>6. at + 1 > 10 => at = 10 \/ at > 10
    BY <1>1
  <2>7. at + 1 > 10 => new["cut"] = new["source"]
    BY <1>4, <1>7, <2>4, <2>5, <2>6
  <2> QED
    BY <1>1, <1>4, <1>7, <2>4, <2>7 DEF CutOnce, new
<1> QED
  BY <1>1, <1>5, <1>6, <1>7

(* After a file was compared with what the queue names, it is only looked at again. *)
LEMMA LastRoundKeeps ==
  ASSUME NEW name \in {"export", "dataset"},
         NEW i \in 1 .. Len(Script(name)), i > PairBase(name) + 1
  PROVE  LET S == Script(name)  b == PairBase(name) IN
         /\ S[i][1] = "queue" => S[i][2] = "seen"
         /\ i > b + 2 /\ S[i][1] = "audio" => S[i][2] = "seen"
         /\ i > b + 6 /\ S[i][1] = "source" => S[i][2] = "seen"
         /\ i > b + 7 /\ S[i][1] = "authorization" => S[i][2] = "seen"
         /\ i > b + 9 => S[i][2] # "load"
         /\ i > b + 10 => S[i][2] \in {"seen", "check"}
<1> DEFINE b == PairBase(name)
           S == Script(name)
<1> DEFINE Goal(j) ==
         /\ S[j][1] = "queue" => S[j][2] = "seen"
         /\ j > b + 2 /\ S[j][1] = "audio" => S[j][2] = "seen"
         /\ j > b + 6 /\ S[j][1] = "source" => S[j][2] = "seen"
         /\ j > b + 7 /\ S[j][1] = "authorization" => S[j][2] = "seen"
         /\ j > b + 9 => S[j][2] # "load"
         /\ j > b + 10 => S[j][2] \in {"seen", "check"}
<1>1. /\ b \in {2, 29} /\ Len(S) \in Nat
      /\ S[b + 2] = <<"audio", "queue">>
      /\ S[b + 3] = <<"queue", "seen">> /\ S[b + 4] = <<"transcript", "queue">>
      /\ S[b + 5] = <<"evidence", "queue">> /\ S[b + 6] = <<"source", "queue">>
      /\ S[b + 7] = <<"authorization", "queue">> /\ S[b + 8] = <<"decisions", "load">>
      /\ S[b + 9] = <<"decisions", "load">> /\ S[b + 10] = <<"decisions", "bind">>
  BY LastReads
<1>2. /\ S[b + 11] = <<"queue", "seen">> /\ S[b + 12] = <<"audio", "seen">>
      /\ S[b + 13] = <<"transcript", "seen">> /\ S[b + 14] = <<"evidence", "seen">>
      /\ S[b + 15] = <<"source", "seen">> /\ S[b + 16] = <<"authorization", "seen">>
      /\ S[b + 17] = <<"decisions", "seen">>
      /\ \A j \in b + 18 .. Len(S) :
              S[j] \in {<<"queue", "seen">>, <<"decisions", "seen">>,
                        <<"authorization", "seen">>, <<"plan", "check">>}
  BY LastLooks
<1>3. i \in Nat /\ i <= Len(S) /\ i > b + 1 /\ b \in Nat
  <2>1. Len(S) \in Nat /\ b \in {2, 29}
    BY <1>1, Zenon
  <2>2. i \in 1 .. Len(S) /\ i > b + 1
    OBVIOUS
  <2> HIDE DEF b, S
  <2> QED
    BY <2>1, <2>2
<1> HIDE DEF b, S
<1>4. \/ i \in {b + 2, b + 3, b + 4, b + 5, b + 6} \/ i \in {b + 7, b + 8, b + 9, b + 10}
      \/ i \in {b + 11, b + 12, b + 13, b + 14, b + 15, b + 16, b + 17} \/ i \in b + 18 .. Len(S)
  BY <1>1, <1>3
<1>5. Goal(b + 2) /\ Goal(b + 3) /\ Goal(b + 4) /\ Goal(b + 5) /\ Goal(b + 6)
  BY <1>1
<1>6. Goal(b + 7) /\ Goal(b + 8) /\ Goal(b + 9) /\ Goal(b + 10)
  BY <1>1
<1>7. /\ Goal(b + 11) /\ Goal(b + 12) /\ Goal(b + 13) /\ Goal(b + 14) /\ Goal(b + 15)
      /\ Goal(b + 16) /\ Goal(b + 17)
  BY <1>2
<1>8. ASSUME NEW j \in b + 18 .. Len(S) PROVE Goal(j)
  <2>1. S[j] \in {<<"queue", "seen">>, <<"decisions", "seen">>,
                  <<"authorization", "seen">>, <<"plan", "check">>}
    BY <1>2
  <2> QED
    BY <2>1
<1> HIDE DEF Goal
<1>9. Goal(i)
  BY <1>4, <1>5, <1>6, <1>7, <1>8
<1> QED
  BY <1>9 DEF Goal, b, S

(* Access keeps PairAgrees, comparison by comparison of the last round.                     *)
LEMMA PairAccess ==
  ASSUME FilesSound, Commanded, Known, PairAgrees, Access
  PROVE  PairAgrees'
<1> DEFINE S == Script(program.name)
           at == program.at
           b == PairBase(program.name)
           f == S[at][1]
           how == S[at][2]
           seen == program.seen
           new == program'.seen
<1>1. /\ at \in Nat /\ at \in DOMAIN S /\ DOMAIN S = 1 .. Len(S) /\ Len(S) \in Nat
      /\ program'.name = program.name /\ program'.at = at + 1
      /\ content' = content /\ edits' = edits
      /\ new = Remember(seen, f, how) /\ Accepts(seen, f, how)
      /\ f \in FileNames /\ how \in Hows
  BY AccessIs
<1> SUFFICES ASSUME program.name \in {"export", "dataset"} PROVE PairAgrees'
  BY <1>1 DEF PairAgrees
<1>2. /\ b \in Nat /\ 2 <= b /\ Len(S) >= b + 17
      /\ S[b + 1] = <<"queue", "bind">> /\ S[b + 2] = <<"audio", "queue">>
      /\ S[b + 6] = <<"source", "queue">>
      /\ S[b + 7] = <<"authorization", "queue">> /\ S[b + 8] = <<"decisions", "load">>
      /\ S[b + 9] = <<"decisions", "load">>
  <2>1. /\ b \in {2, 29} /\ Len(S) >= b + 17
        /\ S[b + 1] = <<"queue", "bind">> /\ S[b + 2] = <<"audio", "queue">>
        /\ S[b + 6] = <<"source", "queue">>
        /\ S[b + 7] = <<"authorization", "queue">> /\ S[b + 8] = <<"decisions", "load">>
        /\ S[b + 9] = <<"decisions", "load">>
    BY LastReads
  <2> HIDE DEF b, S
  <2>2. b \in Nat /\ 2 <= b
    BY <2>1
  <2> QED
    BY <2>1, <2>2, Zenon
<1>3. S[b + 12] = <<"audio", "seen">>
  BY LastLooks
<1>4. S[2][1] = "authorization" /\ S[2][2] \in Readings
  <2>1. CASE program.name = "export"
    <3>1. S = ExportScript
      BY <2>1 DEF Script
    <3>2. ExportScript[2] = <<"authorization", "seen">>
      BY ExportSteps
    <3> HIDE DEF S
    <3> QED
      BY <3>1, <3>2 DEF Readings
  <2>2. CASE program.name = "dataset"
    <3>1. S = DatasetScript
      BY <2>2 DEF Script
    <3>2. DatasetScript[2] = <<"authorization", "plan">>
      BY DatasetSteps
    <3> HIDE DEF S
    <3> QED
      BY <3>1, <3>2 DEF Readings
  <2> QED
    BY <2>1, <2>2
<1>5. /\ at > 2 => "authorization" \in DOMAIN seen
      /\ at > b + 1 => "queue" \in DOMAIN seen
      /\ at > b + 2 => "audio" \in DOMAIN seen
      /\ at > b + 6 => "source" \in DOMAIN seen
  <2>1. program.name # "idle"
    OBVIOUS
  <2>2. \A i \in DOMAIN S : i < at /\ S[i][2] \in Readings => S[i][1] \in DOMAIN seen
    BY <2>1 DEF Known
  <2>3. {2, b + 1, b + 2, b + 6} \subseteq DOMAIN S
    <3>1. b \in Nat /\ 2 <= b /\ Len(S) >= b + 17 /\ DOMAIN S = 1 .. Len(S) /\ Len(S) \in Nat
      BY <1>1, <1>2
    <3> HIDE DEF S, b
    <3> QED
      BY <3>1
  <2>4. \A i \in {2, b + 1, b + 2, b + 6} : at > i => S[i][1] \in DOMAIN seen
    <3>1. \A i \in {2, b + 1, b + 2, b + 6} : S[i][2] \in Readings
      BY <1>2, <1>4 DEF Readings
    <3> HIDE DEF S, at, b, seen
    <3> QED
      BY <2>2, <2>3, <3>1
  <2> HIDE DEF S, at, b, seen
  <2> QED
    BY <1>2, <1>4, <2>4
<1>6. /\ at > 2 => seen["authorization"].allowed
      /\ at > b + 1 => IsQueue(seen["queue"])
      /\ at > b + 2 => seen["audio"] = seen["queue"].names["audio"]
      /\ at > b + 6 => seen["source"] = seen["queue"].names["source"]
      /\ at > b + 7 => seen["authorization"] = seen["queue"].names["authorization"]
      /\ at > b + 8 =>
           /\ "loaded" \in DOMAIN seen
           /\ seen["loaded"].queue = seen["queue"]
           /\ \A c \in Clip : Genuine(seen["loaded"].of[c].heard, seen["queue"])
      /\ at > b + 12 =>
           \A c \in Clip : seen["loaded"].of[c].heard \in {Absent, seen["queue"].names["audio"]}
  BY DEF PairAgrees
<1>7. at > b + 1 =>
         /\ f = "queue" => how = "seen"
         /\ at > b + 2 /\ f = "audio" => how = "seen"
         /\ at > b + 6 /\ f = "source" => how = "seen"
         /\ at > b + 7 /\ f = "authorization" => how = "seen"
         /\ at > b + 9 => how # "load"
  BY <1>1, LastRoundKeeps
\* What is kept.
<1>8. ASSUME NEW g \in DOMAIN seen, f = g => how \notin {"bind", "queue", "plan"},
             g # "cut", g = "loaded" => how # "load"
      PROVE  g \in DOMAIN new /\ new[g] = seen[g]
  BY <1>8, LooksKeep
<1> HIDE DEF S, at, b, f, how, seen, new
<1>9. /\ at > b + 1 => new["queue"] = seen["queue"]
      /\ at > b + 2 => new["audio"] = seen["audio"]
      /\ at > b + 6 => new["source"] = seen["source"]
      /\ at > b + 7 => new["authorization"] = seen["authorization"]
      /\ at > b + 9 => "loaded" \in DOMAIN new /\ new["loaded"] = seen["loaded"]
  <2>0. /\ at > b + 9 => at > b + 8 /\ at > b + 1
        /\ at > b + 7 => at > 2 /\ at > b + 1
        /\ at > b + 6 => at > b + 1
        /\ at > b + 2 => at > b + 1
    BY <1>1, <1>2
  <2>1. ASSUME at > b + 1 PROVE new["queue"] = seen["queue"]
    <3>1. "queue" \in DOMAIN seen /\ (f = "queue" => how = "seen")
      BY <2>0, <1>5, <1>7, <2>1
    <3> QED
      BY <1>8, <3>1
  <2>2. ASSUME at > b + 2 PROVE new["audio"] = seen["audio"]
    <3>1. "audio" \in DOMAIN seen /\ (f = "audio" => how = "seen")
      BY <2>0, <1>5, <1>7, <2>2
    <3> QED
      BY <1>8, <3>1
  <2>3. ASSUME at > b + 6 PROVE new["source"] = seen["source"]
    <3>1. "source" \in DOMAIN seen /\ (f = "source" => how = "seen")
      BY <2>0, <1>5, <1>7, <2>3
    <3> QED
      BY <1>8, <3>1
  <2>4. ASSUME at > b + 7 PROVE new["authorization"] = seen["authorization"]
    <3>1. "authorization" \in DOMAIN seen /\ (f = "authorization" => how = "seen")
      BY <2>0, <1>5, <1>7, <2>4
    <3> QED
      BY <1>8, <3>1
  <2>5. ASSUME at > b + 9 PROVE "loaded" \in DOMAIN new /\ new["loaded"] = seen["loaded"]
    <3>1. "loaded" \in DOMAIN seen /\ how # "load"
      BY <2>0, <1>6, <1>7, <2>5
    <3>2. f # "loaded"
      BY <1>1 DEF FileNames
    <3> QED
      BY <1>8, <3>1, <3>2
  <2> QED
    BY <2>1, <2>2, <2>3, <2>4, <2>5
<1>10. how \in Readings => f \in DOMAIN new /\ new[f] = content[f]
  BY <1>1, ReadingRemembers
<1>11. \A k \in Nat : at + 1 > k <=> at = k \/ at > k
  BY <1>1
\* The conjuncts.
<1>21. at + 1 > 2 => new["authorization"].allowed
  <2>1. f = "authorization" => content[f].allowed
    BY <1>1 DEF Accepts, f
  <2>2. CASE at = 2
    <3>1. f = "authorization" /\ how \in Readings
      BY <1>4, <2>2 DEF f, how
    <3> QED
      BY <1>10, <2>1, <3>1
  <2>3. CASE at > 2
    <3>1. \/ new["authorization"] = seen["authorization"]
          \/ f = "authorization" /\ new["authorization"] = content[f]
      BY <1>1, <1>5, <1>10, <2>3, Remembers
    <3> QED
      BY <1>6, <2>1, <2>3, <3>1
  <2> QED
    BY <1>11, <2>2, <2>3
<1>22. at + 1 > b + 1 => IsQueue(new["queue"])
  <2>1. CASE at = b + 1
    <3>1. f = "queue" /\ how \in Readings
      BY <1>2, <2>1 DEF f, how, Readings
    <3>2. content["queue"] # Absent
      BY <1>1, <3>1 DEF Accepts
    <3> QED
      BY <1>10, <3>1, <3>2 DEF FilesSound
  <2>2. CASE at > b + 1
    BY <1>6, <1>9, <2>2
  <2> QED
    BY <1>2, <1>11, <2>1, <2>2
<1>23. at + 1 > b + 2 => new["audio"] = new["queue"].names["audio"]
  <2>1. CASE at = b + 2
    <3>1. f = "audio" /\ how = "queue"
      BY <1>2, <2>1 DEF f, how
    <3>2. content["audio"] = seen["queue"].names["audio"]
      BY <1>1, <3>1 DEF Accepts
    <3>3. new["audio"] = content["audio"]
      BY <1>10, <3>1 DEF Readings
    <3>4. new["queue"] = seen["queue"]
      BY <1>2, <1>9, <2>1
    <3> QED
      BY <3>2, <3>3, <3>4
  <2>2. CASE at > b + 2
    BY <1>1, <1>2, <1>6, <1>9, <2>2
  <2> QED
    BY <1>2, <1>11, <2>1, <2>2
<1>24. at + 1 > b + 6 => new["source"] = new["queue"].names["source"]
  <2>1. CASE at = b + 6
    <3>1. f = "source" /\ how = "queue"
      BY <1>2, <2>1 DEF f, how
    <3>2. content["source"] = seen["queue"].names["source"]
      BY <1>1, <3>1 DEF Accepts
    <3>3. new["source"] = content["source"]
      BY <1>10, <3>1 DEF Readings
    <3>4. new["queue"] = seen["queue"]
      BY <1>2, <1>9, <2>1
    <3> QED
      BY <3>2, <3>3, <3>4
  <2>2. CASE at > b + 6
    BY <1>1, <1>2, <1>6, <1>9, <2>2
  <2> QED
    BY <1>2, <1>11, <2>1, <2>2
<1>25. at + 1 > b + 7 => new["authorization"] = new["queue"].names["authorization"]
  <2>1. CASE at = b + 7
    <3>1. f = "authorization" /\ how = "queue"
      BY <1>2, <2>1 DEF f, how
    <3>2. content["authorization"] = seen["queue"].names["authorization"]
      BY <1>1, <3>1 DEF Accepts
    <3>3. new["authorization"] = content["authorization"]
      BY <1>10, <3>1 DEF Readings
    <3>4. new["queue"] = seen["queue"]
      BY <1>2, <1>9, <2>1
    <3> QED
      BY <3>2, <3>3, <3>4
  <2>2. CASE at > b + 7
    BY <1>1, <1>2, <1>6, <1>9, <2>2
  <2> QED
    BY <1>2, <1>11, <2>1, <2>2
<1>26. at + 1 > b + 8 =>
         /\ "loaded" \in DOMAIN new /\ new["loaded"].queue = new["queue"]
         /\ \A c \in Clip : Genuine(new["loaded"].of[c].heard, new["queue"])
  <2>0. at > b + 7 => new["queue"] = seen["queue"]
    BY <1>1, <1>2, <1>9
  <2>1. CASE at = b + 8 \/ at = b + 9
    <3>1. f = "decisions" /\ how = "load"
      BY <1>2, <2>1 DEF f, how
    <3>2. "loaded" \in DOMAIN new /\ new["loaded"] = content["decisions"]
      BY <1>1, <3>1, LoadRemembers
    <3>3. content["decisions"] # Absent /\ content["decisions"].queue = seen["queue"]
      BY <1>1, <3>1 DEF Accepts
    <3>4. IsDecisions(content["decisions"])
      BY <3>3 DEF FilesSound
    <3>5. new["queue"] = seen["queue"]
      BY <1>2, <2>0, <2>1
    <3>6. \A c \in Clip : Genuine(content["decisions"].of[c].heard, content["decisions"].queue)
      BY <3>4 DEF IsDecisions
    <3> QED
      BY <3>2, <3>3, <3>5, <3>6
  <2>2. CASE at > b + 9
    <3>1. at > b + 7 /\ at > b + 8
      BY <1>1, <1>2, <2>2
    <3>2. "loaded" \in DOMAIN new /\ new["loaded"] = seen["loaded"]
      BY <1>9, <2>2
    <3>3. /\ seen["loaded"].queue = seen["queue"]
          /\ \A c \in Clip : Genuine(seen["loaded"].of[c].heard, seen["queue"])
      BY <1>6, <3>1
    <3> QED
      BY <2>0, <3>1, <3>2, <3>3
  <2>3. at + 1 > b + 8 => at = b + 8 \/ at = b + 9 \/ at > b + 9
    BY <1>1, <1>2
  <2> QED
    BY <2>1, <2>2, <2>3
<1>27. at + 1 > b + 12 =>
         \A c \in Clip : new["loaded"].of[c].heard \in {Absent, new["queue"].names["audio"]}
  <2>1. SUFFICES ASSUME at + 1 > b + 12, NEW c \in Clip
                 PROVE  new["loaded"].of[c].heard \in {Absent, new["queue"].names["audio"]}
    OBVIOUS
  <2>2. at > b + 9 /\ at > b + 1 /\ at > b + 2 /\ at > b + 8 /\ (at = b + 12 \/ at > b + 12)
    BY <1>1, <1>2, <2>1
  <2>3. new["loaded"] = seen["loaded"] /\ new["queue"] = seen["queue"]
    BY <1>9, <2>2
  <2>4. CASE at > b + 12
    BY <1>6, <2>3, <2>4
  <2>5. CASE at = b + 12
    <3>1. f = "audio" /\ how = "seen"
      BY <1>3, <2>5 DEF f, how
    <3>2. content["audio"] = seen["audio"]
      BY <1>1, <3>1 DEF Accepts
    <3>3. content["audio"] = seen["queue"].names["audio"] /\ IsQueue(seen["queue"])
      BY <1>6, <2>2, <3>2
    <3>4. ~AudioIsNew
      BY <3>3 DEF IsQueue, AudioIsNew
    <3>5. Genuine(seen["loaded"].of[c].heard, seen["queue"])
      BY <1>6, <2>2
    <3> QED
      BY <2>3, <3>4, <3>5 DEF Genuine
  <2> QED
    BY <2>2, <2>4, <2>5
<1>28. at + 1 > b + 1 => IsQueue(program.seen["queue"])'
  BY <1>1, <1>22 DEF IsQueue, Stamped, new
<1>29. at + 1 > b + 8 =>
         \A c \in Clip : Genuine(program.seen["loaded"].of[c].heard, program.seen["queue"])'
  BY <1>1, <1>26 DEF Genuine, AudioIsNew, new
<1>30. PairBase(program'.name) = b
  BY <1>1 DEF b
<1> QED
  BY <1>1, <1>21, <1>23, <1>24, <1>25, <1>26, <1>27, <1>28, <1>29, <1>30 DEF PairAgrees, new

(* Access keeps FollowsPlan, comparison by comparison with the plan.                        *)
LEMMA PlanAccess ==
  ASSUME FilesSound, MomentsSound, Commanded, Known, PairAgrees, FollowsPlan, Access
  PROVE  FollowsPlan'
<1> DEFINE S == Script(program.name)
           at == program.at
           f == S[at][1]
           how == S[at][2]
           seen == program.seen
           names == seen["plan"].names
           new == program'.seen
           newNames == new["plan"].names
<1>1. /\ at \in Nat /\ at \in DOMAIN S /\ DOMAIN S = 1 .. Len(S)
      /\ program'.name = program.name /\ program'.at = at + 1
      /\ content' = content /\ moments' = moments
      /\ new = Remember(seen, f, how) /\ Accepts(seen, f, how)
      /\ f \in FileNames /\ how \in Hows
  BY AccessIs
<1> SUFFICES ASSUME program.name = "dataset" PROVE FollowsPlan'
  BY <1>1 DEF FollowsPlan
<1>2. S = DatasetScript /\ program.name # "idle"
  BY DEF Script
<1>3. /\ Len(S) = 47 /\ S[1] = <<"plan", "bind">>
      /\ S[3] = <<"source", "plan">> /\ S[25] = <<"source", "cut">>
      /\ S[26] = <<"source", "plan">> /\ S[29] = <<"decisions", "plan">>
      /\ S[47] = <<"plan", "check">>
      /\ \A i \in 2 .. 47 : S[i][1] = "plan" => S[i][2] = "check"
      /\ \A i \in 26 .. 47 : S[i][2] # "cut"
  BY <1>2, DatasetMeetsPlan
<1>4. S[38] = <<"decisions", "load">> /\ S[39] = <<"decisions", "bind">>
  <2>1. PairBase(program.name) + 9 = 38 /\ PairBase(program.name) + 10 = 39
    BY DEF PairBase
  <2>2. /\ Script(program.name)[PairBase(program.name) + 9] = <<"decisions", "load">>
        /\ Script(program.name)[PairBase(program.name) + 10] = <<"decisions", "bind">>
    BY LastReads
  <2> QED
    BY <2>1, <2>2
<1>5. \A i \in 1 .. 47 : /\ i > 38 => S[i][2] # "load"
                         /\ i > 39 => S[i][2] \in {"seen", "check"}
  <2>1. PairBase(program.name) = 29 /\ 29 + 9 = 38 /\ 29 + 10 = 39 /\ 29 + 1 = 30
    BY DEF PairBase
  <2>2. \A i \in 1 .. Len(S) : i > 30 =>
          /\ i > 38 => S[i][2] # "load"
          /\ i > 39 => S[i][2] \in {"seen", "check"}
    BY <2>1, LastRoundKeeps
  <2>3. Len(S) = 47
    BY <1>3, Zenon
  <2> HIDE DEF S
  <2> QED
    BY <2>2, <2>3
<1>6. \A i \in DOMAIN S : i < at /\ S[i][2] \in Readings => S[i][1] \in DOMAIN seen
  BY <1>2 DEF Known
<1>7. /\ at > 1 => DOMAIN names = PlanNames
      /\ at > 3 => WasHeld("source", names["source"])
      /\ at > 25 => /\ "cut" \in DOMAIN seen
                    /\ seen["cut"] = names["source"] \/ content["source"] # names["source"]
      /\ at > 26 => seen["cut"] = names["source"]
      /\ at > 29 => WasHeld("decisions", names["decisions"])
      /\ at > 38 => \/ seen["loaded"] = names["decisions"]
                    \/ content["decisions"] # names["decisions"]
      /\ at > 39 => \/ seen["loaded"] = names["decisions"]
                    \/ seen["decisions"] # names["decisions"]
      /\ at > 47 => EvidenceAgrees(seen)
  BY DEF FollowsPlan
<1>8. at > 38 => "loaded" \in DOMAIN seen
  <2>1. PairBase(program.name) = 29 /\ 29 + 8 = 37
    BY DEF PairBase
  <2>2. program.at > PairBase(program.name) + 8 => "loaded" \in DOMAIN program.seen
    BY DEF PairAgrees
  <2> HIDE DEF seen
  <2> QED
    BY <1>1, <2>1, <2>2 DEF seen
<1>9. ASSUME NEW g \in DOMAIN seen, f = g => how \notin {"bind", "queue", "plan"},
             g = "cut" => how # "cut", g = "loaded" => how # "load"
      PROVE  g \in DOMAIN new /\ new[g] = seen[g]
  BY <1>9, LooksKeep
<1>10. how \in Readings => f \in DOMAIN new /\ new[f] = content[f]
  BY <1>1, ReadingRemembers
<1>11. \A g \in Lasting : WasHeld(g, content[g])
  BY <1>2, NowIsHeld DEF WasHeld
<1>12. at \in 1 .. 47 /\ \A k \in Nat : at + 1 > k <=> at = k \/ at > k
  <2>1. at \in Nat /\ at \in 1 .. Len(S) /\ Len(S) = 47
    BY <1>1, <1>3
  <2> HIDE DEF at, S
  <2> QED
    BY <2>1
<1>13. \A i \in 1 .. 47 : i = at => S[i] = S[at] /\ S[i][1] = f /\ S[i][2] = how
  OBVIOUS
<1>14. "source" \in Lasting /\ "decisions" \in Lasting
  BY DEF Lasting, FileNames
<1> HIDE DEF S, at, f, how, seen, names, new, newNames
\* What is kept.
<1>21. at > 1 => new["plan"] = seen["plan"] /\ newNames = names
  <2>1. SUFFICES ASSUME at > 1 PROVE new["plan"] = seen["plan"]
    BY DEF names, newNames
  <2>2. "plan" \in DOMAIN seen
    <3>1. 1 \in DOMAIN S /\ S[1][1] = "plan" /\ S[1][2] \in Readings
      BY <1>1, <1>3 DEF Readings
    <3> QED
      BY <1>6, <2>1, <3>1
  <2>3. f = "plan" => how = "check"
    BY <1>3, <1>12, <2>1 DEF f, how
  <2> QED
    BY <1>9, <2>2, <2>3
<1>22. at > 25 => "cut" \in DOMAIN new /\ new["cut"] = seen["cut"]
  <2>1. SUFFICES ASSUME at > 25 PROVE "cut" \in DOMAIN new /\ new["cut"] = seen["cut"]
    OBVIOUS
  <2>2. how # "cut" /\ f # "cut"
    BY <1>1, <1>3, <1>12, <2>1 DEF f, how, FileNames
  <2> QED
    BY <1>7, <1>9, <2>1, <2>2
<1>23. at > 38 => new["loaded"] = seen["loaded"]
  <2>1. SUFFICES ASSUME at > 38 PROVE new["loaded"] = seen["loaded"]
    OBVIOUS
  <2>2. how # "load" /\ f # "loaded"
    BY <1>1, <1>5, <1>12, <2>1 DEF f, how, FileNames
  <2> QED
    BY <1>8, <1>9, <2>1, <2>2
<1>24. at > 39 => new["decisions"] = seen["decisions"]
  <2>1. SUFFICES ASSUME at > 39 PROVE new["decisions"] = seen["decisions"]
    OBVIOUS
  <2>2. "decisions" \in DOMAIN seen
    <3>1. 39 \in DOMAIN S /\ S[39][1] = "decisions" /\ S[39][2] \in Readings
      BY <1>1, <1>3, <1>4 DEF Readings
    <3> QED
      BY <1>6, <2>1, <3>1
  <2>3. how \in {"seen", "check"}
    BY <1>5, <1>12, <2>1 DEF how
  <2> QED
    BY <1>9, <2>2, <2>3
\* The conjuncts.
<1>31. at + 1 > 1 => DOMAIN newNames = PlanNames
  <2>1. CASE at = 1
    <3>1. f = "plan" /\ how = "bind"
      BY <1>3, <2>1 DEF f, how
    <3>2. content["plan"] \notin {Absent, Torn}
      BY <1>1, <3>1 DEF Accepts
    <3>3. DOMAIN content["plan"].names = PlanNames
      BY <3>2 DEF FilesSound
    <3>4. new["plan"] = content["plan"]
      BY <1>10, <3>1 DEF Readings
    <3> QED
      BY <3>3, <3>4 DEF newNames
  <2>2. CASE at > 1
    BY <1>7, <1>21, <2>2
  <2> QED
    BY <1>12, <2>1, <2>2
<1>32. at + 1 > 3 => WasHeld("source", newNames["source"])
  <2>0. at + 1 > 3 => at > 1
    BY <1>12
  <2>1. CASE at = 3
    <3>1. f = "source" /\ how = "plan"
      BY <1>3, <2>1 DEF f, how
    <3>2. content["source"] = names["source"]
      BY <1>1, <3>1 DEF Accepts, names
    <3>3. WasHeld("source", names["source"])
      BY <1>11, <1>14, <3>2
    <3> QED
      BY <1>21, <2>0, <3>3
  <2>2. CASE at > 3
    BY <1>7, <1>21, <2>0, <2>2
  <2> QED
    BY <1>12, <2>1, <2>2
<1>33. at + 1 > 25 => /\ "cut" \in DOMAIN new
                      /\ new["cut"] = newNames["source"] \/ content["source"] # newNames["source"]
  <2>0. at + 1 > 25 => at > 1
    BY <1>12
  <2>1. CASE at = 25
    <3>1. f = "source" /\ how = "cut"
      BY <1>3, <2>1 DEF f, how
    <3>2. "cut" \in DOMAIN new /\ new["cut"] = content["source"]
      BY <1>1, <3>1, CutRemembers
    <3> QED
      BY <3>2
  <2>2. CASE at > 25
    BY <1>7, <1>21, <1>22, <2>0, <2>2
  <2> QED
    BY <1>12, <2>1, <2>2
<1>34. at + 1 > 26 => new["cut"] = newNames["source"]
  <2>0. at + 1 > 26 => at > 1 /\ at > 25
    BY <1>12
  <2>1. CASE at = 26
    <3>1. f = "source" /\ how = "plan"
      BY <1>3, <2>1 DEF f, how
    <3>2. content["source"] = names["source"]
      BY <1>1, <3>1 DEF Accepts, names
    <3> QED
      BY <1>7, <1>21, <1>22, <2>0, <3>2
  <2>2. CASE at > 26
    BY <1>7, <1>21, <1>22, <2>0, <2>2
  <2> QED
    BY <1>12, <2>1, <2>2
<1>35. at + 1 > 29 => WasHeld("decisions", newNames["decisions"])
  <2>0. at + 1 > 29 => at > 1
    BY <1>12
  <2>1. CASE at = 29
    <3>1. f = "decisions" /\ how = "plan"
      BY <1>3, <2>1 DEF f, how
    <3>2. content["decisions"] = names["decisions"]
      BY <1>1, <3>1 DEF Accepts, names
    <3>3. WasHeld("decisions", names["decisions"])
      BY <1>11, <1>14, <3>2
    <3> QED
      BY <1>21, <2>0, <3>3
  <2>2. CASE at > 29
    BY <1>7, <1>21, <2>0, <2>2
  <2> QED
    BY <1>12, <2>1, <2>2
<1>36. at + 1 > 38 => \/ new["loaded"] = newNames["decisions"]
                      \/ content["decisions"] # newNames["decisions"]
  <2>0. at + 1 > 38 => at > 1
    BY <1>12
  <2>1. CASE at = 38
    <3>1. f = "decisions" /\ how = "load"
      BY <1>4, <2>1 DEF f, how
    <3>2. new["loaded"] = content["decisions"]
      BY <1>1, <3>1, LoadRemembers
    <3> QED
      BY <3>2
  <2>2. CASE at > 38
    BY <1>7, <1>21, <1>23, <2>0, <2>2
  <2> QED
    BY <1>12, <2>1, <2>2
<1>37. at + 1 > 39 => \/ new["loaded"] = newNames["decisions"]
                      \/ new["decisions"] # newNames["decisions"]
  <2>0. at + 1 > 39 => at > 1 /\ at > 38
    BY <1>12
  <2>1. CASE at = 39
    <3>1. f = "decisions" /\ how = "bind"
      BY <1>4, <2>1 DEF f, how
    <3>2. new["decisions"] = content["decisions"]
      BY <1>10, <3>1 DEF Readings
    <3> QED
      BY <1>7, <1>21, <1>23, <2>0, <2>1, <3>2
  <2>2. CASE at > 39
    BY <1>7, <1>21, <1>23, <1>24, <2>0, <2>2
  <2> QED
    BY <1>12, <2>1, <2>2
<1>38. at + 1 > 47 => EvidenceAgrees(new)
  <2>1. CASE at = 47
    <3>1. f = "plan" /\ how = "check"
      BY <1>3, <2>1 DEF f, how
    <3>2. EvidenceAgrees(seen)
      BY <1>1, <3>1 DEF Accepts
    <3>3. new = seen
      BY <1>1, <3>1 DEF Remember
    <3> QED
      BY <3>2, <3>3
  <2>2. ~(at > 47)
    BY <1>12
  <2> QED
    BY <1>12, <2>1, <2>2
<1>39. WasHeld("source", newNames["source"]) => \E m \in moments' : m["source"] = newNames["source"]
  BY <1>1 DEF WasHeld
<1>40. WasHeld("decisions", newNames["decisions"])
         => \E m \in moments' : m["decisions"] = newNames["decisions"]
  BY <1>1 DEF WasHeld
<1>41. at + 1 > 47 => EvidenceAgrees(program.seen)'
  BY <1>38 DEF EvidenceAgrees, Approved, new
<1>42. /\ at + 1 > 1 => DOMAIN newNames = PlanNames
       /\ at + 1 > 3 => \E m \in moments' : m["source"] = newNames["source"]
       /\ at + 1 > 25 => /\ "cut" \in DOMAIN new
                         /\ new["cut"] = newNames["source"] \/ content'["source"] # newNames["source"]
       /\ at + 1 > 26 => new["cut"] = newNames["source"]
       /\ at + 1 > 29 => \E m \in moments' : m["decisions"] = newNames["decisions"]
       /\ at + 1 > 38 => \/ new["loaded"] = newNames["decisions"]
                         \/ content'["decisions"] # newNames["decisions"]
       /\ at + 1 > 39 => \/ new["loaded"] = newNames["decisions"]
                         \/ new["decisions"] # newNames["decisions"]
       /\ at + 1 > 47 => EvidenceAgrees(program.seen)'
  <2>1. content' = content
    BY <1>1
  <2>2. at + 1 > 25 => /\ "cut" \in DOMAIN new
                       /\ new["cut"] = newNames["source"] \/ content'["source"] # newNames["source"]
    <3>1. content'["source"] = content["source"]
      BY <2>1
    <3> QED
      BY <1>33, <3>1, Zenon
  <2>3. at + 1 > 38 => \/ new["loaded"] = newNames["decisions"]
                       \/ content'["decisions"] # newNames["decisions"]
    <3>1. content'["decisions"] = content["decisions"]
      BY <2>1
    <3> QED
      BY <1>36, <3>1, Zenon
  <2>4. at + 1 > 3 => \E m \in moments' : m["source"] = newNames["source"]
    BY <1>32, <1>39, Zenon
  <2>5. at + 1 > 29 => \E m \in moments' : m["decisions"] = newNames["decisions"]
    BY <1>35, <1>40, Zenon
  <2> QED
    BY <2>2, <2>3, <2>4, <2>5, <1>31, <1>34, <1>37, <1>41, Zenon
<1>43. program'.at = at + 1
  BY <1>1
<1> QED
  BY <1>42, <1>43 DEF FollowsPlan, WasHeld, new, newNames

-----------------------------------------------------------------------------
(* What the steps do to the files and to the review server.                *)

(* A file that has a content is there.                                                      *)
LEMMA RecordsAreNotAbsent ==
  ASSUME NEW x, "version" \in DOMAIN x \/ "queue" \in DOMAIN x
  PROVE  x # Absent
  BY DEF Absent

(* One file is replaced by v. *)
LEMMA FilesStaySound ==
  ASSUME FilesSound, Growing, NEW file \in FileNames, NEW v,
         content' = [content EXCEPT ![file] = v],
         file \in Dated => Stamped(v)', file = "queue" => IsQueue(v)',
         file = "decisions" => IsDecisions(v)',
         file = "plan" => v \in {Absent, Torn} \/ DOMAIN v.names = PlanNames,
         file \in {"queue", "audio"} => content[file] # Absent
  PROVE  /\ FilesSound'
         /\ \A f \in Lasting : content[f] # Absent => content'[f] # Absent
<1>1. DOMAIN content = FileNames
  BY DEF FilesSound
<1>2. content'[file] = v /\ \A f \in FileNames \ {file} : content'[f] = content[f]
  BY <1>1
<1>3. DOMAIN content' = FileNames
  BY <1>1
<1>4. ASSUME NEW f \in Dated PROVE content'[f] = Absent \/ Stamped(content[f])'
  <2>1. f \in FileNames
    BY DEF Dated
  <2>2. CASE f = file
    BY <1>2, <2>2 DEF Stamped
  <2>3. CASE f # file
    <3>1. content'[f] = content[f]
      BY <1>2, <2>1, <2>3
    <3>2. content[f] = Absent \/ Stamped(content[f])
      BY DEF FilesSound
    <3>3. ASSUME NEW x, Stamped(x) PROVE Stamped(x)'
      BY <3>3, StampGoesOn
    <3>4. \A x : Stamped(x) => "version" \in DOMAIN x /\ x.version \in 0 .. edits'
      BY <3>3 DEF Stamped
    <3> QED
      BY <3>1, <3>2, <3>4 DEF Stamped
  <2> QED
    BY <2>2, <2>3
<1>5. content'["queue"] = Absent \/ IsQueue(content["queue"])'
  <2>1. "queue" \in FileNames
    BY DEF FileNames
  <2>2. CASE file = "queue"
    BY <1>2, <2>2 DEF IsQueue, Stamped
  <2>3. CASE file # "queue"
    <3>1. content'["queue"] = content["queue"]
      BY <1>2, <2>1, <2>3
    <3>2. content["queue"] = Absent \/ IsQueue(content["queue"])
      BY DEF FilesSound
    <3>3. ASSUME NEW x, IsQueue(x) PROVE IsQueue(x)'
      BY <3>3, QueueGoesOn
    <3>4. \A x : IsQueue(x) => /\ "version" \in DOMAIN x /\ x.version \in 0 .. edits'
                               /\ "names" \in DOMAIN x
                               /\ x.names["audio"].cut = x.names["source"]
                               /\ x.names["audio"].version = 0
      BY <3>3 DEF IsQueue, Stamped
    <3> QED
      BY <3>1, <3>2, <3>4 DEF IsQueue, Stamped
  <2> QED
    BY <2>2, <2>3
<1>6. content'["decisions"] = Absent \/ IsDecisions(content["decisions"])'
  <2>1. "decisions" \in FileNames
    BY DEF FileNames
  <2>2. CASE file = "decisions"
    BY <1>2, <2>2 DEF IsDecisions, Genuine, AudioIsNew
  <2>3. CASE file # "decisions"
    <3>1. content'["decisions"] = content["decisions"]
      BY <1>2, <2>1, <2>3
    <3>2. content["decisions"] = Absent \/ IsDecisions(content["decisions"])
      BY DEF FilesSound
    <3>3. ASSUME NEW d, IsDecisions(d) PROVE IsDecisions(d)'
      BY <3>3, DecisionsGoOn
    <3>4. \A d : IsDecisions(d) =>
            /\ "queue" \in DOMAIN d /\ "of" \in DOMAIN d /\ DOMAIN d.of = Clip
            /\ \A c \in Clip : /\ {"ok", "revision", "heard"} = DOMAIN d.of[c]
                               /\ d.of[c].revision \in 0 .. saves'
                               /\ \/ d.of[c].heard = Absent
                                  \/ d.of[c].heard = d.queue.names["audio"] \/ AudioIsNew'
      BY <3>3 DEF IsDecisions, Genuine
    <3> QED
      BY <3>1, <3>2, <3>4 DEF IsDecisions, Genuine
  <2> QED
    BY <2>2, <2>3
<1>7. content'["plan"] \in {Absent, Torn} \/ DOMAIN content'["plan"].names = PlanNames
  <2>1. "plan" \in FileNames
    BY DEF FileNames
  <2>2. file # "plan" => content'["plan"] = content["plan"]
    BY <1>2, <2>1
  <2> QED
    BY <1>2, <2>2 DEF FilesSound
<1>8. file \in Lasting => v # Absent
  <2>1. file \in Lasting => file \in Dated \/ file = "decisions"
    BY DEF Lasting, Dated
  <2>2. file \in Dated => "version" \in DOMAIN v
    BY DEF Stamped
  <2>3. file = "decisions" => "queue" \in DOMAIN v
    BY DEF IsDecisions
  <2> QED
    BY <2>1, <2>2, <2>3, RecordsAreNotAbsent
<1>9. \A f \in Lasting : content[f] # Absent => content'[f] # Absent
  <2>1. \A f \in Lasting : f \in FileNames
    BY DEF Lasting
  <2> QED
    BY <1>2, <1>8, <2>1
<1>10. content'["queue"] = Absent <=> content'["audio"] = Absent
  <2>1. /\ "queue" \in FileNames /\ "audio" \in FileNames /\ "queue" \in Lasting
        /\ "audio" \in Lasting
    BY DEF FileNames, Lasting
  <2>2. CASE file \in {"queue", "audio"}
    BY <1>9, <2>1, <2>2 DEF FilesSound
  <2>3. CASE file \notin {"queue", "audio"}
    BY <1>2, <2>1, <2>3 DEF FilesSound
  <2> QED
    BY <2>2, <2>3
<1> QED
  BY <1>3, <1>4, <1>5, <1>6, <1>7, <1>9, <1>10 DEF FilesSound, Growing

(* A content with a new version, or of a file that was missing, was never there before. *)
LEMMA NewVersionsAreNew ==
  ASSUME MomentsSound, edits \in Nat, NEW file \in Dated, NEW v, "version" \in DOMAIN v,
         v.version = edits + 1
  PROVE  ~WasHeld(file, v)
<1> SUFFICES ASSUME NEW m \in moments, m[file] = v PROVE FALSE
  BY DEF WasHeld
<1>1. m[file] = Absent \/ m[file].version \in 0 .. edits
  BY DEF MomentsSound, IsPast
<1>2. v # Absent
  BY RecordsAreNotAbsent
<1> QED
  BY <1>1, <1>2

(* A file that is missing was missing at every moment of the command: no content of it is old. *)
LEMMA MissingWasMissing ==
  ASSUME MomentsSound, NEW file \in Dated, content[file] = Absent, NEW v, v # Absent
  PROVE  ~WasHeld(file, v)
<1> SUFFICES ASSUME NEW m \in moments, m[file] = v PROVE FALSE
  BY DEF WasHeld
<1>1. m[file] = Absent
  BY DEF MomentsSound, IsPast
<1> QED
  BY <1>1

(* The command lives through a new file system. *)
LEMMA MomentsGoOn ==
  ASSUME FilesSound', MomentsSound, Growing, moments' = Lived(content'), program' = program,
         \A f \in Lasting : content[f] # Absent => content'[f] # Absent,
         \A f \in Lasting : content'[f] = content[f] \/ ~WasHeld(f, content'[f])
  PROVE  MomentsSound' /\ FilesGoOn /\ SameAccesses
<1>1. moments \subseteq moments'
      /\ (program.name # "idle" => content' \in moments')
      /\ \A m \in moments' : m \in moments \/ m = content'
  BY DEF Lived
<1>2. FilesGoOn
  BY <1>1 DEF FilesGoOn
<1>3. SameAccesses
  BY DEF SameAccesses
<1>4. ASSUME NEW m \in moments PROVE IsPast(m)'
  <2>1. IsPast(m)
    BY DEF MomentsSound
  <2>2. \A f \in Dated : m[f] = Absent \/ (content'[f] # Absent /\ m[f].version \in 0 .. edits')
    <3>1. \A f \in Dated : f \in Lasting
      BY DEF Dated, Lasting
    <3> QED
      BY <2>1, <3>1 DEF IsPast, Growing
  <2>3. \/ m["decisions"] = Absent
        \/ /\ content'["decisions"] # Absent
           /\ \A c \in Clip : m["decisions"].of[c].revision \in 0 .. saves'
    <3>1. "decisions" \in Lasting
      BY DEF Lasting, FileNames
    <3> QED
      BY <2>1, <3>1 DEF IsPast, Growing
  <2> QED
    BY <2>2, <2>3 DEF IsPast
<1>5. ASSUME NEW m, m = content' PROVE IsPast(m)'
  <2>1. \A f \in Dated : content'[f] = Absent \/ content'[f].version \in 0 .. edits'
    BY DEF FilesSound, Stamped
  <2>2. content'["decisions"] = Absent
          \/ \A c \in Clip : content'["decisions"].of[c].revision \in 0 .. saves'
    BY DEF FilesSound, IsDecisions
  <2> QED
    BY <1>5, <2>1, <2>2 DEF IsPast
<1>6. \A m \in moments' : IsPast(m)'
  BY <1>1, <1>4, <1>5
<1>7. program'.name # "idle" => \E m \in moments' : \A f \in Lasting : m[f] = content'[f]
  BY <1>1
<1> QED
  BY <1>2, <1>3, <1>6, <1>7 DEF MomentsSound

(* The review server keeps what it holds. *)
LEMMA ServerStaysSound ==
  ASSUME ServerSound, Growing, server' = server,
         content["queue"] # Absent => content'["queue"] # Absent,
         \/ content'["audio"] = content["audio"] \/ AudioIsNew' \/ content["queue"] = Absent
  PROVE  ServerSound'
<1>1. ASSUME NEW h, NEW q, Genuine(h, q)
      PROVE  h = Absent \/ h = q.names["audio"] \/ AudioIsNew'
  BY <1>1, GenuineGoesOn DEF Genuine
<1>2. ASSUME NEW d, IsDecisions(d)
      PROVE  /\ "queue" \in DOMAIN d /\ "of" \in DOMAIN d /\ DOMAIN d.of = Clip
             /\ \A c \in Clip : /\ {"ok", "revision", "heard"} = DOMAIN d.of[c]
                                /\ d.of[c].revision \in 0 .. saves'
                                /\ \/ d.of[c].heard = Absent
                                   \/ d.of[c].heard = d.queue.names["audio"] \/ AudioIsNew'
  BY <1>2, DecisionsGoOn DEF IsDecisions, Genuine
<1>3. Genuine(server.heard, server.queue)'
  BY <1>1 DEF ServerSound, Genuine
<1>4. server.loaded # Absent => IsDecisions(server.loaded)'
  BY <1>2 DEF ServerSound, IsDecisions, Genuine
<1>5. server.sending => content'["audio"] = server.queue.names["audio"] \/ AudioIsNew'
  BY DEF ServerSound, Growing
<1> QED
  BY <1>3, <1>4, <1>5 DEF ServerSound

(* What is left to show of a step that replaces one file under a standing command. *)
LEMMA FileReplaced ==
  ASSUME FilesSound, MomentsSound, Growing, NEW file \in FileNames, NEW v,
         program' = program, moments' = Lived(content'),
         content' = [content EXCEPT ![file] = v],
         file \in Dated => Stamped(v)', file = "queue" => IsQueue(v)',
         file = "decisions" => IsDecisions(v)', file = "plan" => v = Absent,
         file \in {"queue", "audio"} => content[file] # Absent,
         file \in Lasting => ~WasHeld(file, v)
  PROVE  /\ FilesSound' /\ MomentsSound' /\ FilesGoOn /\ SameAccesses
         /\ content["queue"] # Absent => content'["queue"] # Absent
         /\ file # "audio" => content'["audio"] = content["audio"]
<1>1. /\ FilesSound'
      /\ \A f \in Lasting : content[f] # Absent => content'[f] # Absent
  BY FilesStaySound
<1>2. DOMAIN content = FileNames
  BY DEF FilesSound
<1>3. \A f \in Lasting : content'[f] = content[f] \/ ~WasHeld(f, content'[f])
  BY <1>2 DEF Lasting
<1>4. MomentsSound' /\ FilesGoOn /\ SameAccesses
  BY <1>1, <1>3, MomentsGoOn
<1>5. "queue" \in Lasting /\ "audio" \in FileNames
  BY DEF Lasting, FileNames
<1> QED
  BY <1>1, <1>2, <1>4, <1>5

\* Nothing but an edit of the audio can make it new.
LEMMA GrowsWithout ==
  ASSUME FilesSound, edits' \in Nat, saves' \in Nat, edits <= edits', saves <= saves',
         content'["audio"] = content["audio"]
  PROVE  Growing
  BY DEF FilesSound, Growing, AudioIsNew

(* A file that was missing is made: Convert and Transcribe.                                 *)
LEMMA MadeStep ==
  ASSUME FilesSound, MomentsSound, ServerSound, NEW file \in Dated \ {"queue", "audio"},
         NEW v, "version" \in DOMAIN v, v.version = 0, Made(file, v)
  PROVE  FilesSound' /\ MomentsSound' /\ ServerSound' /\ FilesGoOn /\ SameAccesses
<1>1. /\ content[file] = Absent /\ content' = [content EXCEPT ![file] = v]
      /\ moments' = Lived(content') /\ server' = server /\ program' = program
      /\ edits' = edits /\ saves' = saves
  BY DEF Made
<1>2. file \in FileNames /\ "audio" \in FileNames /\ DOMAIN content = FileNames
      /\ edits \in Nat /\ saves \in Nat
  BY DEF Dated, FileNames, FilesSound
<1>3. Growing
  BY <1>1, <1>2, GrowsWithout
<1>4. Stamped(v)'
  BY <1>1, <1>2 DEF Stamped
<1>5. ~WasHeld(file, v)
  BY <1>1, RecordsAreNotAbsent, MissingWasMissing
<1>6. file \notin {"decisions", "plan", "queue", "audio"}
  BY DEF Dated
<1>7. /\ FilesSound' /\ MomentsSound' /\ FilesGoOn /\ SameAccesses
      /\ content["queue"] # Absent => content'["queue"] # Absent
      /\ content'["audio"] = content["audio"]
  BY <1>1, <1>2, <1>3, <1>4, <1>5, <1>6, FileReplaced
<1> QED
  BY <1>1, <1>3, <1>7, ServerStaysSound

(* Convert.                                                                                 *)
LEMMA ConvertStep ==
  ASSUME FilesSound, MomentsSound, ServerSound, Convert
  PROVE  FilesSound' /\ MomentsSound' /\ ServerSound' /\ FilesGoOn /\ SameAccesses
<1>1. Made("source", [version |-> 0])
  BY DEF Convert
<1>2. "source" \in Dated \ {"queue", "audio"}
  BY DEF Dated, FileNames
<1>3. "version" \in DOMAIN [version |-> 0] /\ [version |-> 0].version = 0
  OBVIOUS
<1> QED
  BY <1>1, <1>2, <1>3, MadeStep

(* Transcribe.                                                                              *)
LEMMA TranscribeStep ==
  ASSUME FilesSound, MomentsSound, ServerSound, Transcribe
  PROVE  FilesSound' /\ MomentsSound' /\ ServerSound' /\ FilesGoOn /\ SameAccesses
<1> DEFINE v == [version |-> 0, names |-> [f \in {"source"} |-> content["source"]]]
<1>1. Made("transcript", v)
  BY DEF Transcribe
<1>2. "transcript" \in Dated \ {"queue", "audio"}
  BY DEF Dated, FileNames
<1>3. "version" \in DOMAIN v /\ v.version = 0
  OBVIOUS
<1> HIDE DEF v
<1> QED
  BY <1>1, <1>2, <1>3, MadeStep

(* A file with a version gets the next one. *)
LEMMA NewVersionStep ==
  ASSUME FilesSound, MomentsSound, ServerSound, NEW file \in Dated, NEW v,
         content[file] # Absent, content' = [content EXCEPT ![file] = v],
         "version" \in DOMAIN v, v.version = edits + 1,
         file = "queue" => "names" \in DOMAIN v /\ v.names = content["queue"].names,
         edits' = edits + 1, moments' = Lived(content'), UNCHANGED <<server, program, saves>>
  PROVE  FilesSound' /\ MomentsSound' /\ ServerSound' /\ FilesGoOn /\ SameAccesses
<1>1. file \in FileNames /\ "audio" \in FileNames /\ DOMAIN content = FileNames
      /\ edits \in Nat /\ saves \in Nat /\ edits' \in Nat /\ saves' \in Nat
      /\ edits <= edits' /\ saves <= saves'
  BY DEF Dated, FileNames, FilesSound
<1>2. content'[file] = v /\ \A f \in FileNames \ {file} : content'[f] = content[f]
  BY <1>1
<1>3. Growing
  <2>1. CASE file = "audio"
    <3>1. content'["audio"] # Absent
      BY <1>2, <2>1, RecordsAreNotAbsent
    <3>2. content'["audio"].version > 0
      BY <1>1, <1>2, <2>1
    <3> QED
      BY <1>1, <3>1, <3>2 DEF Growing, AudioIsNew
  <2>2. CASE file # "audio"
    BY <1>1, <1>2, <2>2, GrowsWithout
  <2> QED
    BY <2>1, <2>2
<1>4. file = "audio" => AudioIsNew'
  <2>1. v # Absent
    BY RecordsAreNotAbsent
  <2> QED
    BY <1>1, <1>2, <2>1 DEF AudioIsNew
<1>5. Stamped(v)'
  BY <1>1 DEF Stamped
<1>6. file = "queue" => IsQueue(v)'
  <2>1. file = "queue" => IsQueue(content["queue"])
    BY DEF FilesSound
  <2> QED
    BY <1>5, <2>1 DEF IsQueue, Stamped
<1>7. ~WasHeld(file, v)
  BY <1>1, NewVersionsAreNew
<1>8. file \notin {"decisions", "plan"}
  BY DEF Dated
<1>9. /\ FilesSound' /\ MomentsSound' /\ FilesGoOn /\ SameAccesses
      /\ content["queue"] # Absent => content'["queue"] # Absent
      /\ file # "audio" => content'["audio"] = content["audio"]
  BY <1>1, <1>3, <1>5, <1>6, <1>7, <1>8, FileReplaced
<1> QED
  BY <1>3, <1>4, <1>9, ServerStaysSound

(* Edit: an authorization, a plan that is removed, or a new version of any other file.      *)
LEMMA EditStep ==
  ASSUME FilesSound, MomentsSound, ServerSound, NEW file \in FileNames, Edit(file)
  PROVE  FilesSound' /\ MomentsSound' /\ ServerSound' /\ FilesGoOn /\ SameAccesses
<1>1. PICK allowed \in BOOLEAN :
       content' = [content EXCEPT ![file] =
         CASE file = "authorization" -> [version |-> edits + 1, allowed |-> allowed]
           [] file = "plan" -> Absent
           [] OTHER -> [content[file] EXCEPT !.version = edits + 1]]
  BY DEF Edit
<1>2. /\ content[file] # Absent /\ file # "decisions" /\ edits' = edits + 1
      /\ moments' = Lived(content') /\ UNCHANGED <<server, program, saves>>
  BY DEF Edit
<1>3. CASE file = "authorization"
  <2> DEFINE v == [version |-> edits + 1, allowed |-> allowed]
  <2>1. content' = [content EXCEPT ![file] = v]
    BY <1>1, <1>3
  <2>2. "version" \in DOMAIN v /\ v.version = edits + 1
    OBVIOUS
  <2>3. file \in Dated /\ file # "queue"
    BY <1>3 DEF Dated, FileNames
  <2> HIDE DEF v
  <2> QED
    BY <1>2, <2>1, <2>2, <2>3, NewVersionStep
<1>4. CASE file = "plan"
  <2>1. content' = [content EXCEPT !["plan"] = Absent]
    BY <1>1, <1>4
  <2>2. "plan" \in FileNames /\ "plan" \notin Lasting /\ "plan" \notin Dated
        /\ "audio" \in FileNames
    BY DEF FileNames, Lasting, Dated
  <2>3. DOMAIN content = FileNames /\ edits \in Nat /\ saves \in Nat
    BY DEF FilesSound
  <2>4. content'["audio"] = content["audio"]
    BY <2>1, <2>2, <2>3
  <2>5. Growing
    BY <1>2, <2>3, <2>4, GrowsWithout
  <2>6. /\ FilesSound' /\ MomentsSound' /\ FilesGoOn /\ SameAccesses
        /\ content["queue"] # Absent => content'["queue"] # Absent
    BY <1>2, <2>1, <2>2, <2>5, FileReplaced
  <2> QED
    BY <1>2, <2>4, <2>5, <2>6, ServerStaysSound
<1>5. CASE file \notin {"authorization", "plan"}
  <2> DEFINE v == [content[file] EXCEPT !.version = edits + 1]
  <2>1. content' = [content EXCEPT ![file] = v]
    BY <1>1, <1>5
  <2>2. file \in Dated
    BY <1>2, <1>5 DEF Dated
  <2>3. "version" \in DOMAIN content[file]
    BY <1>2, <2>2 DEF FilesSound, Stamped
  <2>4. "version" \in DOMAIN v /\ v.version = edits + 1
    BY <2>3
  <2>5. file = "queue" => "names" \in DOMAIN v /\ v.names = content["queue"].names
    <3>1. file = "queue" => "names" \in DOMAIN content[file]
      BY <1>2 DEF FilesSound, IsQueue
    <3> QED
      BY <3>1
  <2> HIDE DEF v
  <2> QED
    BY <1>2, <2>1, <2>2, <2>4, <2>5, NewVersionStep
<1> QED
  BY <1>3, <1>4, <1>5

(* Retranscribe.                                                                            *)
LEMMA RetranscribeStep ==
  ASSUME FilesSound, MomentsSound, ServerSound, Retranscribe
  PROVE  FilesSound' /\ MomentsSound' /\ ServerSound' /\ FilesGoOn /\ SameAccesses
<1> DEFINE v == [version |-> edits + 1, names |-> [f \in {"source"} |-> content["source"]]]
<1>1. /\ content["transcript"] # Absent /\ content' = [content EXCEPT !["transcript"] = v]
      /\ edits' = edits + 1 /\ moments' = Lived(content') /\ UNCHANGED <<server, program, saves>>
  BY DEF Retranscribe
<1>2. "version" \in DOMAIN v /\ v.version = edits + 1
  OBVIOUS
<1>3. "transcript" \in Dated
  BY DEF Dated, FileNames
<1> HIDE DEF v
<1> QED
  BY <1>1, <1>2, <1>3, NewVersionStep

(* StoreDecision: no earlier decisions have this revision of this clip.                     *)
LEMMA StoreStep ==
  ASSUME FilesSound, MomentsSound, ServerSound, NEW c \in Clip, NEW ok \in BOOLEAN,
         StoreDecision(c, ok)
  PROVE  FilesSound' /\ MomentsSound' /\ ServerSound' /\ FilesGoOn /\ SameAccesses
<1> DEFINE new == [ok |-> ok, revision |-> saves + 1, heard |-> server.heard]
           d == server.loaded
<1>0. PICK v : v = [d EXCEPT !.of[c] = new]
  OBVIOUS
<1>1. /\ d # Absent /\ content' = [content EXCEPT !["decisions"] = v]
      /\ server' = (IF saves + 1 = MaxSaves THEN NoServer ELSE [server EXCEPT !.loaded = Absent])
      /\ saves' = saves + 1 /\ moments' = Lived(content') /\ program' = program /\ edits' = edits
  BY <1>0 DEF StoreDecision
<1>2. /\ "decisions" \in FileNames /\ "audio" \in FileNames /\ "decisions" \notin Dated
      /\ "decisions" \in Lasting
  BY DEF FileNames, Dated, Lasting
<1>3. DOMAIN content = FileNames /\ edits \in Nat /\ saves \in Nat
  BY DEF FilesSound
<1>4. content'["audio"] = content["audio"]
  BY <1>1, <1>2, <1>3
<1>5. Growing
  BY <1>1, <1>3, <1>4, GrowsWithout
<1>6. IsDecisions(d) /\ d.queue = server.queue
  BY <1>1 DEF ServerSound
<1>7. Genuine(server.heard, server.queue)
  BY DEF ServerSound
<1> HIDE DEF d
<1>8. /\ v.queue = d.queue /\ "queue" \in DOMAIN v /\ "of" \in DOMAIN v /\ DOMAIN v.of = Clip
      /\ v.of[c] = new /\ \A e \in Clip \ {c} : v.of[e] = d.of[e]
  BY <1>0, <1>6 DEF IsDecisions
<1>9. {"ok", "revision", "heard"} = DOMAIN new /\ new.revision = saves + 1 /\ new.heard = server.heard
  OBVIOUS
<1> HIDE DEF new
<1>10. IsDecisions(v)'
  <2>1. ASSUME NEW e \in Clip
        PROVE  /\ {"ok", "revision", "heard"} = DOMAIN v.of[e]
               /\ v.of[e].revision \in 0 .. saves' /\ Genuine(v.of[e].heard, v.queue)'
    <3>1. CASE e = c
      <4>1. Genuine(v.of[e].heard, v.queue)
        BY <1>6, <1>7, <1>8, <1>9, <3>1
      <4> QED
        BY <1>1, <1>3, <1>5, <1>8, <1>9, <3>1, <4>1 DEF Genuine, Growing
    <3>2. CASE e # c
      <4>1. v.of[e] = d.of[e]
        BY <1>8, <3>2
      <4>2. /\ {"ok", "revision", "heard"} = DOMAIN d.of[e]
            /\ d.of[e].revision \in 0 .. saves /\ Genuine(d.of[e].heard, d.queue)
        BY <1>6 DEF IsDecisions
      <4> QED
        BY <1>1, <1>3, <1>5, <1>8, <4>1, <4>2 DEF Genuine, Growing
    <3> QED
      BY <3>1, <3>2
  <2> QED
    BY <1>8, <2>1 DEF IsDecisions
<1>11. ~WasHeld("decisions", v)
  <2> SUFFICES ASSUME NEW m \in moments, m["decisions"] = v PROVE FALSE
    BY DEF WasHeld
  <2>1. v # Absent
    BY <1>8, RecordsAreNotAbsent
  <2>2. v.of[c].revision \in 0 .. saves
    BY <2>1 DEF MomentsSound, IsPast
  <2> QED
    BY <1>3, <1>8, <1>9, <2>2
<1>12. /\ FilesSound' /\ MomentsSound' /\ FilesGoOn /\ SameAccesses
       /\ content["queue"] # Absent => content'["queue"] # Absent
  BY <1>1, <1>2, <1>5, <1>10, <1>11, FileReplaced
<1>13. ServerSound'
  <2>1. CASE saves + 1 = MaxSaves
    BY <1>1, <2>1 DEF ServerSound, NoServer, Genuine
  <2>2. CASE saves + 1 # MaxSaves
    <3>1. /\ server' = [server EXCEPT !.loaded = Absent]
          /\ DOMAIN server = {"queue", "loaded", "sending", "heard"}
      BY <1>1, <2>2 DEF ServerSound
    <3>2. /\ DOMAIN server' = {"queue", "loaded", "sending", "heard"}
          /\ server'.queue = server.queue /\ server'.loaded = Absent
          /\ server'.sending = server.sending /\ server'.heard = server.heard
      BY <3>1
    <3>3. Genuine(server.heard, server.queue)'
      BY <1>5, <1>7, <3>2 DEF Genuine, Growing
    <3> QED
      BY <1>4, <1>5, <1>12, <3>2, <3>3 DEF ServerSound, Growing
  <2> QED
    BY <2>1, <2>2
<1> QED
  BY <1>12, <1>13

(* The steps of the review server. *)
LEMMA ServerStep ==
  ASSUME FilesSound, MomentsSound, ServerSound,
         StartServer \/ StopServer \/ CheckAudio \/ SendAudio \/ LoadDecisions
  PROVE  FilesSound' /\ MomentsSound' /\ ServerSound' /\ FilesGoOn /\ SameAccesses
<1>1. UNCHANGED <<content, program, dataset, moments, edits, saves>>
  BY DEF StartServer, StopServer, CheckAudio, SendAudio, LoadDecisions, ServerOnly
<1>2. FilesSound'
  BY <1>1 DEF FilesSound, Stamped, IsQueue, IsDecisions, Genuine, AudioIsNew
<1>3. MomentsSound'
  BY <1>1 DEF MomentsSound, IsPast
<1>4. FilesGoOn /\ SameAccesses
  BY <1>1 DEF FilesGoOn, Growing, SameAccesses, AudioIsNew, FilesSound
<1>5. AudioIsNew' <=> AudioIsNew
  BY <1>1 DEF AudioIsNew
<1>6. \A d : IsDecisions(d) =>
        /\ "queue" \in DOMAIN d /\ "of" \in DOMAIN d /\ DOMAIN d.of = Clip
        /\ \A c \in Clip : /\ {"ok", "revision", "heard"} = DOMAIN d.of[c]
                           /\ d.of[c].revision \in 0 .. saves'
                           /\ \/ d.of[c].heard = Absent
                              \/ d.of[c].heard = d.queue.names["audio"] \/ AudioIsNew'
  BY <1>1, <1>5 DEF IsDecisions, Genuine
<1>7. DOMAIN server = {"queue", "loaded", "sending", "heard"}
  BY DEF ServerSound
<1>8. ServerSound'
  <2>1. CASE StartServer
    <3>1. server' = [NoServer EXCEPT !.queue = content["queue"]] /\ content["queue"] # Absent
      BY <2>1 DEF StartServer
    <3>2. /\ DOMAIN server' = {"queue", "loaded", "sending", "heard"}
          /\ ~server'.sending /\ server'.heard = Absent /\ server'.loaded = Absent
          /\ server'.queue = content["queue"]
      BY <3>1 DEF NoServer
    <3> QED
      BY <1>1, <3>1, <3>2 DEF ServerSound, Genuine
  <2>2. CASE StopServer
    BY <2>2 DEF StopServer, NoServer, ServerSound, Genuine
  <2>3. CASE CheckAudio
    <3>1. /\ server' = [server EXCEPT !.sending = TRUE] /\ server.queue # Absent
          /\ content["audio"] = server.queue.names["audio"]
      BY <2>3 DEF CheckAudio, ManifestIsSame
    <3>2. /\ DOMAIN server' = {"queue", "loaded", "sending", "heard"}
          /\ server'.heard = server.heard /\ server'.loaded = server.loaded
          /\ server'.queue = server.queue
      BY <1>7, <3>1
    <3> QED
      BY <1>1, <1>5, <1>6, <3>1, <3>2 DEF ServerSound, Genuine, IsDecisions
  <2>4. CASE SendAudio
    <3>1. server' = [server EXCEPT !.sending = FALSE, !.heard = content["audio"]] /\ server.sending
      BY <2>4 DEF SendAudio
    <3>2. /\ DOMAIN server' = {"queue", "loaded", "sending", "heard"} /\ ~server'.sending
          /\ server'.heard = content["audio"] /\ server'.loaded = server.loaded
          /\ server'.queue = server.queue
      BY <1>7, <3>1
    <3> QED
      BY <1>1, <1>5, <1>6, <3>1, <3>2 DEF ServerSound, Genuine, IsDecisions
  <2>5. CASE LoadDecisions
    <3> DEFINE none == [queue |-> server.queue, of |-> [c \in Clip |-> NoDecision]]
               all == content["decisions"]
    <3>1. /\ all # Absent => all.queue = server.queue
          /\ server' = [server EXCEPT !.loaded = IF all = Absent THEN none ELSE all]
      BY <2>5 DEF LoadDecisions
    <3>2. /\ DOMAIN server' = {"queue", "loaded", "sending", "heard"}
          /\ server'.sending = server.sending /\ server'.heard = server.heard
          /\ server'.queue = server.queue /\ server'.loaded = IF all = Absent THEN none ELSE all
      BY <1>7, <3>1
    <3>3. server'.loaded.queue = server.queue
      BY <3>1, <3>2
    <3>4. IsDecisions(server.loaded)'
      <4>1. CASE all = Absent
        <5>1. server'.loaded = none
          BY <3>2, <4>1
        <5>2. 0 \in 0 .. saves'
          BY <1>1 DEF FilesSound
        <5> QED
          BY <5>1, <5>2 DEF IsDecisions, NoDecision, Genuine
      <4>2. CASE all # Absent
        <5>1. server'.loaded = all /\ IsDecisions(all)
          BY <3>2, <4>2 DEF FilesSound
        <5> QED
          BY <1>6, <5>1 DEF IsDecisions, Genuine
      <4> QED
        BY <4>1, <4>2
    <3>5. Genuine(server.heard, server.queue)'
      BY <1>5, <3>2 DEF ServerSound, Genuine
    <3> QED
      BY <1>1, <1>5, <3>2, <3>3, <3>4, <3>5 DEF ServerSound
  <2> QED
    BY <2>1, <2>2, <2>3, <2>4, <2>5
<1> QED
  BY <1>2, <1>3, <1>4, <1>8

-----------------------------------------------------------------------------
(* Steps with which a command begins or ends.                              *)

(* Without a running command there is nothing to keep.                                      *)
LEMMA IdleIsSound ==
  ASSUME program' = Idle, moments' = {}
  PROVE  /\ MomentsSound' /\ Commanded' /\ Known' /\ OneMoment' /\ CutOnce' /\ PairAgrees'
         /\ FollowsPlan'
<1>1. program'.name = "idle" /\ DOMAIN program' = {"name", "at", "seen"}
  BY DEF Idle
<1> QED
  BY <1>1 DEF MomentsSound, Commanded, Known, OneMoment, CutOnce, PairAgrees, FollowsPlan

(* A command begins with one moment, the files as they are.                                 *)
LEMMA BeginStep ==
  ASSUME FilesSound, NEW name \in PipelineCommands, Begin(name)
  PROVE  /\ MomentsSound' /\ Commanded' /\ Known' /\ OneMoment' /\ CutOnce' /\ PairAgrees'
         /\ FollowsPlan'
<1>1. /\ program'.name = name /\ program'.at = 1 /\ DOMAIN program' = {"name", "at", "seen"}
      /\ moments' = {content} /\ content' = content /\ edits' = edits /\ saves' = saves
  BY DEF Begin
<1>2. name # "idle"
  BY DEF PipelineCommands
<1>3. /\ Len(Script(name)) \in Nat /\ Pivot(name) \in Nat /\ Pivot(name) \in DOMAIN Script(name)
      /\ DOMAIN Script(name) = 1 .. Len(Script(name))
  BY ScriptsLookTwice
<1>4. MomentsSound'
  <2>1. \A f \in Dated : content[f] = Absent \/ content[f].version \in 0 .. edits
    BY DEF FilesSound, Stamped
  <2>2. content["decisions"] = Absent
          \/ \A c \in Clip : content["decisions"].of[c].revision \in 0 .. saves
    BY DEF FilesSound, IsDecisions
  <2> QED
    BY <1>1, <2>1, <2>2 DEF MomentsSound, IsPast
<1>5. Commanded'
  BY <1>1, <1>3 DEF Commanded
<1>6. Known'
  BY <1>1, <1>3 DEF Known
<1>7. OneMoment'
  BY <1>1, <1>3 DEF OneMoment
<1>8. CutOnce' /\ FollowsPlan'
  BY <1>1 DEF CutOnce, FollowsPlan
<1>9. PairAgrees'
  <2>1. SUFFICES ASSUME name \in {"export", "dataset"} PROVE PairAgrees'
    BY <1>1 DEF PairAgrees
  <2>2. PairBase(name) \in {2, 29}
    BY DEF PairBase
  <2>3. LET b == PairBase(name) IN
        ~(1 > 2) /\ ~(1 > b + 1) /\ ~(1 > b + 2) /\ ~(1 > b + 6) /\ ~(1 > b + 7)
          /\ ~(1 > b + 8) /\ ~(1 > b + 12)
    BY <2>2
  <2> QED
    BY <1>1, <2>3 DEF PairAgrees
<1> QED
  BY <1>4, <1>5, <1>6, <1>7, <1>8, <1>9

(* The commands that publish one file. *)
LEMMA PublishStep ==
  ASSUME FilesSound, ServerSound, NEW name, NEW file \in Dated \ {"queue", "audio"}, NEW value,
         "version" \in DOMAIN value, value.version = 0, Publish(name, file, value)
  PROVE  /\ FilesSound' /\ ServerSound' /\ program' = Idle /\ moments' = {}
         /\ dataset' = dataset
<1>1. /\ content' = [content EXCEPT ![file] = value]
      /\ program' = Idle /\ moments' = {} /\ server' = server
      /\ dataset' = dataset /\ edits' = edits /\ saves' = saves
  BY DEF Publish
<1>2. file \in FileNames /\ "audio" \in FileNames /\ "queue" \in FileNames
      /\ DOMAIN content = FileNames /\ edits \in Nat /\ saves \in Nat
  BY DEF Dated, FileNames, FilesSound
<1>3. content'["audio"] = content["audio"] /\ content'["queue"] = content["queue"]
  BY <1>1, <1>2
<1>4. Growing
  BY <1>1, <1>2, <1>3, GrowsWithout
<1>5. Stamped(value)'
  BY <1>1, <1>2 DEF Stamped
<1>6. file \notin {"decisions", "plan", "queue", "audio"}
  BY DEF Dated
<1>7. FilesSound'
  BY <1>1, <1>2, <1>4, <1>5, <1>6, FilesStaySound
<1>8. ServerSound'
  BY <1>1, <1>3, <1>4, ServerStaysSound
<1> QED
  BY <1>1, <1>7, <1>8

(* PublishMedia, PublishRanges and PublishEvidence.                                         *)
LEMMA PublishFileStep ==
  ASSUME FilesSound, ServerSound, PublishMedia \/ PublishRanges \/ PublishEvidence
  PROVE  /\ FilesSound' /\ ServerSound' /\ program' = Idle /\ moments' = {}
         /\ dataset' = dataset
<1>1. PICK name \in PipelineCommands, file \in {"media", "ranges", "evidence"} :
        \E value, names : value = [version |-> 0, names |-> names] /\ Publish(name, file, value)
  BY DEF PublishMedia, PublishRanges, PublishEvidence, PipelineCommands
<1>2. PICK value : /\ \E names : value = [version |-> 0, names |-> names]
                   /\ Publish(name, file, value)
  BY <1>1
<1>3. "version" \in DOMAIN value /\ value.version = 0
  BY <1>2
<1>4. file \in Dated \ {"queue", "audio"}
  BY DEF Dated, FileNames
<1>5. Publish(name, file, value)
  BY <1>2
<1> QED
  BY <1>3, <1>4, <1>5, PublishStep

(* PublishQueue: its audio was cut from the source it names.                                *)
LEMMA PublishQueueStep ==
  ASSUME FilesSound, ServerSound, CutOnce, PublishQueue
  PROVE  /\ FilesSound' /\ ServerSound' /\ program' = Idle /\ moments' = {}
         /\ dataset' = dataset
<1> DEFINE seen == program.seen
<1>1. PICK audio : audio = [version |-> 0, cut |-> program.seen["cut"]]
  OBVIOUS
<1>2. PICK names : names = With(Names(ToSet(Inputs)), "audio", audio)
  OBVIOUS
<1>3. PICK queue : queue = [version |-> 0, names |-> names]
  OBVIOUS
<1>4. /\ content["queue"] = Absent
      /\ content' = [content EXCEPT !["audio"] = audio, !["queue"] = queue]
      /\ program' = Idle /\ moments' = {} /\ server' = server
      /\ dataset' = dataset /\ edits' = edits /\ saves' = saves
      /\ program.name = "queue" /\ program.at = Len(QueueScript) + 1
  BY <1>1, <1>2, <1>3 DEF PublishQueue, Done, Script
<1>5. seen["cut"] = seen["source"]
  <2>1. program.at = 12
    BY <1>4, QueueSteps
  <2> QED
    BY <1>4, <2>1 DEF CutOnce
<1>6. names["audio"] = audio /\ names["source"] = seen["source"]
  BY <1>2, FilesAre DEF With, Names
<1>7. /\ "version" \in DOMAIN audio /\ audio.version = 0 /\ audio.cut = seen["cut"]
      /\ "version" \in DOMAIN queue /\ queue.version = 0
      /\ "names" \in DOMAIN queue /\ queue.names = names
  BY <1>1, <1>3
<1>8. /\ DOMAIN content = FileNames /\ edits \in Nat /\ saves \in Nat
      /\ content["audio"] = Absent
  BY <1>4 DEF FilesSound
<1>9. /\ content'["audio"] = audio /\ content'["queue"] = queue /\ DOMAIN content' = FileNames
      /\ \A f \in FileNames \ {"audio", "queue"} : content'[f] = content[f]
  BY <1>4, <1>8 DEF FileNames
<1>10. Growing
  BY <1>4, <1>8 DEF Growing, AudioIsNew
<1>11. audio # Absent /\ queue # Absent
  BY <1>7, RecordsAreNotAbsent
<1>12. IsQueue(queue)'
  BY <1>4, <1>5, <1>6, <1>7, <1>8 DEF IsQueue, Stamped
<1>13. FilesSound'
  <2>1. \A f \in Dated : content'[f] = Absent \/ Stamped(content[f])'
    <3>1. \A f \in Dated : f \in FileNames
      BY DEF Dated
    <3>2. \A f \in Dated \ {"audio", "queue"} : content'[f] = Absent \/ Stamped(content[f])'
      BY <1>4, <1>9, <3>1 DEF FilesSound, Stamped
    <3>3. Stamped(content["audio"])' /\ Stamped(content["queue"])'
      BY <1>4, <1>7, <1>8, <1>9 DEF Stamped
    <3> QED
      BY <3>2, <3>3
  <2>2. IsQueue(content["queue"])'
    BY <1>9, <1>12 DEF IsQueue, Stamped
  <2>3. content'["decisions"] = Absent \/ IsDecisions(content["decisions"])'
    <3>1. content'["decisions"] = content["decisions"]
      BY <1>9 DEF FileNames
    <3>2. content["decisions"] = Absent \/ IsDecisions(content["decisions"])
      BY DEF FilesSound
    <3>3. ASSUME NEW d, IsDecisions(d) PROVE IsDecisions(d)'
      BY <1>10, <3>3, DecisionsGoOn
    <3>4. \A d : IsDecisions(d) =>
            /\ "queue" \in DOMAIN d /\ "of" \in DOMAIN d /\ DOMAIN d.of = Clip
            /\ \A c \in Clip : /\ {"ok", "revision", "heard"} = DOMAIN d.of[c]
                               /\ d.of[c].revision \in 0 .. saves'
                               /\ \/ d.of[c].heard = Absent
                                  \/ d.of[c].heard = d.queue.names["audio"] \/ AudioIsNew'
      BY <3>3 DEF IsDecisions, Genuine
    <3> QED
      BY <3>1, <3>2, <3>4 DEF IsDecisions, Genuine
  <2>4. content'["plan"] = content["plan"]
    BY <1>9 DEF FileNames
  <2> QED
    BY <1>4, <1>8, <1>9, <1>11, <2>1, <2>2, <2>3, <2>4 DEF FilesSound
<1>14. ServerSound'
  BY <1>4, <1>9, <1>10, <1>11, ServerStaysSound
<1> QED
  BY <1>4, <1>13, <1>14

(* The plan is created: the command goes on, and only the plan is another. *)
LEMMA CreatePlanStep ==
  ASSUME FilesSound, MomentsSound, ServerSound, Commanded, CreatePlan
  PROVE  /\ FilesSound' /\ MomentsSound' /\ ServerSound' /\ Commanded'
         /\ FilesGoOn /\ SameAccesses /\ dataset' = dataset
<1>1. /\ program.name = "export" /\ program.at = Len(ExportScript) + 1
      /\ content' = [content EXCEPT !["plan"] = Torn]
      /\ program' = [program EXCEPT !.at = @ + 1]
      /\ UNCHANGED <<server, dataset, moments, edits, saves>>
  BY DEF CreatePlan, Done, Script
<1>2. /\ DOMAIN program = {"name", "at", "seen"} /\ DOMAIN content = FileNames
      /\ edits \in Nat /\ saves \in Nat
  BY DEF Commanded, FilesSound
<1>3. Script(program.name) = ExportScript /\ Len(ExportScript) = 22
  BY <1>1, ExportSteps DEF Script
<1>4. /\ DOMAIN program' = DOMAIN program /\ program'.name = program.name
      /\ program'.seen = program.seen /\ program'.at = program.at + 1
  BY <1>1, <1>2
<1>5. SameAccesses
  <2>1. program.at = 23 /\ program'.at = 24
    BY <1>1, <1>3, <1>4
  <2>2. \A k \in 0 .. 22 : k < program'.at <=> k < program.at
    BY <2>1
  <2> QED
    BY <1>3, <1>4, <2>2 DEF SameAccesses
<1>6. Commanded'
  <2>1. program'.at \in 1 .. Len(Script(program'.name)) + 2
    <3>1. program.at = 23
      BY <1>1, <1>3
    <3>2. program'.at = 24
      BY <1>4, <3>1
    <3>3. Script(program'.name) = ExportScript
      BY <1>3, <1>4
    <3>4. Len(Script(program'.name)) = 22
      BY <1>3, <3>3
    <3>5. \A n : n = 22 => 24 \in 1 .. n + 2
      OBVIOUS
    <3> QED
      BY <3>2, <3>4, <3>5
  <2> QED
    BY <1>1, <1>2, <1>4, <2>1 DEF Commanded, PipelineCommands
<1>7. \A f \in Lasting : content'[f] = content[f]
  BY <1>1, <1>2 DEF Lasting
<1>8. "audio" \in Lasting /\ "queue" \in Lasting /\ "decisions" \in Lasting
      /\ "plan" \in FileNames /\ "plan" \notin Dated
  BY DEF Lasting, FileNames, Dated
<1>9. Growing
  BY <1>1, <1>2, <1>7, <1>8, GrowsWithout
<1>10. FilesGoOn
  BY <1>1, <1>7, <1>9 DEF FilesGoOn
<1>11. FilesSound'
  BY <1>1, <1>8, <1>9, FilesStaySound
<1>12. ServerSound'
  BY <1>1, <1>7, <1>8, <1>9, ServerStaysSound
<1>13. MomentsSound'
  <2>1. \A f \in Dated : content'[f] = content[f]
    BY <1>7 DEF Dated, Lasting
  <2>2. ASSUME NEW m \in moments PROVE IsPast(m)'
    <3>1. IsPast(m)
      BY DEF MomentsSound
    <3> QED
      BY <1>1, <1>7, <1>8, <2>1, <3>1 DEF IsPast
  <2>3. program.name # "idle" => \E m \in moments : \A f \in Lasting : m[f] = content'[f]
    BY <1>7 DEF MomentsSound
  <2> QED
    BY <1>1, <1>4, <2>2, <2>3 DEF MomentsSound
<1> QED
  BY <1>1, <1>5, <1>6, <1>10, <1>11, <1>12, <1>13

(* FillPlan: the plan has its four names.                                                   *)
LEMMA FillPlanStep ==
  ASSUME FilesSound, ServerSound, FillPlan
  PROVE  /\ FilesSound' /\ ServerSound' /\ program' = Idle /\ moments' = {}
         /\ dataset' = dataset
<1>1. PICK names : names = With(Names({"authorization", "queue", "decisions"}),
                                "source", program.seen["queue"].names["source"])
  OBVIOUS
<1>2. PICK plan : plan = [names |-> names, clips |-> Approved(program.seen["loaded"])]
  OBVIOUS
<1>3. /\ content' = [content EXCEPT !["plan"] = plan]
      /\ program' = Idle /\ moments' = {} /\ UNCHANGED <<server, dataset, edits, saves>>
  BY <1>1, <1>2 DEF FillPlan
<1>4. DOMAIN plan.names = PlanNames
  BY <1>1, <1>2 DEF With, Names, PlanNames
<1>5. /\ "audio" \in FileNames /\ "queue" \in FileNames
      /\ "plan" \in FileNames /\ "plan" \notin Dated
  BY DEF FileNames, Dated
<1>6. DOMAIN content = FileNames /\ edits \in Nat /\ saves \in Nat
  BY DEF FilesSound
<1>7. content'["audio"] = content["audio"] /\ content'["queue"] = content["queue"]
  BY <1>3, <1>5, <1>6
<1>8. Growing
  BY <1>3, <1>6, <1>7, GrowsWithout
<1>9. FilesSound'
  BY <1>3, <1>4, <1>5, <1>8, FilesStaySound
<1>10. ServerSound'
  BY <1>3, <1>7, <1>8, ServerStaysSound
<1> QED
  BY <1>3, <1>9, <1>10

(* When the accesses are over, one moment held everything that the command names. *)
LEMMA AllWasSeen ==
  ASSUME Commanded, OneMoment, program.name \in PipelineCommands,
         program.at > Len(Script(program.name))
  PROVE  \E m \in moments : \A f \in Named(program.name) : m[f] = program.seen[f]
<1> DEFINE S == Script(program.name)
           p == Pivot(program.name)
<1>1. /\ DOMAIN S = 1 .. Len(S) /\ Len(S) \in Nat /\ p \in DOMAIN S /\ p \in Nat
      /\ \A f \in Named(program.name) : \E i \in DOMAIN S : p < i /\ S[i] = <<f, "seen">>
  BY ScriptsLookTwice
<1>2. program.name # "idle"
  BY DEF PipelineCommands
<1>3. program.at \in Nat
  BY <1>1, <1>2 DEF Commanded
<1>4. program.at > p /\ \A i \in DOMAIN S : i < program.at
  <2>1. program.at > Len(S)
    OBVIOUS
  <2> HIDE DEF S, p
  <2> QED
    BY <1>1, <1>3, <2>1
<1>5. PICK m \in moments : \A f \in Named(program.name) :
        \/ m[f] = program.seen[f]
        \/ \A i \in DOMAIN S : p < i /\ i < program.at => S[i] # <<f, "seen">>
  BY <1>2, <1>4 DEF OneMoment
<1> QED
  BY <1>1, <1>4, <1>5

(* The last round of evidence agrees with the plan. *)
LEMMA DatasetAgrees ==
  ASSUME PairAgrees, FollowsPlan, Done("dataset")
  PROVE  LET seen == program.seen  names == seen["plan"].names IN
         /\ DOMAIN names = PlanNames /\ IsQueue(seen["queue"])
         /\ seen["queue"] = names["queue"] /\ seen["loaded"] = names["decisions"]
         /\ seen["decisions"] = names["decisions"]
         /\ seen["source"] = names["source"] /\ seen["authorization"] = names["authorization"]
         /\ seen["queue"].names["source"] = names["source"]
         /\ seen["cut"] = names["source"] /\ seen["authorization"].allowed
         /\ seen["loaded"].queue = seen["queue"]
         /\ Approved(seen["loaded"]) = seen["plan"].clips
         /\ \A c \in Clip : seen["loaded"].of[c].heard \in {Absent, seen["queue"].names["audio"]}
<1>1. program.name = "dataset" /\ program.at = 48
  <2>1. program.name = "dataset" /\ program.at = Len(DatasetScript) + 1
    BY DEF Done, Script
  <2>2. Len(DatasetScript) = 47
    BY DatasetSteps
  <2> QED
    BY <2>1, <2>2
<1>2. PairBase("dataset") = 29
  BY DEF PairBase
<1>3. /\ 48 > 29 + 1 /\ 48 > 29 + 2 /\ 48 > 29 + 6 /\ 48 > 29 + 7 /\ 48 > 29 + 8 /\ 48 > 29 + 12
      /\ 48 > 1 /\ 48 > 2 /\ 48 > 26 /\ 48 > 39 /\ 48 > 47
  OBVIOUS
<1> DEFINE seen == program.seen
           names == seen["plan"].names
<1>4. /\ IsQueue(seen["queue"])
      /\ seen["source"] = seen["queue"].names["source"]
      /\ seen["authorization"] = seen["queue"].names["authorization"]
      /\ seen["authorization"].allowed /\ seen["loaded"].queue = seen["queue"]
      /\ \A c \in Clip : seen["loaded"].of[c].heard \in {Absent, seen["queue"].names["audio"]}
  BY <1>1, <1>2, <1>3 DEF PairAgrees
<1>5. /\ DOMAIN names = PlanNames /\ seen["cut"] = names["source"] /\ EvidenceAgrees(seen)
      /\ seen["loaded"] = names["decisions"] \/ seen["decisions"] # names["decisions"]
  BY <1>1, <1>3 DEF FollowsPlan
<1>6. /\ seen["queue"] = names["queue"] /\ seen["decisions"] = names["decisions"]
      /\ seen["queue"].names["source"] = names["source"]
      /\ seen["queue"].names["authorization"] = names["authorization"]
      /\ Approved(seen["loaded"]) = seen["plan"].clips
  BY <1>5 DEF EvidenceAgrees
<1> HIDE DEF seen, names
<1>7. /\ seen["loaded"] = names["decisions"] /\ seen["source"] = names["source"]
      /\ seen["authorization"] = names["authorization"]
  BY <1>4, <1>5, <1>6
<1> QED
  BY <1>4, <1>5, <1>6, <1>7, Zenon DEF seen, names

(* PublishDataset: all that the second round compared is what the dataset says.             *)
LEMMA PublishDatasetStep ==
  ASSUME PairAgrees, FollowsPlan, PublishDataset
  PROVE  DatasetIsReviewed' /\ program' = Idle /\ moments' = {}
<1> DEFINE seen == program.seen
           names == seen["plan"].names
<1>1. /\ Done("dataset") /\ program' = Idle /\ moments' = {}
      /\ dataset' = [names |-> names, cut |-> seen["cut"], clips |-> seen["plan"].clips]
  BY DEF PublishDataset
<1>2. dataset'.names = names /\ dataset'.cut = seen["cut"] /\ dataset'.clips = seen["plan"].clips
  BY <1>1
<1>3. /\ IsQueue(seen["queue"])
      /\ seen["queue"] = names["queue"] /\ seen["loaded"] = names["decisions"]
      /\ seen["authorization"] = names["authorization"]
      /\ seen["queue"].names["source"] = names["source"]
      /\ seen["cut"] = names["source"] /\ seen["authorization"].allowed
      /\ seen["loaded"].queue = seen["queue"]
      /\ Approved(seen["loaded"]) = seen["plan"].clips
      /\ \A c \in Clip : seen["loaded"].of[c].heard \in {Absent, seen["queue"].names["audio"]}
  BY <1>1, DatasetAgrees
<1> HIDE DEF seen, names
<1>4. seen["queue"].names["audio"].cut = seen["queue"].names["source"]
  BY <1>3 DEF IsQueue
<1>5. dataset'.clips = Approved(names["decisions"])
  BY <1>2, <1>3
<1>6. DOMAIN dataset'.clips \subseteq Clip
  BY <1>5 DEF Approved
<1>7. /\ names["decisions"].queue = names["queue"] /\ names["queue"].names["source"] = names["source"]
      /\ dataset'.cut = names["queue"].names["audio"].cut /\ names["authorization"].allowed
  BY <1>2, <1>3, <1>4
<1>8. \A c \in DOMAIN dataset'.clips :
        names["decisions"].of[c].heard \in {Absent, names["queue"].names["audio"]}
  BY <1>3, <1>6
<1> QED
  BY <1>1, <1>2, <1>5, <1>7, <1>8 DEF DatasetIsReviewed, Approved

-----------------------------------------------------------------------------
(* The invariant.                                                          *)

(* The invariant holds when the authorization, the tools and the video are all there is, ... *)
LEMMA PipelineInitSound == PipelineInit => PipelineIInv
<1> SUFFICES ASSUME PipelineInit PROVE PipelineIInv
  OBVIOUS
<1>1. /\ content = [f \in FileNames |->
                      CASE f = "authorization" -> [version |-> 0, allowed |-> TRUE]
                        [] f \in {"authorization", "tools", "video"} -> [version |-> 0]
                        [] OTHER -> Absent]
      /\ server = NoServer /\ program = Idle /\ dataset = Absent
      /\ moments = {} /\ edits = 0 /\ saves = 0
  BY FilesAre DEF PipelineInit
<1>2. /\ content["queue"] = Absent /\ content["audio"] = Absent /\ content["decisions"] = Absent
      /\ content["plan"] = Absent
  BY <1>1 DEF FileNames
<1>3. \A f \in Dated : content[f] = Absent \/ Stamped(content[f])
  <2>1. \A f \in FileNames : \/ content[f] = Absent \/ content[f] = [version |-> 0]
                             \/ content[f] = [version |-> 0, allowed |-> TRUE]
    BY <1>1 DEF FileNames
  <2>2. \A f \in Dated : f \in FileNames
    BY DEF Dated
  <2>3. Stamped([version |-> 0]) /\ Stamped([version |-> 0, allowed |-> TRUE])
    BY <1>1 DEF Stamped
  <2> QED
    BY <2>1, <2>2, <2>3
<1>4. FilesSound
  BY <1>1, <1>2, <1>3 DEF FilesSound
<1>5. program.name = "idle" /\ DOMAIN program = {"name", "at", "seen"}
  BY <1>1 DEF Idle
<1>6. MomentsSound /\ Commanded /\ Known /\ OneMoment /\ CutOnce /\ PairAgrees /\ FollowsPlan
  BY <1>1, <1>5 DEF MomentsSound, Commanded, Known, OneMoment, CutOnce, PairAgrees, FollowsPlan
<1>7. ServerSound
  BY <1>1 DEF ServerSound, NoServer, Genuine
<1> QED
  BY <1>1, <1>4, <1>6, <1>7 DEF PipelineIInv, DatasetIsReviewed

\* A step under which the command stands still keeps what it has found out.
LEMMA CommandGoesOn ==
  ASSUME Commanded, Known, OneMoment, CutOnce, PairAgrees, FollowsPlan, SameAccesses, FilesGoOn
  PROVE  Known' /\ OneMoment' /\ CutOnce' /\ PairAgrees' /\ FollowsPlan'
  BY KnownGoesOn, OneMomentGoesOn, CutGoesOn, PairGoesOn, PlanGoesOn

(* A dataset that does not change stays reviewed.                                           *)
LEMMA DatasetStays == ASSUME DatasetIsReviewed, dataset' = dataset PROVE DatasetIsReviewed'
  BY DEF DatasetIsReviewed, Approved

(* ... and every step keeps it.                                                             *)
LEMMA PipelineStepSound == PipelineIInv /\ [PipelineNext]_pipelineVars => PipelineIInv'
<1> SUFFICES ASSUME PipelineIInv, [PipelineNext]_pipelineVars PROVE PipelineIInv'
  OBVIOUS
<1>0. /\ FilesSound /\ MomentsSound /\ ServerSound /\ Commanded /\ Known /\ OneMoment /\ CutOnce
      /\ PairAgrees /\ FollowsPlan /\ DatasetIsReviewed
  BY DEF PipelineIInv
<1> DEFINE Kept == /\ FilesSound' /\ MomentsSound' /\ ServerSound' /\ FilesGoOn /\ SameAccesses
<1>1. ASSUME Kept, Commanded', dataset' = dataset PROVE PipelineIInv'
  BY <1>0, <1>1, CommandGoesOn, DatasetStays DEF PipelineIInv
<1>2. ASSUME program' = program PROVE Commanded'
  BY <1>0, <1>2 DEF Commanded
<1>3. ASSUME FilesSound', ServerSound', program' = Idle, moments' = {}, dataset' = dataset
      PROVE  PipelineIInv'
  BY <1>0, <1>3, IdleIsSound, DatasetStays DEF PipelineIInv
<1>4. ASSUME UNCHANGED <<content, edits, saves>> PROVE FilesSound'
  BY <1>0, <1>4 DEF FilesSound, Stamped, IsQueue, IsDecisions, Genuine, AudioIsNew
<1>5. ASSUME UNCHANGED <<content, server, edits, saves>> PROVE ServerSound'
  BY <1>0, <1>5 DEF ServerSound, IsDecisions, Genuine, AudioIsNew
<1> HIDE DEF Kept
<1>6. ASSUME NEW name \in PipelineCommands, Begin(name) PROVE PipelineIInv'
  <2>1. UNCHANGED <<content, server, dataset, edits, saves>>
    BY <1>6 DEF Begin
  <2> QED
    BY <1>0, <1>4, <1>5, <1>6, <2>1, BeginStep, DatasetStays DEF PipelineIInv
<1>7. ASSUME Access PROVE PipelineIInv'
  <2>1. UNCHANGED <<content, server, dataset, moments, edits, saves>>
    BY <1>7 DEF Access
  <2>2. Known' /\ OneMoment' /\ CutOnce' /\ PairAgrees' /\ FollowsPlan'
    BY <1>0, <1>7, KnownAccess, OneMomentAccess, CutAccess, PairAccess, PlanAccess
  <2>3. /\ program.name \in PipelineCommands /\ program.at \in DOMAIN Script(program.name)
        /\ DOMAIN Script(program.name) = 1 .. Len(Script(program.name))
        /\ Len(Script(program.name)) \in Nat
        /\ DOMAIN program' = DOMAIN program /\ program'.name = program.name
        /\ program'.at = program.at + 1
    BY <1>0, <1>7, AccessIs
  <2>4. Commanded'
    <3>1. program'.at \in 1 .. Len(Script(program.name)) + 2
      BY <2>3
    <3> QED
      BY <1>0, <2>3, <3>1 DEF Commanded
  <2>5. MomentsSound'
    BY <1>0, <2>1, <2>3 DEF MomentsSound, IsPast, PipelineCommands
  <2> QED
    BY <1>0, <1>4, <1>5, <2>1, <2>2, <2>4, <2>5, DatasetStays DEF PipelineIInv
<1>8. ASSUME Abandon PROVE PipelineIInv'
  BY <1>3, <1>4, <1>5, <1>8 DEF Abandon
<1>9. ASSUME PublishMedia \/ PublishRanges \/ PublishEvidence PROVE PipelineIInv'
  BY <1>0, <1>3, <1>9, PublishFileStep
<1>10. ASSUME PublishQueue PROVE PipelineIInv'
  BY <1>0, <1>3, <1>10, PublishQueueStep
<1>11. ASSUME CreatePlan PROVE PipelineIInv'
  BY <1>0, <1>1, <1>11, CreatePlanStep DEF Kept
<1>12. ASSUME FillPlan PROVE PipelineIInv'
  BY <1>0, <1>3, <1>12, FillPlanStep
<1>13. ASSUME PublishDataset PROVE PipelineIInv'
  <2>1. UNCHANGED <<content, server, edits, saves>>
    BY <1>13 DEF PublishDataset
  <2> QED
    BY <1>0, <1>4, <1>5, <1>13, <2>1, PublishDatasetStep, IdleIsSound DEF PipelineIInv
<1>14. ASSUME StartServer \/ StopServer \/ CheckAudio \/ SendAudio \/ LoadDecisions
       PROVE  PipelineIInv'
  <2>1. program' = program /\ dataset' = dataset
    BY <1>14 DEF StartServer, StopServer, CheckAudio, SendAudio, LoadDecisions, ServerOnly
  <2> QED
    BY <1>0, <1>1, <1>2, <1>14, <2>1, ServerStep DEF Kept
<1>15. ASSUME NEW c \in Clip, NEW ok \in BOOLEAN, StoreDecision(c, ok) PROVE PipelineIInv'
  <2>1. program' = program /\ dataset' = dataset
    BY <1>15 DEF StoreDecision
  <2> QED
    BY <1>0, <1>1, <1>2, <1>15, <2>1, StoreStep DEF Kept
<1>16. ASSUME Convert \/ Transcribe \/ Retranscribe PROVE PipelineIInv'
  <2>1. program' = program /\ dataset' = dataset
    BY <1>16 DEF Convert, Transcribe, Retranscribe, Made
  <2> QED
    BY <1>0, <1>1, <1>2, <1>16, <2>1, ConvertStep, TranscribeStep, RetranscribeStep DEF Kept
<1>17. ASSUME NEW f \in FileNames, Edit(f) PROVE PipelineIInv'
  <2>1. program' = program /\ dataset' = dataset
    BY <1>17 DEF Edit
  <2> QED
    BY <1>0, <1>1, <1>2, <1>17, <2>1, EditStep DEF Kept
<1>18. CASE UNCHANGED pipelineVars
  <2>1. /\ UNCHANGED <<content, server, dataset, moments, edits, saves>> /\ program' = program
    BY <1>18 DEF pipelineVars
  <2>2. FilesGoOn /\ SameAccesses
    BY <1>0, <2>1 DEF FilesGoOn, Growing, SameAccesses, AudioIsNew, FilesSound
  <2>3. MomentsSound'
    BY <1>0, <2>1 DEF MomentsSound, IsPast
  <2> QED
    BY <1>1, <1>2, <1>4, <1>5, <2>1, <2>2, <2>3 DEF Kept
<1> QED
  BY <1>6, <1>7, <1>8, <1>9, <1>10, <1>11, <1>12, <1>13, <1>14, <1>15, <1>16, <1>17, <1>18, FilesAre
     DEF PipelineNext, PipelineCommands

(* The dataset is what was reviewed: its clips are the approved ones in their reviewed   *)
(* wording, cut from the source that the reviewed audio was cut from.                    *)
THEOREM DatasetStaysReviewed == PipelineSpec => []DatasetIsReviewed
<1>1. PipelineIInv => DatasetIsReviewed
  BY DEF PipelineIInv
<1> QED
  BY PipelineInitSound, PipelineStepSound, <1>1, PTL DEF PipelineSpec

-----------------------------------------------------------------------------
(* What is published describes one moment.                                 *)

(* The names that a command gives its output are files it read, all of one moment. *)
LEMMA NamesWereSo ==
  ASSUME Commanded, OneMoment, NEW name \in PipelineCommands, Done(name),
         NEW names, DOMAIN names \ {"audio"} \subseteq Named(name),
         \A f \in DOMAIN names \ {"audio"} : names[f] = program.seen[f]
  PROVE  WasSo(names)
<1>1. /\ Len(Script(name)) \in Nat
      /\ program.name = name /\ program.at = Len(Script(name)) + 1
  BY ScriptsLookTwice DEF Done
<1>2. program.at > Len(Script(program.name))
  <2>1. \A n \in Nat : n + 1 > n
    OBVIOUS
  <2> QED
    BY <1>1, <2>1
<1>3. \E m \in moments : \A f \in Named(program.name) : m[f] = program.seen[f]
  BY <1>1, <1>2, AllWasSeen
<1> QED
  BY <1>1, <1>3 DEF WasSo

(* PublishMedia, PublishRanges and PublishEvidence. *)
LEMMA PublishedFileWasSo ==
  ASSUME FilesSound, Commanded, OneMoment, PublishMedia \/ PublishRanges \/ PublishEvidence
  PROVE  \A f \in FileNames : content'[f] # content[f] => WasSo(content'[f].names)
<1>1. ASSUME NEW name \in PipelineCommands, NEW file \in FileNames, NEW files,
             files \subseteq Named(name), "audio" \notin files,
             Publish(name, file, [version |-> 0, names |-> Names(files)])
      PROVE  \A f \in FileNames : content'[f] # content[f] => WasSo(content'[f].names)
  <2>1. PICK names : names = Names(files)
    OBVIOUS
  <2>2. DOMAIN names = files /\ \A f \in files : names[f] = program.seen[f]
    BY <2>1 DEF Names
  <2>3. /\ Done(name) /\ content' = [content EXCEPT ![file] = [version |-> 0, names |-> names]]
        /\ DOMAIN content = FileNames
    BY <1>1, <2>1 DEF Publish, FilesSound
  <2>4. WasSo(names)
    BY <1>1, <2>2, <2>3, NamesWereSo
  <2>5. content'[file].names = names
    BY <2>3
  <2>6. \A f \in FileNames \ {file} : content'[f] = content[f]
    BY <2>3
  <2> QED
    BY <2>4, <2>5, <2>6
<1>2. CASE PublishMedia
  <2>1. Publish("acquire", "media",
                [version |-> 0, names |-> Names({"authorization", "tools", "video"})])
    BY <1>2, FilesAre DEF PublishMedia
  <2>2. "acquire" \in PipelineCommands /\ "media" \in FileNames
        /\ Named("acquire") = {"authorization", "tools", "video"}
    BY DEF PipelineCommands, FileNames, Named
  <2> QED
    BY <1>1, <2>1, <2>2
<1>3. CASE PublishRanges
  <2>1. "segment" \in PipelineCommands /\ "ranges" \in FileNames /\ Named("segment") = {"source"}
    BY DEF PipelineCommands, FileNames, Named
  <2> QED
    BY <1>1, <1>3, <2>1 DEF PublishRanges
<1>4. CASE PublishEvidence
  <2>1. "evidence" \in PipelineCommands /\ "evidence" \in FileNames
        /\ Named("evidence") = {"source", "transcript"}
    BY DEF PipelineCommands, FileNames, Named
  <2> QED
    BY <1>1, <1>4, <2>1 DEF PublishEvidence
<1> QED
  BY <1>2, <1>3, <1>4

(* PublishQueue: a queue names its inputs and the audio that was cut for it. *)
LEMMA PublishedQueueWasSo ==
  ASSUME FilesSound, Commanded, OneMoment, PublishQueue
  PROVE  /\ WasSo(content'["queue"].names)
         /\ \A f \in FileNames \ {"audio", "queue"} : content'[f] = content[f]
<1>1. PICK audio : audio = [version |-> 0, cut |-> program.seen["cut"]]
  OBVIOUS
<1>2. PICK names : names = With(Names(ToSet(Inputs)), "audio", audio)
  OBVIOUS
<1>3. /\ Done("queue") /\ DOMAIN content = FileNames
      /\ content' = [content EXCEPT !["audio"] = audio,
                                    !["queue"] = [version |-> 0, names |-> names]]
  BY <1>1, <1>2 DEF PublishQueue, FilesSound
<1>4. content'["queue"].names = names
  BY <1>3 DEF FileNames
<1>5. \A f \in FileNames \ {"audio", "queue"} : content'[f] = content[f]
  BY <1>3
<1>6. /\ DOMAIN names \ {"audio"} = Named("queue")
      /\ \A f \in Named("queue") : names[f] = program.seen[f]
  BY <1>2, FilesAre DEF With, Names, Named
<1>7. WasSo(names)
  BY <1>3, <1>6, NamesWereSo DEF PipelineCommands
<1> QED
  BY <1>4, <1>5, <1>7

(* FillPlan: a plan names the source that its queue names, and export has seen that it is so. *)
LEMMA FilledPlanWasSo ==
  ASSUME FilesSound, Commanded, OneMoment, PairAgrees, FillPlan
  PROVE  /\ WasSo(content'["plan"].names)
         /\ \A f \in FileNames \ {"plan"} : content'[f] = content[f]
<1>1. PICK names : names = With(Names({"authorization", "queue", "decisions"}),
                                "source", program.seen["queue"].names["source"])
  OBVIOUS
<1>2. PICK clips : clips = Approved(program.seen["loaded"])
  OBVIOUS
<1>3. /\ content' = [content EXCEPT !["plan"] = [names |-> names, clips |-> clips]]
      /\ program.name = "export" /\ program.at = Len(ExportScript) + 2
      /\ DOMAIN content = FileNames
  BY <1>1, <1>2 DEF FillPlan, FilesSound
<1>4. content'["plan"].names = names
  BY <1>3 DEF FileNames
<1>5. \A f \in FileNames \ {"plan"} : content'[f] = content[f]
  BY <1>3
<1>6. Script(program.name) = ExportScript /\ Len(ExportScript) = 22
  BY <1>3, ExportSteps DEF Script
<1>7. program.at = 24
  BY <1>3, <1>6
<1>8. program.seen["source"] = program.seen["queue"].names["source"]
  <2>1. PairBase("export") = 2 /\ 24 > 2 + 6
    BY DEF PairBase
  <2> QED
    BY <1>3, <1>7, <2>1 DEF PairAgrees
<1>9. \E m \in moments : \A f \in Named(program.name) : m[f] = program.seen[f]
  <2>1. program.name \in PipelineCommands
    BY <1>3 DEF PipelineCommands
  <2>2. program.at > Len(Script(program.name))
    BY <1>6, <1>7
  <2> QED
    BY <2>1, <2>2, AllWasSeen
<1>10. /\ DOMAIN names = Named(program.name)
       /\ \A f \in Named(program.name) : names[f] = program.seen[f]
  BY <1>1, <1>3, <1>8 DEF With, Names, Named, PlanNames
<1>11. WasSo(names)
  BY <1>9, <1>10 DEF WasSo
<1> QED
  BY <1>4, <1>5, <1>11

(* PublishDataset: the plan's names are what its last round of evidence has seen. *)
LEMMA PublishedDatasetWasSo ==
  ASSUME Commanded, OneMoment, PairAgrees, FollowsPlan, PublishDataset
  PROVE  WasSo(dataset'.names)
<1> DEFINE seen == program.seen
           names == seen["plan"].names
<1>1. Done("dataset") /\ dataset'.names = names
  BY DEF PublishDataset
<1>2. /\ DOMAIN names = PlanNames
      /\ seen["queue"] = names["queue"] /\ seen["decisions"] = names["decisions"]
      /\ seen["source"] = names["source"] /\ seen["authorization"] = names["authorization"]
  BY <1>1, DatasetAgrees
<1>3. Named("dataset") = PlanNames /\ "dataset" \in PipelineCommands
  BY DEF Named, PipelineCommands
<1> HIDE DEF names
<1>4. \A f \in PlanNames : names[f] = seen[f]
  BY <1>2 DEF PlanNames
<1>5. WasSo(names)
  BY <1>1, <1>2, <1>3, <1>4, NamesWereSo
<1> QED
  BY <1>1, <1>5

(* Every step that publishes something publishes what was so at one moment.                 *)
LEMMA PublishingIsOneMoment ==
  PipelineIInv /\ [PipelineNext]_pipelineVars =>
    [ /\ \A f \in {"media", "ranges", "evidence", "queue", "plan"} :
           Publishing(f) => WasSo(content'[f].names)
      /\ dataset # dataset' => WasSo(dataset'.names) ]_pipelineVars
<1> SUFFICES ASSUME PipelineIInv, PipelineNext
             PROVE  /\ \A f \in {"media", "ranges", "evidence", "queue", "plan"} :
                         Publishing(f) => WasSo(content'[f].names)
                    /\ dataset # dataset' => WasSo(dataset'.names)
  OBVIOUS
<1>0. FilesSound /\ Commanded /\ OneMoment /\ PairAgrees /\ FollowsPlan
  BY DEF PipelineIInv
<1> DEFINE Told == \A f \in {"media", "ranges", "evidence", "queue", "plan"} :
                     Publishing(f) => WasSo(content'[f].names)
<1>1. ASSUME content' = content PROVE Told
  BY <1>1 DEF Publishing
<1>2. ASSUME program' = program PROVE Told
  BY <1>2 DEF Publishing
<1>3. "audio" \notin {"media", "ranges", "evidence", "queue", "plan"}
      /\ {"media", "ranges", "evidence", "queue", "plan"} \subseteq FileNames
  BY DEF FileNames
<1>4. CASE \/ \E name \in PipelineCommands : Begin(name)
           \/ Access \/ Abandon \/ StartServer \/ StopServer \/ CheckAudio \/ SendAudio
           \/ LoadDecisions
  <2>1. content' = content /\ dataset' = dataset
    BY <1>4 DEF Begin, Access, Abandon, StartServer, StopServer, CheckAudio, SendAudio,
                LoadDecisions, ServerOnly
  <2> QED
    BY <1>1, <2>1
<1>5. CASE \/ \E c \in Clip, ok \in BOOLEAN : StoreDecision(c, ok)
           \/ Convert \/ Transcribe \/ Retranscribe \/ \E f \in FileName : Edit(f)
  <2>1. program' = program /\ dataset' = dataset
    BY <1>5 DEF StoreDecision, Convert, Transcribe, Retranscribe, Made, Edit
  <2> QED
    BY <1>2, <2>1
<1>6. CASE PublishMedia \/ PublishRanges \/ PublishEvidence
  <2>1. dataset' = dataset
    BY <1>6 DEF PublishMedia, PublishRanges, PublishEvidence, Publish
  <2>2. \A f \in FileNames : content'[f] # content[f] => WasSo(content'[f].names)
    BY <1>0, <1>6, PublishedFileWasSo
  <2>3. Told
    BY <1>3, <2>2 DEF Publishing
  <2> QED
    BY <2>1, <2>3
<1>7. CASE PublishQueue
  <2>1. dataset' = dataset
    BY <1>7 DEF PublishQueue
  <2>2. /\ WasSo(content'["queue"].names)
        /\ \A f \in FileNames \ {"audio", "queue"} : content'[f] = content[f]
    BY <1>0, <1>7, PublishedQueueWasSo
  <2>3. Told
    BY <1>3, <2>2 DEF Publishing
  <2> QED
    BY <2>1, <2>3
<1>8. CASE CreatePlan
  <2>1. dataset' = dataset /\ program'.name = program.name
    BY <1>0, <1>8 DEF CreatePlan, Commanded
  <2>2. Told
    BY <2>1 DEF Publishing
  <2> QED
    BY <2>1, <2>2
<1>9. CASE FillPlan
  <2>1. dataset' = dataset
    BY <1>9 DEF FillPlan
  <2>2. /\ WasSo(content'["plan"].names)
        /\ \A f \in FileNames \ {"plan"} : content'[f] = content[f]
    BY <1>0, <1>9, FilledPlanWasSo
  <2>3. Told
    BY <1>3, <2>2 DEF Publishing
  <2> QED
    BY <2>1, <2>3
<1>10. CASE PublishDataset
  <2>1. content' = content
    BY <1>10 DEF PublishDataset
  <2> QED
    BY <1>0, <1>1, <1>10, <2>1, PublishedDatasetWasSo
<1> QED
  BY <1>4, <1>5, <1>6, <1>7, <1>8, <1>9, <1>10 DEF PipelineNext, PipelineCommands

(* Whatever a command publishes describes one moment of its run: every file it names held   *)
(* what it says, all at once, although the command read them one after the other and the   *)
(* review server, the operator and accidents changed them meanwhile without a lock.        *)
THEOREM PublicationsAreOneMoment == PipelineSpec => PublishedIsOneMoment
BY PipelineInitSound, PipelineStepSound, PublishingIsOneMoment, PTL
   DEF PipelineSpec, PublishedIsOneMoment

=============================================================================
