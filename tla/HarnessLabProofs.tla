-------------------------- MODULE HarnessLabProofs --------------------------
(***************************************************************************)
(* Proofs about the runs, the trace contract and the event streams of      *)
(* HarnessLab, for every set of call ids, every number of turns, calls and *)
(* readers, and logs of any length.                                        *)
(*                                                                         *)
(* The first part is about any log: the checks of _trace_violations find   *)
(* nothing exactly when the log is well formed.  The second is about the   *)
(* log of a run (LabRunInv): the events of a call stand together           *)
(* (LogShape) and every handler that ran knows its approval and what       *)
(* followed it (Handled).  The third is about the readers (ReadersInv).    *)
(***************************************************************************)
EXTENDS HarnessLab, SequenceTheorems, FiniteSetTheorems, TLAPS

(* The events of a log.                                                     *)
Events == [type : {"model"} \cup Terminals \cup ToolEvents, call : CallId \cup {NoCall}]

(* More than one element is two different ones.                             *)
LEMMA MoreThanOne ==
  ASSUME NEW A, IsFiniteSet(A)
  PROVE  Cardinality(A) > 1 <=> \E x, y \in A : x # y
<1>1. ASSUME NEW x \in A, NEW y \in A, x # y PROVE Cardinality(A) > 1
  <2>1. IsFiniteSet({x}) /\ Cardinality({x}) = 1
    BY FS_Singleton
  <2>2. Cardinality({x} \cup {y}) = 2
    BY <1>1, <2>1, FS_AddElement
  <2>3. Cardinality({x} \cup {y}) <= Cardinality(A) /\ Cardinality(A) \in Nat
    <3>1. {x} \cup {y} \subseteq A
      OBVIOUS
    <3>q. QED
      BY <3>1, FS_Subset, FS_CardinalityType
  <2>q. QED
    BY <2>2, <2>3
<1>2. ASSUME ~\E x, y \in A : x # y PROVE ~(Cardinality(A) > 1)
  <2>1. CASE A = {}
    <3>1. Cardinality(A) = 0
      BY <2>1, FS_EmptySet, Zenon
    <3>q. QED
      BY <3>1
  <2>2. CASE A # {}
    <3>1. PICK x : A = {x}
      BY <1>2, <2>2
    <3>2. Cardinality(A) = 1
      BY <3>1, FS_Singleton, Zenon
    <3>q. QED
      BY <3>2
  <2>q. QED
    BY <2>1, <2>2
<1>q. QED
  BY <1>1, <1>2

(* A set without two different elements.                                    *)
LEMMA EmptyOrOne ==
  ASSUME NEW A, ~\E x, y \in A : x # y
  PROVE  A = {} \/ \E x : A = {x}
OBVIOUS

(* The last of at most one index.                                           *)
LEMMA LastIndex ==
  ASSUME NEW l \in Seq(Events), NEW types, NEW c
  PROVE  /\ IsFiniteSet(IndexesOf(l, types, c))
         /\ IndexesOf(l, types, c) \subseteq 1 .. Len(l) /\ Len(l) \in Nat
         /\ IndexesOf(l, types, c) = {} => LastOf(l, types, c) = 0
         /\ \A i : IndexesOf(l, types, c) = {i} => LastOf(l, types, c) = i
         /\ Cardinality(IndexesOf(l, types, c)) > 1
            <=> \E i, j \in IndexesOf(l, types, c) : i # j
<1> DEFINE A == IndexesOf(l, types, c)
<1>1. A \subseteq 1 .. Len(l) /\ Len(l) \in Nat
  <2>1. DOMAIN l = 1 .. Len(l) /\ Len(l) \in Nat
    OBVIOUS
  <2>2. A \subseteq DOMAIN l
    BY Zenon DEF IndexesOf
  <2>q. QED
    BY <2>1, <2>2
<1>2. IsFiniteSet(A)
  <2>1. IsFiniteSet(1 .. Len(l))
    BY <1>1, FS_Interval
  <2> HIDE DEF A
  <2>q. QED
    BY <1>1, <2>1, FS_Subset
<1>3. A = {} => LastOf(l, types, c) = 0
  BY DEF LastOf
<1>4. ASSUME NEW i, A = {i} PROVE LastOf(l, types, c) = i
  <2>1. i \in Nat
    BY <1>1, <1>4
  <2>2. LastOf(l, types, c) = CHOOSE m \in A : \A j \in A : j <= m
    BY <1>4 DEF LastOf
  <2>3. \A m : (m \in A /\ \A j \in A : j <= m) <=> m = i
    BY <1>4, <2>1
  <2>q. QED
    BY <2>2, <2>3
<1>5. Cardinality(A) > 1 <=> \E i, j \in A : i # j
  <2> HIDE DEF A
  <2>q. QED
    BY <1>2, MoreThanOne
<1>q. QED
  BY <1>1, <1>2, <1>3, <1>4, <1>5, Zenon

(* The names of the checks of one call.                                     *)
Names == {"duplicate_request", "duplicate_policy", "duplicate_completion",
          "missing_policy", "policy_before_request", "missing_completion",
          "denied_tool_completed", "completion_before_policy",
          "policy_without_request", "completion_without_request"}

(* The violations of a log are the terminal ones and those of each call.    *)
LEMMA NoViolations ==
  ASSUME NEW l
  PROVE  TraceViolations(l) = {} <=>
           TerminalViolations(l) = {} /\ \A c \in CallId, v \in Names : ~Violated(l, c)[v]
<1>1. \A v \in Names, c \in CallId : <<v, c>> \in CallViolations(l)
  BY DEF CallViolations, Names
<1>2. \A x \in CallViolations(l) : x[1] \in Names /\ x[2] \in CallId
  BY DEF CallViolations, Names
<1>3. \A v \in Names, c \in CallId : <<v, c>>[1] = v /\ <<v, c>>[2] = c
  OBVIOUS
<1> HIDE DEF Names
<1>4. ASSUME NEW c \in CallId, NEW v \in Names, Violated(l, c)[v], TraceViolations(l) = {} PROVE FALSE
  <2>1. <<v, c>> \in {x \in CallViolations(l) : Violated(l, x[2])[x[1]]}
    BY <1>1, <1>3, <1>4
  <2>q. QED
    BY <2>1, <1>4, Zenon DEF TraceViolations
<1>5. ASSUME TerminalViolations(l) = {}, \A c \in CallId, v \in Names : ~Violated(l, c)[v]
      PROVE  TraceViolations(l) = {}
  BY <1>2, <1>5, Zenon DEF TraceViolations
<1>q. QED
  BY <1>4, <1>5, Zenon DEF TraceViolations

(* The violations of one call, and what they leave: when it has none, its   *)
(* tool events are a request, a decision, and a result if it was approved.  *)
CallInOrder(l, c) ==
  \/ ToolEventsOf(l, c) = {}
  \/ \E i, j \in DOMAIN l :
       /\ ToolEventsOf(l, c) = {i, j} /\ i < j
       /\ l[i].type = "requested" /\ l[j].type = "denied"
  \/ \E i, j, k \in DOMAIN l :
       /\ ToolEventsOf(l, c) = {i, j, k} /\ i < j /\ j < k
       /\ l[i].type = "requested" /\ l[j].type = "approved"
       /\ l[k].type = "resulted"

(* The ten checks of one call, on the indices the dictionaries keep.        *)
LEMMA CallFlags ==
  ASSUME NEW l, NEW c
  PROVE  LET R == IndexesOf(l, {"requested"}, c)
             D == IndexesOf(l, {"approved", "denied"}, c)
             S == IndexesOf(l, {"resulted"}, c)
             r == LastOf(l, {"requested"}, c)
             d == LastOf(l, {"approved", "denied"}, c)
             s == LastOf(l, {"resulted"}, c)
         IN /\ Violated(l, c)["duplicate_request"] <=> Cardinality(R) > 1
            /\ Violated(l, c)["duplicate_policy"] <=> Cardinality(D) > 1
            /\ Violated(l, c)["duplicate_completion"] <=> Cardinality(S) > 1
            /\ Violated(l, c)["missing_policy"] <=> r # 0 /\ d = 0
            /\ Violated(l, c)["policy_before_request"] <=> r # 0 /\ d # 0 /\ d <= r
            /\ Violated(l, c)["missing_completion"] <=> r # 0 /\ d # 0 /\ l[d].type = "approved" /\ s = 0
            /\ Violated(l, c)["denied_tool_completed"] <=> r # 0 /\ d # 0 /\ l[d].type = "denied" /\ s # 0
            /\ Violated(l, c)["completion_before_policy"] <=> r # 0 /\ s # 0 /\ d # 0 /\ s <= d
            /\ Violated(l, c)["policy_without_request"] <=> r = 0 /\ d # 0
            /\ Violated(l, c)["completion_without_request"] <=> r = 0 /\ s # 0
<1> DEFINE R == IndexesOf(l, {"requested"}, c)
           D == IndexesOf(l, {"approved", "denied"}, c)
           S == IndexesOf(l, {"resulted"}, c)
           r == LastOf(l, {"requested"}, c)
           d == LastOf(l, {"approved", "denied"}, c)
           s == LastOf(l, {"resulted"}, c)
<1> HIDE DEF R, D, S, r, d, s
<1>q. QED
  BY DEF Violated, r, d, s, R, D, S

(* A call has no violation exactly when its events are in order.            *)
LEMMA CallContract ==
  ASSUME NEW l \in Seq(Events), NEW c \in CallId
  PROVE  (\A v \in Names : ~Violated(l, c)[v]) <=> CallInOrder(l, c)
<1> DEFINE R == IndexesOf(l, {"requested"}, c)
           D == IndexesOf(l, {"approved", "denied"}, c)
           S == IndexesOf(l, {"resulted"}, c)
           T == ToolEventsOf(l, c)
           r == LastOf(l, {"requested"}, c)
           d == LastOf(l, {"approved", "denied"}, c)
           s == LastOf(l, {"resulted"}, c)
<1>1. T = R \cup D \cup S /\ R \cap D = {} /\ R \cap S = {} /\ D \cap S = {}
  BY DEF IndexesOf, ToolEventsOf, ToolEvents
<1>2. /\ \A i \in R : l[i].type = "requested"
      /\ \A i \in D : l[i].type \in {"approved", "denied"}
      /\ \A i \in S : l[i].type = "resulted"
      /\ DOMAIN l = 1 .. Len(l)
  BY DEF IndexesOf
<1>3. /\ R = {} => r = 0
      /\ \A i : R = {i} => r = i
      /\ D = {} => d = 0
      /\ \A i : D = {i} => d = i
      /\ S = {} => s = 0
      /\ \A i : S = {i} => s = i
  BY LastIndex, Zenon
<1>4. /\ Cardinality(R) > 1 <=> \E i, j \in R : i # j
      /\ Cardinality(D) > 1 <=> \E i, j \in D : i # j
      /\ Cardinality(S) > 1 <=> \E i, j \in S : i # j
  <2>1. IsFiniteSet(R) /\ IsFiniteSet(D) /\ IsFiniteSet(S)
    BY LastIndex, Zenon
  <2> HIDE DEF R, D, S
  <2>2. Cardinality(R) > 1 <=> \E i, j \in R : i # j
    BY <2>1, MoreThanOne
  <2>3. Cardinality(D) > 1 <=> \E i, j \in D : i # j
    BY <2>1, MoreThanOne
  <2>4. Cardinality(S) > 1 <=> \E i, j \in S : i # j
    BY <2>1, MoreThanOne
  <2>q. QED
    BY <2>2, <2>3, <2>4
<1>5. R \subseteq 1 .. Len(l) /\ D \subseteq 1 .. Len(l) /\ S \subseteq 1 .. Len(l) /\ Len(l) \in Nat
  BY LastIndex, Zenon
<1>9. /\ \A i : R = {i} => r = i /\ i \in 1 .. Len(l) /\ i # 0
      /\ \A i : D = {i} => d = i /\ i \in 1 .. Len(l) /\ i # 0
      /\ \A i : S = {i} => s = i /\ i \in 1 .. Len(l) /\ i # 0
  <2> HIDE DEF R, D, S, r, d, s
  <2>1. \A i \in 1 .. Len(l) : i # 0
    BY <1>5
  <2>2. \A i : i \in {i}
    OBVIOUS
  <2>q. QED
    BY <1>3, <1>5, <2>1, <2>2, Zenon
<1>6. (\A v \in Names : ~Violated(l, c)[v]) <=>
        /\ ~(Cardinality(R) > 1) /\ ~(Cardinality(D) > 1) /\ ~(Cardinality(S) > 1)
        /\ ~(r # 0 /\ d = 0)
        /\ ~(r # 0 /\ d # 0 /\ d <= r)
        /\ ~(r # 0 /\ d # 0 /\ l[d].type = "approved" /\ s = 0)
        /\ ~(r # 0 /\ d # 0 /\ l[d].type = "denied" /\ s # 0)
        /\ ~(r # 0 /\ s # 0 /\ d # 0 /\ s <= d)
        /\ ~(r = 0 /\ d # 0)
        /\ ~(r = 0 /\ s # 0)
  <2> HIDE DEF r, d, s, R, D, S
  <2>1. /\ Violated(l, c)["duplicate_request"] <=> Cardinality(R) > 1
        /\ Violated(l, c)["duplicate_policy"] <=> Cardinality(D) > 1
        /\ Violated(l, c)["duplicate_completion"] <=> Cardinality(S) > 1
        /\ Violated(l, c)["missing_policy"] <=> r # 0 /\ d = 0
        /\ Violated(l, c)["policy_before_request"] <=> r # 0 /\ d # 0 /\ d <= r
        /\ Violated(l, c)["missing_completion"] <=> r # 0 /\ d # 0 /\ l[d].type = "approved" /\ s = 0
        /\ Violated(l, c)["denied_tool_completed"] <=> r # 0 /\ d # 0 /\ l[d].type = "denied" /\ s # 0
        /\ Violated(l, c)["completion_before_policy"] <=> r # 0 /\ s # 0 /\ d # 0 /\ s <= d
        /\ Violated(l, c)["policy_without_request"] <=> r = 0 /\ d # 0
        /\ Violated(l, c)["completion_without_request"] <=> r = 0 /\ s # 0
    BY CallFlags DEF r, d, s, R, D, S
  <2>q. QED
    BY <2>1 DEF Names
<1> HIDE DEF R, D, S, T, r, d, s
<1>7. ASSUME \A v \in Names : ~Violated(l, c)[v] PROVE CallInOrder(l, c)
  <2>0. /\ ~(Cardinality(R) > 1) /\ ~(Cardinality(D) > 1) /\ ~(Cardinality(S) > 1)
        /\ r # 0 => d # 0 /\ ~(d <= r)
        /\ r # 0 /\ d # 0 /\ l[d].type = "approved" => s # 0
        /\ r # 0 /\ d # 0 /\ l[d].type = "denied" => s = 0
        /\ r # 0 /\ s # 0 /\ d # 0 => ~(s <= d)
        /\ r = 0 => d = 0 /\ s = 0
    BY <1>6, <1>7, Zenon
  <2>1. /\ R = {} \/ \E i : R = {i}
        /\ D = {} \/ \E i : D = {i}
        /\ S = {} \/ \E i : S = {i}
    <3>1. ~\E x, y \in R : x # y
      BY <1>4, <2>0, Zenon
    <3>2. ~\E x, y \in D : x # y
      BY <1>4, <2>0, Zenon
    <3>3. ~\E x, y \in S : x # y
      BY <1>4, <2>0, Zenon
    <3>q. QED
      BY <3>1, <3>2, <3>3, EmptyOrOne, Zenon
  <2>2. CASE R = {}
    <3>1. r = 0 /\ d = 0 /\ s = 0
      BY <1>3, <2>0, <2>2
    <3>2. D = {} /\ S = {}
      BY <2>1, <3>1, <1>9, Zenon
    <3>q. QED
      BY <1>1, <2>2, <3>2, Zenon DEF CallInOrder, T
  <2>3. ASSUME NEW i, R = {i} PROVE CallInOrder(l, c)
    <3>1. r = i /\ i \in 1 .. Len(l) /\ i # 0
      BY <1>9, <2>3, Zenon
    <3>2. d # 0
      BY <2>0, <3>1
    <3>3. PICK j : D = {j}
      BY <2>1, <3>2, <1>3
    <3>4. d = j /\ j \in 1 .. Len(l) /\ j # 0 /\ i < j
      <4>1. d = j /\ j \in 1 .. Len(l) /\ j # 0 /\ r # 0 /\ ~(d <= r)
        BY <1>9, <2>0, <3>1, <3>3, Zenon
      <4>q. QED
        BY <4>1, <3>1, <1>5
    <3>5. l[i].type = "requested" /\ l[j].type \in {"approved", "denied"}
      BY <1>2, <2>3, <3>3
    <3>6. CASE l[j].type = "denied"
      <4>1. s = 0
        BY <2>0, <3>1, <3>4, <3>6
      <4>2. S = {}
        BY <2>1, <4>1, <1>9, Zenon
      <4>3. T = {i, j}
        BY <1>1, <2>3, <3>3, <4>2
      <4>q. QED
        BY <4>3, <3>1, <3>4, <3>5, <3>6, <1>2, Zenon DEF CallInOrder, T
    <3>7. CASE l[j].type = "approved"
      <4>1. s # 0
        BY <2>0, <3>1, <3>4, <3>7
      <4>2. PICK k : S = {k}
        BY <2>1, <4>1, <1>3
      <4>3. s = k /\ k \in 1 .. Len(l) /\ j < k /\ l[k].type = "resulted"
        <5>1. s = k /\ k \in 1 .. Len(l) /\ l[k].type = "resulted"
          BY <1>2, <1>9, <4>2, Zenon
        <5>2. ~(s <= d)
          BY <2>0, <3>1, <3>4, <4>1, Zenon
        <5>q. QED
          BY <5>1, <5>2, <3>4, <1>5
      <4>4. T = {i, j, k}
        BY <1>1, <2>3, <3>3, <4>2
      <4>q. QED
        BY <4>3, <4>4, <3>1, <3>4, <3>5, <3>7, <1>2, Zenon DEF CallInOrder, T
    <3>q. QED
      BY <3>5, <3>6, <3>7
  <2>q. QED
    BY <2>1, <2>2, <2>3
<1>8. ASSUME CallInOrder(l, c) PROVE \A v \in Names : ~Violated(l, c)[v]
  <2>1. CASE T = {}
    <3>1. R = {} /\ D = {} /\ S = {}
      BY <1>1, <2>1
    <3>2. r = 0 /\ d = 0 /\ s = 0
      BY <1>3, <3>1
    <3>q. QED
      BY <1>4, <1>6, <3>1, <3>2
  <2>2. ASSUME NEW i \in DOMAIN l, NEW j \in DOMAIN l, T = {i, j}, i < j,
               l[i].type = "requested", l[j].type = "denied"
        PROVE  \A v \in Names : ~Violated(l, c)[v]
    <3>1. R = {i} /\ D = {j} /\ S = {}
      BY <1>1, <1>2, <2>2
    <3>2. r = i /\ d = j /\ s = 0
      BY <1>3, <3>1
    <3>3. i \in 1 .. Len(l) /\ j \in 1 .. Len(l)
      BY <1>2
    <3>q. QED
      BY <1>4, <1>5, <1>6, <2>2, <3>1, <3>2, <3>3
  <2>3. ASSUME NEW i \in DOMAIN l, NEW j \in DOMAIN l, NEW k \in DOMAIN l,
               T = {i, j, k}, i < j, j < k,
               l[i].type = "requested", l[j].type = "approved", l[k].type = "resulted"
        PROVE  \A v \in Names : ~Violated(l, c)[v]
    <3>1. R = {i} /\ D = {j} /\ S = {k}
      BY <1>1, <1>2, <2>3
    <3>2. r = i /\ d = j /\ s = k
      BY <1>3, <3>1
    <3>3. i \in 1 .. Len(l) /\ j \in 1 .. Len(l) /\ k \in 1 .. Len(l)
      BY <1>2
    <3>q. QED
      BY <1>4, <1>5, <1>6, <2>3, <3>1, <3>2, <3>3
  <2>q. QED
    BY <1>8, <2>1, <2>2, <2>3, Zenon DEF CallInOrder, T
<1>q. QED
  BY <1>7, <1>8

(* One terminal event, the last: what the two terminal checks leave.        *)
LEMMA TerminalContract ==
  ASSUME NEW l \in Seq(Events)
  PROVE  TerminalViolations(l) = {} <=>
           /\ l # <<>> /\ l[Len(l)].type \in Terminals
           /\ \A i \in 1 .. Len(l) - 1 : l[i].type \notin Terminals
<1> DEFINE A == TerminalIndexes(l)
<1>1. /\ DOMAIN l = 1 .. Len(l) /\ Len(l) \in Nat
      /\ \A i : i \in A <=> i \in 1 .. Len(l) /\ l[i].type \in Terminals
  BY DEF TerminalIndexes
<1>2. IsFiniteSet(A)
  <2>1. IsFiniteSet(1 .. Len(l)) /\ A \subseteq 1 .. Len(l)
    BY <1>1, FS_Interval
  <2> HIDE DEF A
  <2>q. QED
    BY <2>1, FS_Subset
<1>3. TerminalViolations(l) = {} <=> Cardinality(A) = 1 /\ l[Len(l)].type \in Terminals
  BY DEF TerminalViolations
<1> HIDE DEF A
<1>4. Cardinality(A) = 1 <=> A # {} /\ ~\E x, y \in A : x # y
  <2>1. Cardinality(A) \in Nat /\ (Cardinality(A) = 0 <=> A = {})
    BY <1>2, FS_CardinalityType, FS_EmptySet
  <2>2. Cardinality(A) > 1 <=> \E x, y \in A : x # y
    BY <1>2, MoreThanOne
  <2>q. QED
    BY <2>1, <2>2
<1>5. l # <<>> <=> Len(l) > 0
  BY <1>1
<1>q. QED
  BY <1>1, <1>3, <1>4, <1>5

(* The checks of _trace_violations together are the contract: a log of any  *)
(* length has no violation exactly when it is well formed.                  *)
THEOREM ChecksAreTheContract ==
  ASSUME NEW l \in Seq(Events)
  PROVE  TraceViolations(l) = {} <=> WellFormed(l)
<1>1. (\A c \in CallId, v \in Names : ~Violated(l, c)[v]) <=> \A c \in CallId : CallInOrder(l, c)
  BY CallContract, Zenon
<1>q. QED
  BY <1>1, NoViolations, TerminalContract, Zenon DEF WellFormed, CallInOrder

-----------------------------------------------------------------------------

(* The calls a model asks for.                                              *)
Calls == [id : CallId, kind : ToolKinds]

(* The events of a call stand together: a request and its decision, then a  *)
(* result or, when the handler raised, the terminal event.                  *)
LogShape(l) ==
  \A i \in 1 .. Len(l) :
    /\ l[i].type = "requested" =>
         /\ i < Len(l) /\ l[i + 1].call = l[i].call
         /\ l[i + 1].type \in {"approved", "denied"}
    /\ l[i].type \in {"approved", "denied"} =>
         i > 1 /\ l[i - 1].type = "requested" /\ l[i - 1].call = l[i].call
    /\ l[i].type = "resulted" =>
         i > 1 /\ l[i - 1].type = "approved" /\ l[i - 1].call = l[i].call
    /\ l[i].type \in Terminals => i = Len(l)

(* What is known of a handler that ran: where it was approved, and what     *)
(* follows in the log; the last approval may still be open.                 *)
RanAfter(l, at, calls, x) ==
  /\ x.approved \in 1 .. Len(l)
  /\ l[x.approved].type = "approved" /\ l[x.approved].call = x.call.id
  /\ x.call.kind \in {"returns", "raises"}
  /\ x.approved = Len(l) =>
       at \in {"tool", "ended"} /\ (at = "tool" => x.call = Head(calls))
  /\ x.approved < Len(l) /\ x.call.kind = "returns" =>
       l[x.approved + 1].type = "resulted" /\ l[x.approved + 1].call = x.call.id
  /\ x.approved < Len(l) /\ x.call.kind = "raises" => l[x.approved + 1].type \in Terminals

Handled(l, at, calls, ex) ==
  /\ \A n \in 1 .. Len(ex) :
       RanAfter(l, at, calls, ex[n]) /\ (n > 1 => ex[n - 1].approved < ex[n].approved)
  /\ \A i \in 1 .. Len(l) :
       l[i].type = "approved" => \E n \in 1 .. Len(ex) : ex[n].approved = i
  /\ at = "tool" =>
       /\ l # <<>> /\ calls # <<>> /\ l[Len(l)].type = "approved"
       /\ l[Len(l)].call = Head(calls).id

(* publish: one more event.                                                 *)
LEMMA EventAppended ==
  ASSUME NEW l \in Seq(Events), NEW e \in Events
  PROVE  /\ Append(l, e) \in Seq(Events)
         /\ Len(Append(l, e)) = Len(l) + 1 /\ Len(l) \in Nat
         /\ \A i \in 1 .. Len(l) : Append(l, e)[i] = l[i]
         /\ Append(l, e)[Len(l) + 1] = e
         /\ Append(l, e) # <<>>
OBVIOUS

(* publish, one event after the other.                                      *)
LEMMA Published ==
  ASSUME NEW l \in Seq(Events), NEW a \in Events, NEW b \in Events, NEW c \in Events
  PROVE  /\ l \o <<a>> = Append(l, a)
         /\ l \o Append(<<>>, a) = Append(l, a)
         /\ l \o <<a, b>> = Append(Append(l, a), b)
         /\ l \o Append(<<a>>, b) = Append(Append(l, a), b)
         /\ l \o Append(<<a, b>>, c) = Append(Append(Append(l, a), b), c)
OBVIOUS

(* What Event makes is an event.                                            *)
LEMMA EventTypes ==
  /\ \A type \in {"model"} \cup Terminals \cup ToolEvents, c \in CallId \cup {NoCall} :
       Event(type, c) \in Events /\ Event(type, c).type = type /\ Event(type, c).call = c
  /\ \A e \in Events : e.type \in {"model"} \cup Terminals \cup ToolEvents
BY DEF Events, Event

(* One more event that is neither a request nor a decision.                 *)
LEMMA ShapeGrows ==
  ASSUME NEW l \in Seq(Events), NEW e \in Events, LogShape(l),
         Len(l) > 0 => l[Len(l)].type \notin Terminals,
         \/ e.type \in {"model"} \cup Terminals
         \/ /\ e.type = "resulted" /\ Len(l) > 0
            /\ l[Len(l)].type = "approved" /\ l[Len(l)].call = e.call
  PROVE  LogShape(Append(l, e))
<1> DEFINE m == Append(l, e)
<1>1. /\ Len(m) = Len(l) + 1 /\ Len(l) \in Nat /\ \A i \in 1 .. Len(l) : m[i] = l[i]
      /\ m[Len(l) + 1] = e
  BY EventAppended
<1> HIDE DEF m
<1>2. ASSUME NEW i \in 1 .. Len(l)
      PROVE  /\ m[i].type = "requested" =>
                  /\ i < Len(m) /\ m[i + 1].call = m[i].call
                  /\ m[i + 1].type \in {"approved", "denied"}
             /\ m[i].type \in {"approved", "denied"} =>
                  i > 1 /\ m[i - 1].type = "requested" /\ m[i - 1].call = m[i].call
             /\ m[i].type = "resulted" =>
                  i > 1 /\ m[i - 1].type = "approved" /\ m[i - 1].call = m[i].call
             /\ m[i].type \notin Terminals
  BY <1>1 DEF LogShape
<1>3. m[Len(l) + 1].type = "resulted" =>
        Len(l) + 1 > 1 /\ m[Len(l)].type = "approved" /\ m[Len(l)].call = m[Len(l) + 1].call
  BY <1>1 DEF Terminals
<1>4. m[Len(l) + 1].type \notin {"requested", "approved", "denied"}
  BY <1>1 DEF Terminals
<1>5. \A i \in 1 .. Len(m) : i \in 1 .. Len(l) \/ i = Len(l) + 1
  BY <1>1
<1>6. LogShape(m)
  BY <1>1, <1>2, <1>3, <1>4, <1>5 DEF LogShape
<1>q. QED
  BY <1>6 DEF m

(* A request and its decision.                                              *)
LEMMA ShapeGrowsByCall ==
  ASSUME NEW l \in Seq(Events), NEW c \in CallId, NEW verdict \in {"approved", "denied"},
         LogShape(l), Len(l) > 0 => l[Len(l)].type \notin Terminals
  PROVE  LogShape(Append(Append(l, Event("requested", c)), Event(verdict, c)))
<1> DEFINE k == Append(l, Event("requested", c))
           m == Append(k, Event(verdict, c))
<1>e. /\ Event("requested", c) \in Events /\ Event("requested", c).type = "requested"
      /\ Event("requested", c).call = c /\ Event(verdict, c) \in Events
      /\ Event(verdict, c).type = verdict /\ Event(verdict, c).call = c
  BY EventTypes DEF ToolEvents
<1>1. /\ k \in Seq(Events) /\ Len(k) = Len(l) + 1 /\ Len(l) \in Nat
      /\ \A i \in 1 .. Len(l) : k[i] = l[i]
      /\ k[Len(l) + 1] = Event("requested", c)
  BY <1>e, EventAppended
<1>2. /\ Len(m) = Len(k) + 1 /\ \A i \in 1 .. Len(k) : m[i] = k[i]
      /\ m[Len(k) + 1] = Event(verdict, c)
  <2> HIDE DEF k
  <2>q. QED
    BY <1>1, <1>e, EventAppended
<1> HIDE DEF k, m
<1>3. /\ Len(m) = Len(l) + 2 /\ \A i \in 1 .. Len(l) : m[i] = l[i]
      /\ m[Len(l) + 1].type = "requested" /\ m[Len(l) + 1].call = c
      /\ m[Len(l) + 2].type = verdict /\ m[Len(l) + 2].call = c
  BY <1>1, <1>2, <1>e
<1>4. ASSUME NEW i \in 1 .. Len(l)
      PROVE  /\ m[i].type = "requested" =>
                  /\ i < Len(m) /\ m[i + 1].call = m[i].call
                  /\ m[i + 1].type \in {"approved", "denied"}
             /\ m[i].type \in {"approved", "denied"} =>
                  i > 1 /\ m[i - 1].type = "requested" /\ m[i - 1].call = m[i].call
             /\ m[i].type = "resulted" =>
                  i > 1 /\ m[i - 1].type = "approved" /\ m[i - 1].call = m[i].call
             /\ m[i].type \notin Terminals
  BY <1>1, <1>3 DEF LogShape
<1>5. \A i \in 1 .. Len(m) : i \in 1 .. Len(l) \/ i = Len(l) + 1 \/ i = Len(l) + 2
  BY <1>1, <1>3
<1>6. (Len(l) + 1) + 1 = Len(l) + 2 /\ (Len(l) + 2) - 1 = Len(l) + 1
      /\ Len(l) + 1 < Len(m) /\ Len(l) + 2 > 1
  BY <1>1, <1>3
<1>7. LogShape(m)
  BY <1>3, <1>4, <1>5, <1>6 DEF LogShape, Terminals
<1>q. QED
  BY <1>7 DEF m, k

(* A handler that ran.                                                      *)
Ran == [call : Calls, approved : Nat]

(* One more event that is no approval: no approval was open, or the event   *)
(* is what its handler leaves.                                              *)
LEMMA HandledGrows ==
  ASSUME NEW l \in Seq(Events), NEW e \in Events, NEW ex \in Seq(Ran),
         NEW at, NEW calls, NEW at2, NEW calls2, Handled(l, at, calls, ex),
         e.type # "approved", at # "ended", at2 # "tool",
         at = "tool" =>
           /\ Head(calls).kind = "returns" => e.type = "resulted" /\ e.call = Head(calls).id
           /\ Head(calls).kind = "raises" => e.type \in Terminals
  PROVE  Handled(Append(l, e), at2, calls2, ex)
<1> DEFINE m == Append(l, e)
<1>1. /\ Len(m) = Len(l) + 1 /\ Len(l) \in Nat /\ \A i \in 1 .. Len(l) : m[i] = l[i]
      /\ m[Len(l) + 1] = e
  BY EventAppended
<1> HIDE DEF m
<1>2. ASSUME NEW n \in 1 .. Len(ex)
      PROVE  RanAfter(m, at2, calls2, ex[n]) /\ (n > 1 => ex[n - 1].approved < ex[n].approved)
  <2> DEFINE x == ex[n]
  <2>1. RanAfter(l, at, calls, x) /\ (n > 1 => ex[n - 1].approved < ex[n].approved)
    BY DEF Handled
  <2> HIDE DEF x
  <2>2. CASE x.approved = Len(l)
    <3>1. at = "tool" /\ x.call = Head(calls)
      BY <2>1, <2>2 DEF RanAfter
    <3>2. /\ x.approved \in 1 .. Len(m) /\ x.approved # Len(m) /\ m[x.approved + 1] = e
          /\ m[x.approved] = l[x.approved] /\ x.approved \in 1 .. Len(l)
      BY <1>1, <2>1, <2>2 DEF RanAfter
    <3>3. RanAfter(m, at2, calls2, x)
      BY <2>1, <3>1, <3>2 DEF RanAfter
    <3>q. QED
      BY <2>1, <3>3 DEF x
  <2>3. CASE x.approved # Len(l)
    <3>1. x.approved \in 1 .. Len(l)
      BY <2>1 DEF RanAfter
    <3>2. /\ x.approved \in 1 .. Len(m) /\ x.approved # Len(m) /\ x.approved < Len(l)
          /\ m[x.approved + 1] = l[x.approved + 1]
          /\ m[x.approved] = l[x.approved]
      BY <1>1, <2>3, <3>1
    <3>3. RanAfter(m, at2, calls2, x)
      BY <2>1, <3>2 DEF RanAfter
    <3>q. QED
      BY <2>1, <3>3 DEF x
  <2>q. QED
    BY <2>2, <2>3
<1>3. ASSUME NEW i \in 1 .. Len(m), m[i].type = "approved"
      PROVE  \E n \in 1 .. Len(ex) : ex[n].approved = i
  <2>1. i \in 1 .. Len(l)
    BY <1>1, <1>3
  <2>q. QED
    BY <1>1, <1>3, <2>1 DEF Handled
<1>4. Handled(m, at2, calls2, ex)
  BY <1>2, <1>3 DEF Handled
<1>q. QED
  BY <1>4 DEF m

(* An approval, and the handler it starts.                                  *)
LEMMA HandledCall ==
  ASSUME NEW l \in Seq(Events), NEW ex \in Seq(Ran), NEW calls \in Seq(Calls),
         calls # <<>>, Handled(l, "calls", calls, ex),
         Head(calls).kind \in {"returns", "raises"}
  PROVE  /\ Append(ex, [call |-> Head(calls), approved |-> Len(l) + 1]) \in Seq(Ran)
         /\ Handled(Append(l, Event("approved", Head(calls).id)), "tool", calls,
                    Append(ex, [call |-> Head(calls), approved |-> Len(l) + 1]))
<1> DEFINE e == Event("approved", Head(calls).id)
           m == Append(l, e)
           x == [call |-> Head(calls), approved |-> Len(l) + 1]
           ey == Append(ex, x)
<1>0. Head(calls) \in Calls /\ Head(calls).id \in CallId /\ Len(l) \in Nat
  <2>1. Head(calls) \in Calls
    BY HeadTailProperties
  <2>2. Len(l) \in Nat
    OBVIOUS
  <2>q. QED
    BY <2>1, <2>2 DEF Calls
<1>e. e \in Events /\ e.type = "approved" /\ e.call = Head(calls).id
  BY <1>0, EventTypes DEF ToolEvents
<1>x. x \in Ran /\ x.call = Head(calls) /\ x.approved = Len(l) + 1
  BY <1>0 DEF Ran
<1> HIDE DEF e, x
<1>1. /\ Len(m) = Len(l) + 1 /\ Len(l) \in Nat /\ \A i \in 1 .. Len(l) : m[i] = l[i]
      /\ m[Len(l) + 1] = e /\ m # <<>>
  BY <1>e, EventAppended
<1>2. /\ ey \in Seq(Ran) /\ Len(ey) = Len(ex) + 1 /\ Len(ex) \in Nat
      /\ \A n \in 1 .. Len(ex) : ey[n] = ex[n]
      /\ ey[Len(ex) + 1] = x
  BY <1>x, AppendProperties
<1> HIDE DEF m, ey
<1>3. ASSUME NEW n \in 1 .. Len(ex)
      PROVE  /\ RanAfter(m, "tool", calls, ex[n]) /\ ex[n].approved \in 1 .. Len(l)
             /\ n > 1 => ex[n - 1].approved < ex[n].approved
  <2> DEFINE y == ex[n]
  <2>1. RanAfter(l, "calls", calls, y) /\ (n > 1 => ex[n - 1].approved < ex[n].approved)
    BY DEF Handled
  <2> HIDE DEF y
  <2>2. y.approved \in 1 .. Len(l) /\ y.approved # Len(l)
    BY <2>1 DEF RanAfter
  <2>3. /\ y.approved \in 1 .. Len(m) /\ y.approved # Len(m) /\ y.approved < Len(l)
        /\ m[y.approved + 1] = l[y.approved + 1]
        /\ m[y.approved] = l[y.approved]
    <3> DEFINE a == y.approved
    <3>1. a \in 1 .. Len(l) /\ a # Len(l)
      BY <2>2
    <3> HIDE DEF a
    <3>2. a \in 1 .. Len(m) /\ a # Len(m) /\ a < Len(l) /\ a + 1 \in 1 .. Len(l)
      BY <1>1, <3>1
    <3>q. QED
      BY <1>1, <3>1, <3>2, Zenon DEF a
  <2>4. RanAfter(m, "tool", calls, y)
    BY <2>1, <2>3 DEF RanAfter
  <2>q. QED
    BY <2>1, <2>2, <2>4 DEF y
<1>4. RanAfter(m, "tool", calls, x)
  <2>1. /\ x.approved \in 1 .. Len(m) /\ x.approved = Len(m) /\ ~(x.approved < Len(m))
        /\ m[x.approved] = e
    BY <1>1, <1>x
  <2>q. QED
    BY <2>1, <1>x, <1>e DEF RanAfter
<1>5. ASSUME NEW n \in 1 .. Len(ey)
      PROVE  RanAfter(m, "tool", calls, ey[n]) /\ (n > 1 => ey[n - 1].approved < ey[n].approved)
  <2>1. CASE n \in 1 .. Len(ex)
    <3>0. n > 1 => n - 1 \in 1 .. Len(ex)
      BY <1>2, <2>1
    <3>1. ey[n] = ex[n] /\ (n > 1 => ey[n - 1] = ex[n - 1])
      BY <1>2, <2>1, <3>0
    <3>q. QED
      BY <1>3, <2>1, <3>1
  <2>2. CASE n = Len(ex) + 1
    <3>1. ey[n] = x
      BY <1>2, <2>2
    <3>2. n > 1 => n - 1 \in 1 .. Len(ex) /\ ey[n - 1] = ex[n - 1]
      BY <1>2, <2>2
    <3>3. n > 1 => ey[n - 1].approved < Len(l) + 1
      <4>1. \A j \in 1 .. Len(ex) : ex[j].approved \in 1 .. Len(l)
        BY <1>3
      <4>2. \A k \in 1 .. Len(l) : k < Len(l) + 1
        BY <1>1
      <4>q. QED
        BY <3>2, <4>1, <4>2, Zenon
    <3>q. QED
      BY <1>4, <1>x, <3>1, <3>3
  <2>q. QED
    BY <1>2, <2>1, <2>2
<1>6. ASSUME NEW i \in 1 .. Len(m), m[i].type = "approved"
      PROVE  \E n \in 1 .. Len(ey) : ey[n].approved = i
  <2>1. CASE i \in 1 .. Len(l)
    <3>1. PICK n \in 1 .. Len(ex) : ex[n].approved = i
      BY <1>1, <1>6, <2>1 DEF Handled
    <3>2. n \in 1 .. Len(ey) /\ ey[n] = ex[n]
      BY <1>2
    <3>q. QED
      BY <3>1, <3>2
  <2>2. CASE i = Len(l) + 1
    <3>1. Len(ex) + 1 \in 1 .. Len(ey) /\ ey[Len(ex) + 1].approved = i
      BY <1>2, <1>x, <2>2
    <3>q. QED
      BY <3>1
  <2>3. i \in 1 .. Len(l) \/ i = Len(l) + 1
    BY <1>1
  <2>q. QED
    BY <2>1, <2>2, <2>3
<1>7. Handled(m, "tool", calls, ey)
  BY <1>1, <1>5, <1>6, <1>e DEF Handled
<1>q. QED
  BY <1>2, <1>7 DEF m, ey, e, x

(* A run that is cancelled leaves its last approval open for good.          *)
LEMMA HandledCancelled ==
  ASSUME NEW l \in Seq(Events), NEW ex \in Seq(Ran), NEW at, NEW calls,
         Handled(l, at, calls, ex)
  PROVE  Handled(l, "ended", <<>>, ex)
<1>1. ASSUME NEW n \in 1 .. Len(ex) PROVE RanAfter(l, "ended", <<>>, ex[n])
  <2> DEFINE x == ex[n]
  <2>1. RanAfter(l, at, calls, x)
    BY DEF Handled
  <2> HIDE DEF x
  <2>2. RanAfter(l, "ended", <<>>, x)
    BY <2>1 DEF RanAfter
  <2>q. QED
    BY <2>2 DEF x
<1>q. QED
  BY <1>1 DEF Handled

-----------------------------------------------------------------------------

(* The fields of lab.                                                       *)
Places == {"none", "model", "calls", "tool", "ended"}
Statuses == {"none", "running"} \cup Terminals
CallSeqs == Seq(Calls)
Labs == [status : Statuses, at : Places, turn : Nat, calls : CallSeqs]

(* A log that may go on, and one that ended.                                *)
Open(l) == Len(l) > 0 => l[Len(l)].type \notin Terminals
Closed(l) == Len(l) > 0 /\ l[Len(l)].type \in Terminals

(* The inductive invariant of a run.                                        *)
LabRunInv ==
  /\ log \in Seq(Events) /\ executed \in Seq(Ran) /\ lab \in Labs
  /\ LogShape(log) /\ Handled(log, lab.at, lab.calls, executed)
  /\ lab.at # "ended" => Open(log) /\ lab.status \notin Terminals
  /\ lab.status \in Terminals => Closed(log)

(* What a log and the run it belongs to are to each other.                  *)
Kept(l, at, calls, ex) ==
  /\ l \in Seq(Events) /\ ex \in Seq(Ran) /\ LogShape(l) /\ Open(l)
  /\ Handled(l, at, calls, ex)

(* One more event of the model's.                                           *)
LEMMA KeptByModel ==
  ASSUME NEW l, NEW at \in {"none", "model", "calls"}, NEW calls, NEW ex, Kept(l, at, calls, ex)
  PROVE  \A calls2 : \A at2 \in {"model", "calls"} :
           Kept(Append(l, Event("model", NoCall)), at2, calls2, ex)
<1> DEFINE e == Event("model", NoCall)
<1>1. l \in Seq(Events) /\ ex \in Seq(Ran) /\ LogShape(l) /\ Open(l) /\ Handled(l, at, calls, ex)
  BY DEF Kept
<1>2. e \in Events /\ e.type = "model" /\ "model" \notin Terminals
  BY EventTypes DEF Terminals
<1> HIDE DEF e
<1>3. /\ Append(l, e) \in Seq(Events) /\ Len(Append(l, e)) = Len(l) + 1 /\ Len(l) \in Nat
      /\ Append(l, e)[Len(l) + 1] = e
  BY <1>1, <1>2, EventAppended
<1>4. LogShape(Append(l, e))
  BY <1>1, <1>2, ShapeGrows DEF Open
<1>5. ASSUME NEW at2 \in {"model", "calls"}, NEW calls2 PROVE Handled(Append(l, e), at2, calls2, ex)
  BY <1>1, <1>2, HandledGrows
<1>6. Open(Append(l, e))
  BY <1>2, <1>3 DEF Open
<1>q. QED
  BY <1>1, <1>3, <1>4, <1>5, <1>6, Zenon DEF Kept, e

(* The terminal event.                                                      *)
LEMMA KeptByEnd ==
  ASSUME NEW l, NEW at, NEW calls, NEW ex, Kept(l, at, calls, ex),
         NEW status \in Terminals, at # "ended",
         at = "tool" => Head(calls).kind = "raises"
  PROVE  LET m == Append(l, Event(status, NoCall))
         IN /\ m \in Seq(Events) /\ LogShape(m) /\ Closed(m) /\ Handled(m, "ended", <<>>, ex)
            /\ ex \in Seq(Ran)
<1> DEFINE e == Event(status, NoCall)
<1>1. l \in Seq(Events) /\ ex \in Seq(Ran) /\ LogShape(l) /\ Open(l) /\ Handled(l, at, calls, ex)
  BY DEF Kept
<1>2. e \in Events /\ e.type = status /\ status # "approved"
  BY EventTypes DEF Terminals
<1> HIDE DEF e
<1>3. /\ Append(l, e) \in Seq(Events) /\ Len(Append(l, e)) = Len(l) + 1 /\ Len(l) \in Nat
      /\ Append(l, e)[Len(l) + 1] = e
  BY <1>1, <1>2, EventAppended
<1>4. LogShape(Append(l, e))
  BY <1>1, <1>2, ShapeGrows DEF Open
<1>5. Handled(Append(l, e), "ended", <<>>, ex)
  BY <1>1, <1>2, HandledGrows
<1>6. Closed(Append(l, e))
  BY <1>2, <1>3 DEF Closed
<1>q. QED
  BY <1>1, <1>3, <1>4, <1>5, <1>6, Zenon DEF e

(* The result of the handler that runs.                                     *)
LEMMA KeptByResult ==
  ASSUME NEW l, NEW calls \in Seq(Calls), NEW ex, Kept(l, "tool", calls, ex), NEW calls2,
         Head(calls).kind = "returns"
  PROVE  Kept(Append(l, Event("resulted", Head(calls).id)), "calls", calls2, ex)
<1> DEFINE e == Event("resulted", Head(calls).id)
<1>1. l \in Seq(Events) /\ ex \in Seq(Ran) /\ LogShape(l) /\ Open(l) /\ Handled(l, "tool", calls, ex)
  BY DEF Kept
<1>0. calls # <<>> /\ l # <<>> /\ l[Len(l)].type = "approved" /\ l[Len(l)].call = Head(calls).id
  BY <1>1 DEF Handled
<1>h. Head(calls).id \in CallId
  <2>1. Head(calls) \in Calls
    BY <1>0, HeadTailProperties
  <2>q. QED
    BY <2>1 DEF Calls
<1>2. /\ e \in Events /\ e.type = "resulted" /\ e.call = Head(calls).id
      /\ "resulted" \notin Terminals
  BY <1>h, EventTypes DEF Terminals, ToolEvents
<1> HIDE DEF e
<1>3. /\ Append(l, e) \in Seq(Events) /\ Len(Append(l, e)) = Len(l) + 1 /\ Len(l) \in Nat
      /\ Append(l, e)[Len(l) + 1] = e
  BY <1>1, <1>2, EventAppended
<1>l. Len(l) > 0
  BY <1>0, <1>1
<1>4. LogShape(Append(l, e))
  BY <1>0, <1>1, <1>2, <1>l, ShapeGrows DEF Open
<1>5. Handled(Append(l, e), "calls", calls2, ex)
  BY <1>1, <1>2, HandledGrows
<1>6. Open(Append(l, e))
  BY <1>2, <1>3 DEF Open
<1>q. QED
  BY <1>1, <1>3, <1>4, <1>5, <1>6, Zenon DEF Kept, e

(* A request with its decision, and the handler an approval starts.         *)
LEMMA KeptByCall ==
  ASSUME NEW l, NEW calls \in Seq(Calls), calls # <<>>, NEW ex, Kept(l, "calls", calls, ex)
  PROVE  LET c == Head(calls).id
             k == Append(l, Event("requested", c))
         IN /\ Kept(Append(k, Event("denied", c)), "calls", calls, ex)
            /\ Head(calls).kind \in {"returns", "raises"} =>
                 Kept(Append(k, Event("approved", c)), "tool", calls,
                      Append(ex, [call |-> Head(calls), approved |-> Len(l) + 2]))
<1> DEFINE c == Head(calls).id
           k == Append(l, Event("requested", c))
<1>1. l \in Seq(Events) /\ ex \in Seq(Ran) /\ LogShape(l) /\ Open(l) /\ Handled(l, "calls", calls, ex)
  BY DEF Kept
<1>h. c \in CallId
  <2>1. Head(calls) \in Calls
    BY HeadTailProperties
  <2>q. QED
    BY <2>1 DEF Calls
<1>2. /\ \A type \in ToolEvents :
           Event(type, c) \in Events /\ Event(type, c).type = type /\ Event(type, c).call = c
      /\ {"requested", "approved", "denied"} \subseteq ToolEvents
      /\ "denied" \notin Terminals /\ "approved" \notin Terminals
  BY <1>h, EventTypes DEF Terminals, ToolEvents
<1> HIDE DEF c
<1>3. k \in Seq(Events) /\ Len(k) = Len(l) + 1 /\ Len(l) \in Nat
  BY <1>1, <1>2, EventAppended
<1>4. Handled(k, "calls", calls, ex)
  BY <1>1, <1>2, HandledGrows
<1>5. ASSUME NEW verdict \in {"approved", "denied"}
      PROVE  LET m == Append(k, Event(verdict, c))
             IN m \in Seq(Events) /\ LogShape(m) /\ Open(m)
  <2> DEFINE m == Append(k, Event(verdict, c))
  <2>1. LogShape(m)
    BY <1>1, <1>h, ShapeGrowsByCall DEF Open
  <2> HIDE DEF k
  <2>2. m \in Seq(Events) /\ Len(m) = Len(k) + 1 /\ m[Len(k) + 1] = Event(verdict, c)
    BY <1>2, <1>3, EventAppended
  <2>3. Event(verdict, c).type = verdict /\ verdict \notin Terminals
    BY <1>2
  <2> HIDE DEF m
  <2>4. Open(m)
    BY <1>3, <2>2, <2>3 DEF Open
  <2>q. QED
    BY <2>1, <2>2, <2>4 DEF m
<1> HIDE DEF k
<1>6. Handled(Append(k, Event("denied", c)), "calls", calls, ex)
  BY <1>1, <1>2, <1>3, <1>4, HandledGrows
<1>7. ASSUME Head(calls).kind \in {"returns", "raises"}
      PROVE  LET ey == Append(ex, [call |-> Head(calls), approved |-> Len(l) + 2])
             IN ey \in Seq(Ran) /\ Handled(Append(k, Event("approved", c)), "tool", calls, ey)
  <2>1. Len(k) + 1 = Len(l) + 2
    BY <1>3
  <2>2. LET ey == Append(ex, [call |-> Head(calls), approved |-> Len(k) + 1])
        IN ey \in Seq(Ran) /\ Handled(Append(k, Event("approved", c)), "tool", calls, ey)
    BY <1>1, <1>3, <1>4, <1>7, HandledCall DEF c
  <2>q. QED
    BY <2>1, <2>2
<1>8. Kept(Append(k, Event("denied", c)), "calls", calls, ex)
  BY <1>1, <1>5, <1>6, Zenon DEF Kept
<1>9. Head(calls).kind \in {"returns", "raises"} =>
        Kept(Append(k, Event("approved", c)), "tool", calls,
             Append(ex, [call |-> Head(calls), approved |-> Len(l) + 2]))
  BY <1>5, <1>7, Zenon DEF Kept
<1>q. QED
  BY <1>8, <1>9, Zenon DEF k, c

(* The calls of one model turn are a sequence.                              *)
LEMMA SeqsAreBounded ==
  ASSUME NEW S, NEW n \in Nat, NEW s \in BoundedSeq(S, n)
  PROVE  s \in Seq(S)
<1>1. PICK m \in 0 .. n : s \in [1 .. m -> S]
  BY Zenon DEF BoundedSeq, SeqOf
<1>q. QED
  BY <1>1

(* The values that the actions give to the fields of lab.                   *)
LEMMA LabValues ==
  /\ <<>> \in CallSeqs /\ {"model", "calls", "tool", "ended"} \subseteq Places
  /\ Terminals \subseteq Statuses /\ "running" \in Statuses
  /\ \A calls : calls \in CallSeqs <=> calls \in Seq(Calls)
BY DEF CallSeqs, Places, Statuses

(* A run that has not ended keeps its log.                                  *)
LEMMA RunIsKept ==
  ASSUME LabRunInv, lab.at # "ended"
  PROVE  /\ Kept(log, lab.at, lab.calls, executed) /\ lab.status \notin Terminals
         /\ lab \in Labs /\ lab.calls \in Seq(Calls) /\ lab.turn \in Nat
BY LabValues DEF LabRunInv, Kept, Labs

(* The terminal event keeps LabRunInv.                                         *)
LEMMA EndsKept ==
  ASSUME LabRunInv, NEW l, Kept(l, lab.at, lab.calls, executed), lab.at # "ended",
         lab.at = "tool" => Head(lab.calls).kind = "raises",
         NEW status \in Terminals, log' = Append(l, Event(status, NoCall)),
         lab' = [lab EXCEPT !.status = status, !.at = "ended", !.calls = <<>>],
         executed' = executed
  PROVE  LabRunInv'
<1>1. /\ log' \in Seq(Events) /\ LogShape(log') /\ Closed(log')
      /\ Handled(log', "ended", <<>>, executed) /\ executed \in Seq(Ran)
  BY KeptByEnd
<1>2. /\ lab' \in Labs /\ lab'.at = "ended" /\ lab'.calls = <<>>
  BY LabValues DEF LabRunInv, Labs
<1>q. QED
  BY <1>1, <1>2 DEF LabRunInv

(* Every step keeps LabRunInv: one step of the proof for each action of the run. *)
LEMMA RunStep ==
  ASSUME LabRunInv, [HarnessNext]_harnessVars
  PROVE  LabRunInv'
<1> DEFINE model == Event("model", NoCall)
<1>m. model \in Events
  BY EventTypes
<1>t. {"completed", "failed"} \subseteq Terminals /\ "running" \notin Terminals
  BY DEF Terminals
<1>l. log \in Seq(Events) /\ executed \in Seq(Ran) /\ lab \in Labs
  BY DEF LabRunInv
<1>e. \A events : Emit(events) => log' = log \o events
  BY DEF Emit
<1>p. \A a, b, c \in Events :
         /\ log \o <<a>> = Append(log, a)
         /\ log \o Append(<<>>, a) = Append(log, a)
         /\ log \o <<a, b>> = Append(Append(log, a), b)
         /\ log \o Append(<<a>>, b) = Append(Append(log, a), b)
         /\ log \o Append(<<a, b>>, c) = Append(Append(Append(log, a), b), c)
  BY <1>l, Published
<1>s. \A status \in Terminals : Event(status, NoCall) \in Events
  BY EventTypes
<1>c. \A type \in ToolEvents, c \in CallId : Event(type, c) \in Events
  BY EventTypes
<1>1. ASSUME RunBegins PROVE LabRunInv'
  <2>1. Kept(log, lab.at, lab.calls, executed) /\ lab.at = "none"
    BY <1>1, RunIsKept DEF RunBegins
  <2>2. Kept(Append(log, model), "model", <<>>, executed)
    BY <2>1, KeptByModel
  <2>3. Kept(Append(Append(log, model), model), "model", <<>>, executed)
    BY <2>2, KeptByModel
  <2>4. log' = Append(Append(log, model), model) /\ executed' = executed
    BY <1>1, <1>m, <1>e, <1>p DEF RunBegins
  <2>5. /\ lab' \in Labs /\ lab'.at = "model" /\ lab'.calls = <<>>
        /\ lab'.status = "running"
    BY <1>1, LabValues DEF RunBegins, Labs
  <2>q. QED
    BY <1>t, <2>3, <2>4, <2>5 DEF LabRunInv, Kept
<1>2. ASSUME ModelAnswers PROVE LabRunInv'
  <2>1. Kept(log, lab.at, lab.calls, executed) /\ lab.at = "model"
    BY <1>2, RunIsKept DEF ModelAnswers
  <2>2. Kept(Append(log, model), "model", lab.calls, executed)
    BY <2>1, KeptByModel
  <2>3. log' = Append(Append(log, model), Event("completed", NoCall))
    <3>1. log' = log \o Append(<<model>>, Event("completed", NoCall))
      BY <1>2, <1>e, Zenon DEF ModelAnswers, Ends
    <3>2. Event("completed", NoCall) \in Events
      BY <1>s, <1>t
    <3>q. QED
      BY <3>1, <3>2, <1>m, <1>p, Zenon
  <2>q. QED
    BY <1>2, <1>t, <2>1, <2>2, <2>3, EndsKept DEF ModelAnswers, Ends
<1>3. ASSUME ModelCalls PROVE LabRunInv'
  <2>1. /\ Kept(log, lab.at, lab.calls, executed) /\ lab.at = "model"
        /\ lab.status \notin Terminals
    BY <1>3, RunIsKept DEF ModelCalls
  <2>2. PICK calls \in BoundedSeq([id : CallId, kind : ToolKinds], MaxCalls) :
          lab' = [lab EXCEPT !.at = "calls", !.calls = calls]
    BY <1>3 DEF ModelCalls
  <2>3. calls \in Seq(Calls)
    BY SeqsAreBounded, HarnessAssumption DEF Calls
  <2>4. Kept(Append(log, model), "calls", calls, executed)
    BY <2>1, KeptByModel
  <2>5. log' = Append(log, model) /\ executed' = executed
    BY <1>3, <1>m, <1>e, <1>p DEF ModelCalls
  <2>6. /\ lab' \in Labs /\ lab'.at = "calls" /\ lab'.calls = calls
        /\ lab'.status = lab.status
    BY <1>l, <2>2, <2>3, LabValues DEF Labs
  <2>q. QED
    BY <2>1, <2>4, <2>5, <2>6 DEF LabRunInv, Kept
<1>4. ASSUME ModelFails PROVE LabRunInv'
  <2>1. Kept(log, lab.at, lab.calls, executed) /\ lab.at = "model"
    BY <1>4, RunIsKept DEF ModelFails
  <2>2. log' = Append(log, Event("failed", NoCall))
    BY <1>4, <1>e, <1>p, <1>s, <1>t DEF ModelFails, Ends
  <2>q. QED
    BY <1>4, <1>t, <2>1, <2>2, EndsKept DEF ModelFails, Ends
<1>5. ASSUME CallBegins PROVE LabRunInv'
  <2> DEFINE call == Head(lab.calls)
             k == Append(log, Event("requested", call.id))
  <2>1. /\ Kept(log, "calls", lab.calls, executed) /\ lab.at = "calls" /\ lab.calls # <<>>
        /\ lab.calls \in Seq(Calls) /\ lab.status \notin Terminals
    BY <1>5, RunIsKept DEF CallBegins
  <2>c. call.id \in CallId
    <3>1. call \in Calls
      BY <2>1, HeadTailProperties
    <3>q. QED
      BY <3>1 DEF Calls
  <2>2. /\ Kept(Append(k, Event("denied", call.id)), "calls", lab.calls, executed)
        /\ call.kind \in {"returns", "raises"} =>
             Kept(Append(k, Event("approved", call.id)), "tool", lab.calls,
                  Append(executed, [call |-> call, approved |-> Len(log) + 2]))
    BY <2>1, KeptByCall
  <2>e. /\ Event("requested", call.id) \in Events /\ Event("denied", call.id) \in Events
        /\ Event("approved", call.id) \in Events
    BY <2>c, <1>c DEF ToolEvents
  <2>3. CASE Ends("failed", <<>>) /\ UNCHANGED executed
    <3>1. log' = Append(log, Event("failed", NoCall))
      BY <2>3, <1>e, <1>p, <1>s, <1>t DEF Ends
    <3>q. QED
      BY <2>1, <2>3, <3>1, <1>t, EndsKept DEF Ends
  <2>4. CASE /\ Ends("failed", <<Event("requested", call.id), Event("denied", call.id)>>)
             /\ UNCHANGED executed
    <3>1. log' = Append(Append(k, Event("denied", call.id)), Event("failed", NoCall))
      <4>1. log' = log \o Append(<<Event("requested", call.id), Event("denied", call.id)>>,
                                 Event("failed", NoCall))
        BY <2>4, <1>e, Zenon DEF Ends
      <4>2. Event("failed", NoCall) \in Events
        BY <1>s, <1>t
      <4>q. QED
        BY <4>1, <4>2, <2>e, <1>p, Zenon
    <3>q. QED
      BY <2>1, <2>2, <2>4, <3>1, <1>t, EndsKept DEF Ends
  <2>5. CASE /\ call.kind \in {"returns", "raises"}
             /\ Emit(<<Event("requested", call.id), Event("approved", call.id)>>)
             /\ lab' = [lab EXCEPT !.at = "tool"]
             /\ executed' = Append(executed, [call |-> call, approved |-> Len(log) + 2])
    <3>1. log' = Append(k, Event("approved", call.id))
      <4>1. log' = log \o <<Event("requested", call.id), Event("approved", call.id)>>
        BY <2>5, <1>e
      <4>q. QED
        BY <4>1, <2>e, <1>p, Zenon
    <3>2. /\ lab' \in Labs /\ lab'.at = "tool" /\ lab'.calls = lab.calls
          /\ lab'.status = lab.status
      BY <1>l, <2>5, LabValues DEF Labs
    <3>3. Kept(log', "tool", lab.calls, executed')
      BY <2>2, <2>5, <3>1, Zenon
    <3>q. QED
      BY <2>1, <3>2, <3>3 DEF LabRunInv, Kept
  <2>q. QED
    BY <1>5, <2>3, <2>4, <2>5 DEF CallBegins
<1>6. ASSUME ToolEnds PROVE LabRunInv'
  <2> DEFINE call == Head(lab.calls)
  <2>1. /\ Kept(log, "tool", lab.calls, executed) /\ lab.at = "tool"
        /\ lab.calls \in Seq(Calls) /\ lab.status \notin Terminals
    BY <1>6, RunIsKept DEF ToolEnds
  <2>n. lab.calls # <<>>
    BY <2>1 DEF Kept, Handled
  <2>c. call.id \in CallId /\ Tail(lab.calls) \in Seq(Calls)
    <3>1. call \in Calls /\ Tail(lab.calls) \in Seq(Calls)
      BY <2>1, <2>n, HeadTailProperties
    <3>q. QED
      BY <3>1 DEF Calls
  <2>2. CASE /\ call.kind = "returns" /\ Emit(<<Event("resulted", call.id)>>)
             /\ lab' = [lab EXCEPT !.at = "calls", !.calls = Tail(@)]
             /\ UNCHANGED executed
    <3>1. log' = Append(log, Event("resulted", call.id))
      <4>1. Event("resulted", call.id) \in Events
        BY <2>c, <1>c DEF ToolEvents
      <4>q. QED
        BY <2>2, <4>1, <1>e, <1>p
    <3>2. /\ lab' \in Labs /\ lab'.at = "calls" /\ lab'.calls = Tail(lab.calls)
          /\ lab'.status = lab.status
      BY <1>l, <2>2, <2>c, LabValues DEF Labs
    <3>3. Kept(log', "calls", Tail(lab.calls), executed)
      BY <2>1, <2>2, <3>1, KeptByResult
    <3>q. QED
      BY <2>1, <2>2, <3>2, <3>3 DEF LabRunInv, Kept
  <2>3. CASE call.kind = "raises" /\ Ends("failed", <<>>) /\ UNCHANGED executed
    <3>1. log' = Append(log, Event("failed", NoCall))
      BY <2>3, <1>e, <1>p, <1>s, <1>t DEF Ends
    <3>q. QED
      BY <2>1, <2>3, <3>1, <1>t, EndsKept DEF Ends
  <2>q. QED
    BY <1>6, <2>2, <2>3 DEF ToolEnds
<1>7. ASSUME TurnEnds PROVE LabRunInv'
  <2>1. /\ Kept(log, lab.at, lab.calls, executed) /\ lab.at = "calls" /\ lab.turn \in Nat
        /\ lab.status \notin Terminals
    BY <1>7, RunIsKept DEF TurnEnds
  <2>2. CASE Ends("failed", <<>>) /\ UNCHANGED executed
    <3>1. log' = Append(log, Event("failed", NoCall))
      BY <2>2, <1>e, <1>p, <1>s, <1>t DEF Ends
    <3>q. QED
      BY <2>1, <2>2, <3>1, <1>t, EndsKept DEF Ends
  <2>3. CASE /\ Emit(<<Event("model", NoCall)>>)
             /\ lab' = [lab EXCEPT !.at = "model", !.turn = @ + 1]
             /\ UNCHANGED executed
    <3>1. Kept(Append(log, model), "model", lab.calls, executed)
      BY <2>1, KeptByModel
    <3>2. log' = Append(log, model)
      BY <2>3, <1>m, <1>e, <1>p
    <3>3. /\ lab' \in Labs /\ lab'.at = "model" /\ lab'.calls = lab.calls
          /\ lab'.status = lab.status
      <4>1. lab.turn + 1 \in Nat
        BY <2>1
      <4>q. QED
        BY <1>l, <2>3, <4>1, LabValues DEF Labs
    <3>q. QED
      BY <2>1, <2>3, <3>1, <3>2, <3>3 DEF LabRunInv, Kept
  <2>q. QED
    BY <1>7, <2>2, <2>3 DEF TurnEnds
<1>8. ASSUME RunCancelled PROVE LabRunInv'
  <2>1. /\ lab' \in Labs /\ lab'.at = "ended" /\ lab'.calls = <<>>
        /\ lab'.status = lab.status /\ log' = log /\ executed' = executed
    BY <1>8, <1>l, LabValues DEF RunCancelled, Labs
  <2>2. Handled(log, "ended", <<>>, executed)
    BY HandledCancelled DEF LabRunInv
  <2>q. QED
    BY <2>1, <2>2 DEF LabRunInv
<1>9. ASSUME UNCHANGED <<log, lab, executed>> PROVE LabRunInv'
  BY <1>9 DEF LabRunInv
<1>q. QED
  BY <1>1, <1>2, <1>3, <1>4, <1>5, <1>6, <1>7, <1>8, <1>9
     DEF HarnessNext, harnessVars, Connect, SendBacklog, BacklogEnds, SendLive, ReaderLeaves

(* Every handler that ran has an approval of its own.                       *)
LEMMA HandlersApproved ==
  ASSUME LabRunInv
  PROVE  HandlersAreApproved
<1>1. /\ DOMAIN log = 1 .. Len(log) /\ DOMAIN executed = 1 .. Len(executed)
      /\ \A i \in 1 .. Len(log) : log[i] \in Events
  BY DEF LabRunInv
<1>2. \A n \in 1 .. Len(executed) :
        RanAfter(log, lab.at, lab.calls, executed[n])
        /\ (n > 1 => executed[n - 1].approved < executed[n].approved)
  BY DEF LabRunInv, Handled
<1>3. ASSUME NEW e \in Events, NEW c, e.type = "approved", e.call = c
      PROVE  e = Event("approved", c)
  BY <1>3 DEF Events, Event
<1>4. ASSUME NEW n \in 1 .. Len(executed)
      PROVE  /\ executed[n].approved \in 1 .. Len(log)
             /\ log[executed[n].approved] = Event("approved", executed[n].call.id)
  <2>1. /\ executed[n].approved \in 1 .. Len(log)
        /\ log[executed[n].approved].type = "approved"
        /\ log[executed[n].approved].call = executed[n].call.id
    BY <1>2, Zenon DEF RanAfter
  <2>q. QED
    BY <1>1, <1>3, <2>1, Zenon
<1>5. \A i \in 1 .. Len(log) :
        log[i].type = "approved" => \E n \in 1 .. Len(executed) : executed[n].approved = i
  BY DEF LabRunInv, Handled
<1>q. QED
  BY <1>1, <1>2, <1>4, <1>5, Zenon DEF HandlersAreApproved

(* When the log of a run is complete and a call was requested at most once, *)
(* the one check it can fail is that for its completion, and it fails that  *)
(* exactly when the handler raised.                                         *)
LEMMA OneViolation ==
  ASSUME NEW l \in Seq(Events), NEW at, NEW calls, NEW ex \in Seq(Ran), LogShape(l),
         Handled(l, at, calls, ex), Closed(l), NEW c \in CallId,
         Cardinality(IndexesOf(l, {"requested"}, c)) <= 1
  PROVE  \A v \in Names :
           Violated(l, c)[v] <=>
             /\ v = "missing_completion"
             /\ \E n \in 1 .. Len(ex) : ex[n].call.kind = "raises" /\ ex[n].call.id = c
<1> DEFINE R == IndexesOf(l, {"requested"}, c)
           D == IndexesOf(l, {"approved", "denied"}, c)
           S == IndexesOf(l, {"resulted"}, c)
           r == LastOf(l, {"requested"}, c)
           d == LastOf(l, {"approved", "denied"}, c)
           s == LastOf(l, {"resulted"}, c)
           Raised == \E n \in 1 .. Len(ex) : ex[n].call.kind = "raises" /\ ex[n].call.id = c
<1>1. /\ DOMAIN l = 1 .. Len(l) /\ Len(l) \in Nat
      /\ \A i : i \in R <=> i \in 1 .. Len(l) /\ l[i].type = "requested" /\ l[i].call = c
      /\ \A i : i \in D <=> i \in 1 .. Len(l) /\ l[i].type \in {"approved", "denied"} /\ l[i].call = c
      /\ \A i : i \in S <=> i \in 1 .. Len(l) /\ l[i].type = "resulted" /\ l[i].call = c
  BY DEF IndexesOf
<1>3. /\ R = {} => r = 0
      /\ \A i : R = {i} => r = i
      /\ D = {} => d = 0
      /\ \A i : D = {i} => d = i
      /\ S = {} => s = 0
      /\ \A i : S = {i} => s = i
  BY LastIndex, Zenon
<1>4. /\ Cardinality(R) > 1 <=> \E i, j \in R : i # j
      /\ Cardinality(D) > 1 <=> \E i, j \in D : i # j
      /\ Cardinality(S) > 1 <=> \E i, j \in S : i # j
  <2>1. IsFiniteSet(R) /\ IsFiniteSet(D) /\ IsFiniteSet(S)
    BY LastIndex, Zenon
  <2> HIDE DEF R, D, S
  <2>2. Cardinality(R) > 1 <=> \E i, j \in R : i # j
    BY <2>1, MoreThanOne
  <2>3. Cardinality(D) > 1 <=> \E i, j \in D : i # j
    BY <2>1, MoreThanOne
  <2>4. Cardinality(S) > 1 <=> \E i, j \in S : i # j
    BY <2>1, MoreThanOne
  <2>q. QED
    BY <2>2, <2>3, <2>4
<1>6. /\ Violated(l, c)["duplicate_request"] <=> Cardinality(R) > 1
      /\ Violated(l, c)["duplicate_policy"] <=> Cardinality(D) > 1
      /\ Violated(l, c)["duplicate_completion"] <=> Cardinality(S) > 1
      /\ Violated(l, c)["missing_policy"] <=> r # 0 /\ d = 0
      /\ Violated(l, c)["policy_before_request"] <=> r # 0 /\ d # 0 /\ d <= r
      /\ Violated(l, c)["missing_completion"] <=> r # 0 /\ d # 0 /\ l[d].type = "approved" /\ s = 0
      /\ Violated(l, c)["denied_tool_completed"] <=> r # 0 /\ d # 0 /\ l[d].type = "denied" /\ s # 0
      /\ Violated(l, c)["completion_before_policy"] <=> r # 0 /\ s # 0 /\ d # 0 /\ s <= d
      /\ Violated(l, c)["policy_without_request"] <=> r = 0 /\ d # 0
      /\ Violated(l, c)["completion_without_request"] <=> r = 0 /\ s # 0
  BY CallFlags
<1>7. ~(Cardinality(R) > 1)
  <2>1. Cardinality(R) \in Nat
    BY LastIndex, FS_CardinalityType
  <2>q. QED
    BY <2>1
<1>8. R = {} \/ \E i : R = {i}
  <2> HIDE DEF R
  <2>1. ~\E x, y \in R : x # y
    BY <1>4, <1>7, Zenon
  <2>q. QED
    BY <2>1, EmptyOrOne, Zenon
<1> HIDE DEF R, D, S, r, d, s
<1>9. /\ \A i \in R : i < Len(l) /\ i + 1 \in D
      /\ \A i \in D : i > 1 /\ i - 1 \in R
      /\ \A i \in S : i > 1 /\ i - 1 \in D /\ l[i - 1].type = "approved"
  <2>1. ASSUME NEW i \in R PROVE i < Len(l) /\ i + 1 \in D
    <3>1. i \in 1 .. Len(l) /\ l[i].type = "requested" /\ l[i].call = c
      BY <1>1
    <3>2. i < Len(l) /\ l[i + 1].call = c /\ l[i + 1].type \in {"approved", "denied"}
      BY <3>1 DEF LogShape
    <3>3. i + 1 \in 1 .. Len(l)
      BY <1>1, <3>1, <3>2
    <3>q. QED
      BY <1>1, <3>2, <3>3
  <2>2. ASSUME NEW i \in D PROVE i > 1 /\ i - 1 \in R
    <3>1. i \in 1 .. Len(l) /\ l[i].type \in {"approved", "denied"} /\ l[i].call = c
      BY <1>1
    <3>2. i > 1 /\ l[i - 1].call = c /\ l[i - 1].type = "requested"
      BY <3>1 DEF LogShape
    <3>3. i - 1 \in 1 .. Len(l)
      BY <1>1, <3>1, <3>2
    <3>q. QED
      BY <1>1, <3>2, <3>3
  <2>3. ASSUME NEW i \in S PROVE i > 1 /\ i - 1 \in D /\ l[i - 1].type = "approved"
    <3>1. i \in 1 .. Len(l) /\ l[i].type = "resulted" /\ l[i].call = c
      BY <1>1
    <3>2. i > 1 /\ l[i - 1].call = c /\ l[i - 1].type = "approved"
      BY <3>1 DEF LogShape
    <3>3. i - 1 \in 1 .. Len(l)
      BY <1>1, <3>1, <3>2
    <3>q. QED
      BY <1>1, <3>2, <3>3
  <2>q. QED
    BY <2>1, <2>2, <2>3
<1>10. ASSUME NEW n \in 1 .. Len(ex), ex[n].call.id = c
       PROVE  /\ ex[n].approved \in D /\ ex[n].approved < Len(l)
              /\ ex[n].call.kind = "raises" => ex[n].approved + 1 \notin S
              /\ ex[n].call.kind = "returns" => ex[n].approved + 1 \in S
              /\ ex[n].call.kind \in {"returns", "raises"}
  <2> DEFINE x == ex[n]
  <2>1. RanAfter(l, at, calls, x) /\ x.call.id = c
    BY <1>10 DEF Handled
  <2> HIDE DEF x
  <2>2. x.approved \in D /\ x.approved \in 1 .. Len(l)
    BY <1>1, <2>1 DEF RanAfter
  <2>3. x.approved # Len(l)
    BY <2>1 DEF RanAfter, Closed, Terminals
  <2>4. x.approved < Len(l) /\ x.approved + 1 \in 1 .. Len(l)
    BY <1>1, <2>2, <2>3
  <2>5. x.call.kind = "raises" => x.approved + 1 \notin S
    BY <1>1, <2>1, <2>4 DEF RanAfter, Terminals
  <2>6. x.call.kind = "returns" => x.approved + 1 \in S
    BY <1>1, <2>1, <2>4 DEF RanAfter
  <2>q. QED
    BY <2>1, <2>2, <2>4, <2>5, <2>6 DEF x, RanAfter
<1>11. CASE R = {}
  <2>1. D = {} /\ S = {}
    BY <1>9, <1>11
  <2>2. r = 0 /\ d = 0 /\ s = 0
    BY <1>3, <1>11, <2>1
  <2>3. ~Raised
    BY <1>10, <2>1
  <2> HIDE DEF Raised
  <2>4. ~(Cardinality(D) > 1) /\ ~(Cardinality(S) > 1)
    BY <1>4, <2>1, Zenon
  <2>5. \A v \in Names : ~Violated(l, c)[v]
    BY <1>6, <1>7, <2>2, <2>4 DEF Names
  <2>q. QED
    BY <2>3, <2>5, Zenon DEF Raised
<1>12. ASSUME NEW i, R = {i}
       PROVE  \A v \in Names : Violated(l, c)[v] <=> v = "missing_completion" /\ Raised
  <2>1. i \in 1 .. Len(l) /\ i < Len(l)
    BY <1>1, <1>9, <1>12
  <2>2. D = {i + 1}
    <3>1. \A j \in D : j \in 1 .. Len(l) /\ j - 1 = i
      BY <1>1, <1>9, <1>12
    <3>2. \A j \in D : j = i + 1
      BY <3>1, <2>1
    <3>3. i + 1 \in D
      BY <1>9, <1>12
    <3>q. QED
      BY <3>2, <3>3
  <2>3. \A j \in S : j = i + 2 /\ l[i + 1].type = "approved"
    <3>1. \A j \in S : j \in 1 .. Len(l) /\ j - 1 = i + 1 /\ l[j - 1].type = "approved"
      BY <1>1, <1>9, <2>2
    <3>q. QED
      BY <3>1, <2>1
  <2>4. /\ r = i /\ d = i + 1 /\ r # 0 /\ d # 0 /\ ~(d <= r)
        /\ l[d].type \in {"approved", "denied"}
    <3>1. r = i /\ d = i + 1
      BY <1>3, <1>12, <2>2
    <3>2. l[i + 1].type \in {"approved", "denied"}
      BY <1>1, <2>2
    <3>q. QED
      BY <2>1, <3>1, <3>2
  <2>5. ~(Cardinality(D) > 1) /\ ~(Cardinality(S) > 1)
    BY <1>4, <2>2, <2>3
  <2>6. CASE S = {}
    <3>1. s = 0
      BY <1>3, <2>6
    <3>2. l[d].type = "approved" <=> Raised
      <4>1. ASSUME l[d].type = "approved" PROVE Raised
        <5>1. l[i + 1].type = "approved" /\ l[i + 1].call = c /\ i + 1 \in 1 .. Len(l)
          BY <4>1, <2>4, <2>2, <1>1
        <5>2. PICK n \in 1 .. Len(ex) : ex[n].approved = i + 1
          BY <5>1 DEF Handled
        <5>3. RanAfter(l, at, calls, ex[n])
          BY DEF Handled
        <5>4. ex[n].call.id = c
          BY <5>1, <5>2, <5>3 DEF RanAfter
        <5>5. ex[n].call.kind = "raises"
          BY <1>10, <5>4, <2>6
        <5>q. QED
          BY <5>4, <5>5
      <4>2. ASSUME NEW n \in 1 .. Len(ex), ex[n].call.kind = "raises", ex[n].call.id = c
            PROVE  l[d].type = "approved"
        <5>1. RanAfter(l, at, calls, ex[n]) /\ ex[n].approved \in D
          BY <1>10, <4>2 DEF Handled
        <5>2. ex[n].approved = d
          BY <5>1, <2>2, <2>4
        <5>q. QED
          BY <5>1, <5>2 DEF RanAfter
      <4>q. QED
        BY <4>1, <4>2
    <3> HIDE DEF Raised
    <3>q. QED
      BY <1>6, <1>7, <2>4, <2>5, <3>1, <3>2 DEF Names
  <2>7. CASE S # {}
    <3>1. S = {i + 2} /\ l[d].type = "approved"
      BY <2>3, <2>4, <2>7
    <3>2. s = i + 2 /\ s # 0 /\ ~(s <= d)
      <4>1. s = i + 2
        BY <1>3, <3>1
      <4>q. QED
        BY <4>1, <2>1, <2>4
    <3>3. ~Raised
      <4>1. ASSUME NEW n \in 1 .. Len(ex), ex[n].call.kind = "raises", ex[n].call.id = c
            PROVE  FALSE
        <5>1. ex[n].approved \in D /\ ex[n].approved + 1 \notin S
          BY <1>10, <4>1
        <5>2. ex[n].approved = i + 1
          BY <5>1, <2>2
        <5>3. (i + 1) + 1 = i + 2
          BY <2>1
        <5>q. QED
          BY <5>1, <5>2, <5>3, <3>1
      <4>q. QED
        BY <4>1
    <3> HIDE DEF Raised
    <3>q. QED
      BY <1>6, <1>7, <2>4, <2>5, <3>1, <3>2, <3>3 DEF Names
  <2>q. QED
    BY <2>6, <2>7
<1>q. QED
  BY <1>8, <1>11, <1>12

(* The violations of a log that is complete are the handlers that raised.   *)
LEMMA ContractKept ==
  ASSUME LabRunInv
  PROVE  RunsKeepTheContract
<1> DEFINE Found == {<<"missing_completion", executed[n].call.id>> :
                       n \in {m \in DOMAIN executed : executed[m].call.kind = "raises"}}
<1> SUFFICES ASSUME lab.status \in Terminals,
                    \A c \in CallId : Cardinality(IndexesOf(log, {"requested"}, c)) <= 1
             PROVE  TraceViolations(log) = Found
  BY DEF RunsKeepTheContract
<1>1. /\ log \in Seq(Events) /\ executed \in Seq(Ran) /\ LogShape(log) /\ Closed(log)
      /\ Handled(log, lab.at, lab.calls, executed) /\ DOMAIN executed = 1 .. Len(executed)
  BY DEF LabRunInv
<1>2. TerminalViolations(log) = {}
  <2>1. log # <<>> /\ log[Len(log)].type \in Terminals
    BY <1>1 DEF Closed
  <2>2. \A i \in 1 .. Len(log) - 1 : log[i].type \notin Terminals
    <3>1. Len(log) \in Nat
      BY <1>1
    <3>2. \A i \in 1 .. Len(log) - 1 : i \in 1 .. Len(log) /\ i # Len(log)
      BY <3>1
    <3>q. QED
      BY <1>1, <3>2 DEF LogShape
  <2>q. QED
    BY <1>1, <2>1, <2>2, TerminalContract
<1>3. \A c \in CallId, v \in Names :
        Violated(log, c)[v] <=>
          /\ v = "missing_completion"
          /\ \E n \in 1 .. Len(executed) :
               executed[n].call.kind = "raises" /\ executed[n].call.id = c
  BY <1>1, OneViolation
<1>4. \A n \in 1 .. Len(executed) : executed[n].call.id \in CallId
  <2>1. ASSUME NEW n \in 1 .. Len(executed) PROVE executed[n].call.id \in CallId
    <3>1. executed[n] \in Ran
      BY <1>1
    <3>q. QED
      BY <3>1 DEF Ran, Calls
  <2>q. QED
    BY <2>1
<1>5. \A x : x \in CallViolations(log) <=> \E v \in Names, c \in CallId : x = <<v, c>>
  BY DEF CallViolations, Names
<1>6. "missing_completion" \in Names
  BY DEF Names
<1> HIDE DEF Names
<1>7. \A v, c : <<v, c>>[1] = v /\ <<v, c>>[2] = c
  OBVIOUS
<1>8. \A x : x \in {y \in CallViolations(log) : Violated(log, y[2])[y[1]]} <=>
             \E v \in Names, c \in CallId : x = <<v, c>> /\ Violated(log, c)[v]
  <2> DEFINE Chosen == {y \in CallViolations(log) : Violated(log, y[2])[y[1]]}
  <2>1. ASSUME NEW x \in Chosen
        PROVE  \E v \in Names, c \in CallId : x = <<v, c>> /\ Violated(log, c)[v]
    <3>1. PICK v \in Names, c \in CallId : x = <<v, c>>
      BY <1>5
    <3>2. x[1] = v /\ x[2] = c /\ Violated(log, x[2])[x[1]]
      BY <3>1, <1>7
    <3>q. QED
      BY <3>1, <3>2
  <2>2. ASSUME NEW v \in Names, NEW c \in CallId, Violated(log, c)[v]
        PROVE  <<v, c>> \in Chosen
    <3>1. Violated(log, <<v, c>>[2])[<<v, c>>[1]]
      BY <1>7, <2>2
    <3>q. QED
      BY <1>5, <3>1
  <2> HIDE DEF Chosen
  <2>3. \A x : x \in Chosen <=>
             \E v \in Names, c \in CallId : x = <<v, c>> /\ Violated(log, c)[v]
    BY <2>1, <2>2, Zenon
  <2>q. QED
    BY <2>3 DEF Chosen
<1>9. \A x : x \in Found <=>
        \E n \in 1 .. Len(executed) :
          executed[n].call.kind = "raises" /\ x = <<"missing_completion", executed[n].call.id>>
  BY <1>1, Zenon
<1> HIDE DEF Found
<1>10. \A x : x \in TraceViolations(log) <=>
             \E v \in Names, c \in CallId : x = <<v, c>> /\ Violated(log, c)[v]
  BY <1>2, <1>8, Zenon DEF TraceViolations
<1>11. \A x : x \in TraceViolations(log) <=> x \in Found
  <2>1. ASSUME NEW x \in TraceViolations(log) PROVE x \in Found
    <3>1. PICK v \in Names, c \in CallId : x = <<v, c>> /\ Violated(log, c)[v]
      BY <1>10
    <3>2. v = "missing_completion"
      BY <1>3, <3>1
    <3>3. PICK n \in 1 .. Len(executed) :
            executed[n].call.kind = "raises" /\ executed[n].call.id = c
      BY <1>3, <3>1
    <3>q. QED
      BY <1>9, <3>1, <3>2, <3>3
  <2>2. ASSUME NEW x \in Found PROVE x \in TraceViolations(log)
    <3>1. PICK n \in 1 .. Len(executed) :
            executed[n].call.kind = "raises" /\ x = <<"missing_completion", executed[n].call.id>>
      BY <1>9
    <3>2. executed[n].call.id \in CallId
      BY <1>4
    <3>3. Violated(log, executed[n].call.id)["missing_completion"]
      BY <1>3, <1>6, <3>1, <3>2
    <3>q. QED
      BY <1>6, <1>10, <3>1, <3>2, <3>3
  <2>q. QED
    BY <2>1, <2>2
<1>q. QED
  BY <1>11

-----------------------------------------------------------------------------

(* The indices of the events after a cursor.                                *)
Rest(after, n) == [i \in 1 .. n - after |-> after + i]

NatSeqs == Seq(Nat)
StreamPlaces == {"none", "backlog", "live", "leaked", "closed"}
Streams == [at : StreamPlaces, after : Nat, backlog : NatSeqs, queue : NatSeqs, sent : NatSeqs]

(* A subscribed stream: what it was sent and what waits for it is the log   *)
(* after its cursor, and the backlog is empty once it reads the queue.      *)
StreamKept(x, n) ==
  /\ x \in Streams
  /\ x.at \in {"backlog", "live", "leaked"} =>
       x.after <= n /\ x.sent \o x.backlog \o x.queue = Rest(x.after, n)
  /\ x.at = "live" => x.backlog = <<>>

(* The inductive invariant of the readers.                                  *)
ReadersInv ==
  /\ reader \in [Reader -> Streams]
  /\ \A r \in Reader : StreamKept(reader[r], Len(log))

(* The indices after a cursor, and the ones that come behind them.          *)
LEMMA RestGrows ==
  ASSUME NEW a \in Nat, NEW n \in Nat, a <= n, NEW m \in Nat
  PROVE  /\ Rest(a, n) \in Seq(Nat) /\ [i \in 1 .. m |-> n + i] \in Seq(Nat)
         /\ Rest(a, n) \o [i \in 1 .. m |-> n + i] = Rest(a, n + m)
<1> DEFINE p == Rest(a, n)
           q == [i \in 1 .. m |-> n + i]
           t == Rest(a, n + m)
<1>1. p \in Seq(Nat) /\ Len(p) = n - a /\ \A i \in 1 .. n - a : p[i] = a + i
  <2>1. n - a \in Nat /\ \A i \in 1 .. n - a : a + i \in Nat
    OBVIOUS
  <2>2. p \in [1 .. n - a -> Nat] /\ \A i \in 1 .. n - a : p[i] = a + i
    BY <2>1 DEF Rest
  <2> HIDE DEF p
  <2>q. QED
    BY <2>1, <2>2
<1>2. q \in Seq(Nat) /\ Len(q) = m /\ \A i \in 1 .. m : q[i] = n + i
  <2>1. \A i \in 1 .. m : n + i \in Nat
    OBVIOUS
  <2>2. q \in [1 .. m -> Nat] /\ \A i \in 1 .. m : q[i] = n + i
    BY <2>1
  <2> HIDE DEF q
  <2>q. QED
    BY <2>2
<1>3. t \in Seq(Nat) /\ Len(t) = (n + m) - a /\ \A i \in 1 .. (n + m) - a : t[i] = a + i
  <2>1. (n + m) - a \in Nat /\ \A i \in 1 .. (n + m) - a : a + i \in Nat
    OBVIOUS
  <2>2. t \in [1 .. (n + m) - a -> Nat] /\ \A i \in 1 .. (n + m) - a : t[i] = a + i
    BY <2>1 DEF Rest
  <2> HIDE DEF t
  <2>q. QED
    BY <2>1, <2>2
<1> HIDE DEF p, q, t
<1>4. /\ p \o q \in Seq(Nat) /\ Len(p \o q) = Len(p) + Len(q)
      /\ \A i \in 1 .. Len(p) + Len(q) :
           (p \o q)[i] = IF i <= Len(p) THEN p[i] ELSE q[i - Len(p)]
  BY <1>1, <1>2, ConcatProperties
<1>5. \A i \in 1 .. (n + m) - a : (p \o q)[i] = t[i]
  <2> TAKE i \in 1 .. (n + m) - a
  <2>1. CASE i \in 1 .. n - a
    BY <1>1, <1>3, <1>4, <2>1
  <2>2. CASE i \notin 1 .. n - a
    <3>1. i - (n - a) \in 1 .. m /\ ~(i <= n - a) /\ n + (i - (n - a)) = a + i
      BY <2>2
    <3>2. (p \o q)[i] = q[i - (n - a)]
      BY <1>1, <1>2, <1>4, <3>1
    <3>q. QED
      BY <1>2, <1>3, <3>1, <3>2
  <2>q. QED
    BY <2>1, <2>2
<1>6. Len(p \o q) = (n + m) - a
  BY <1>1, <1>2, <1>4
<1>7. p \o q = t
  BY <1>3, <1>4, <1>5, <1>6, SeqEqual
<1>q. QED
  BY <1>1, <1>2, <1>7 DEF p, q, t

(* Sequences of indices associate.                                          *)
LEMMA NatConcat ==
  ASSUME NEW p \in Seq(Nat), NEW q \in Seq(Nat), NEW t \in Seq(Nat)
  PROVE  (p \o q) \o t = p \o (q \o t)
OBVIOUS

(* publish puts the new indices behind what already waits.                  *)
LEMMA StreamGrows ==
  ASSUME NEW n \in Nat, NEW m \in Nat, NEW x, StreamKept(x, n)
  PROVE  /\ x.at \in {"backlog", "live", "leaked"} =>
              StreamKept([x EXCEPT !.queue = @ \o [i \in 1 .. m |-> n + i]], n + m)
         /\ x.at \notin {"backlog", "live", "leaked"} => StreamKept(x, n + m)
<1>1. CASE x.at \in {"backlog", "live", "leaked"}
  <2> DEFINE new == [i \in 1 .. m |-> n + i]
             y == [x EXCEPT !.queue = @ \o new]
  <2>1. /\ x \in Streams /\ x.after \in Nat /\ x.after <= n
        /\ x.sent \o x.backlog \o x.queue = Rest(x.after, n)
        /\ x.at = "live" => x.backlog = <<>>
    BY <1>1 DEF StreamKept, Streams
  <2>2. x.sent \in Seq(Nat) /\ x.backlog \in Seq(Nat) /\ x.queue \in Seq(Nat)
    BY <2>1 DEF Streams, NatSeqs
  <2>3. new \in Seq(Nat) /\ Rest(x.after, n) \o new = Rest(x.after, n + m)
    BY <2>1, RestGrows
  <2> HIDE DEF new
  <2>4. x.queue \o new \in NatSeqs
    BY <2>2, <2>3 DEF NatSeqs
  <2>5. /\ y \in Streams /\ y.at = x.at /\ y.after = x.after /\ y.sent = x.sent
        /\ y.backlog = x.backlog /\ y.queue = x.queue \o new
    BY <2>1, <2>4 DEF Streams
  <2>6. x.sent \o x.backlog \o (x.queue \o new) = (x.sent \o x.backlog \o x.queue) \o new
    <3> DEFINE done == x.sent \o x.backlog
    <3>1. done \in Seq(Nat)
      BY <2>2, ConcatProperties
    <3> HIDE DEF done
    <3>2. (done \o x.queue) \o new = done \o (x.queue \o new)
      BY <2>2, <2>3, <3>1, NatConcat, Zenon
    <3>q. QED
      BY <3>2 DEF done
  <2>7. x.after <= n + m
    BY <2>1
  <2> HIDE DEF y
  <2>8. StreamKept(y, n + m)
    BY <2>1, <2>3, <2>5, <2>6, <2>7 DEF StreamKept
  <2>q. QED
    BY <1>1, <2>8 DEF y, new
<1>2. CASE x.at \notin {"backlog", "live", "leaked"}
  BY <1>2 DEF StreamKept
<1>q. QED
  BY <1>1, <1>2

(* One event of the backlog, or of the queue, moves to what was sent.       *)
LEMMA MovesToSent ==
  ASSUME NEW s \in Seq(Nat), NEW b \in Seq(Nat), b # <<>>, NEW q \in Seq(Nat)
  PROVE  /\ Append(s, Head(b)) \in Seq(Nat) /\ Tail(b) \in Seq(Nat)
         /\ Append(s, Head(b)) \o Tail(b) = s \o b
         /\ Append(s, Head(b)) \o Tail(b) \o q = s \o b \o q
         /\ Append(s, Head(b)) \o <<>> \o Tail(b) = s \o <<>> \o b
<1> DEFINE h == <<Head(b)>>
           t == Tail(b)
           a == Append(s, Head(b))
<1>1. Head(b) \in Nat /\ t \in Seq(Nat)
  BY HeadTailProperties
<1>2. b = h \o t
  BY <1>1
<1>3. a = s \o h /\ a \in Seq(Nat)
  BY <1>1, AppendIsConcat, AppendProperties
<1>h. h \in Seq(Nat)
  BY <1>1
<1> HIDE DEF h, t, a
<1>4. (s \o h) \o t = s \o (h \o t)
  BY <1>1, <1>h, NatConcat, Zenon
<1>5. a \o t = s \o b
  BY <1>2, <1>3, <1>4
<1>6. s \o <<>> = s /\ a \o <<>> = a
  BY <1>3, ConcatEmptySeq
<1>q. QED
  BY <1>1, <1>3, <1>5, <1>6 DEF t, a

(* publish keeps every stream.                                              *)
LEMMA EmitKeepsReaders ==
  ASSUME ReadersInv, log \in Seq(Events), NEW events \in Seq(Events), Emit(events)
  PROVE  ReadersInv'
<1> DEFINE n == Len(log)
           m == Len(events)
           new == [i \in 1 .. m |-> n + i]
<1>1. n \in Nat /\ m \in Nat /\ DOMAIN events = 1 .. m /\ Len(log') = n + m
  BY DEF Emit
<1>2. reader' = [r \in Reader |->
                   IF reader[r].at \in {"backlog", "live", "leaked"}
                   THEN [reader[r] EXCEPT !.queue = @ \o new]
                   ELSE reader[r]]
  BY <1>1 DEF Emit
<1> HIDE DEF n, m
<1>3. ASSUME NEW r \in Reader PROVE StreamKept(reader'[r], n + m)
  <2>1. StreamKept(reader[r], n)
    BY DEF ReadersInv, n
  <2>2. reader'[r] = IF reader[r].at \in {"backlog", "live", "leaked"}
                     THEN [reader[r] EXCEPT !.queue = @ \o new]
                     ELSE reader[r]
    BY <1>2, Zenon
  <2> DEFINE x == reader[r]
             y == reader'[r]
  <2> HIDE DEF new
  <2>3. /\ x.at \in {"backlog", "live", "leaked"} => y = [x EXCEPT !.queue = @ \o new]
        /\ x.at \notin {"backlog", "live", "leaked"} => y = x
    BY <2>2, Zenon
  <2> HIDE DEF x, y
  <2>4. /\ x.at \in {"backlog", "live", "leaked"} =>
             StreamKept([x EXCEPT !.queue = @ \o new], n + m)
        /\ x.at \notin {"backlog", "live", "leaked"} => StreamKept(x, n + m)
    BY <1>1, <2>1, StreamGrows DEF new, x
  <2>5. StreamKept(y, n + m)
    BY <2>3, <2>4, Zenon
  <2>q. QED
    BY <2>5 DEF y
<1>4. reader' \in [Reader -> Streams]
  <2>1. \A r \in Reader : reader'[r] \in Streams
    BY <1>3, Zenon DEF StreamKept
  <2>2. DOMAIN reader' = Reader /\ reader' = [r \in Reader |-> reader'[r]]
    BY <1>2, Zenon
  <2>q. QED
    BY <2>1, <2>2
<1>q. QED
  BY <1>1, <1>3, <1>4 DEF ReadersInv

(* A step of one connection keeps every stream.                             *)
LEMMA OneReaderMoves ==
  ASSUME ReadersInv, NEW r \in Reader, NEW x, StreamKept(x, Len(log)),
         reader' = [reader EXCEPT ![r] = x], log' = log
  PROVE  ReadersInv'
<1>1. reader \in [Reader -> Streams] /\ x \in Streams
  BY DEF ReadersInv, StreamKept
<1>2. reader' \in [Reader -> Streams]
  BY <1>1
<1>3. ASSUME NEW p \in Reader PROVE StreamKept(reader'[p], Len(log))
  <2>1. reader'[p] = IF p = r THEN x ELSE reader[p]
    BY <1>1
  <2>2. StreamKept(reader[p], Len(log))
    BY DEF ReadersInv
  <2>q. QED
    BY <2>1, <2>2
<1>q. QED
  BY <1>2, <1>3 DEF ReadersInv

(* Every step of the run publishes a sequence of events, or none.           *)
LEMMA RunPublishes ==
  ASSUME LabRunInv,
         RunBegins \/ ModelAnswers \/ ModelCalls \/ ModelFails \/ CallBegins \/ ToolEnds
           \/ TurnEnds
  PROVE  \E events \in Seq(Events) : Emit(events)
<1> DEFINE model == Event("model", NoCall)
           failed == Event("failed", NoCall)
           completed == Event("completed", NoCall)
<1>e. model \in Events /\ failed \in Events /\ completed \in Events
  BY EventTypes DEF Terminals
<1>s. \A a, b, c \in Events :
        /\ <<a>> \in Seq(Events) /\ Append(<<>>, a) \in Seq(Events)
        /\ <<a, b>> \in Seq(Events) /\ Append(<<a>>, b) \in Seq(Events)
        /\ Append(<<a, b>>, c) \in Seq(Events)
  OBVIOUS
<1>c. \A type \in ToolEvents, c \in CallId : Event(type, c) \in Events
  BY EventTypes
<1>1. CASE RunBegins
  BY <1>1, <1>e, <1>s, Zenon DEF RunBegins
<1>2. CASE ModelAnswers
  BY <1>2, <1>e, <1>s, Zenon DEF ModelAnswers, Ends
<1>3. CASE ModelCalls
  BY <1>3, <1>e, <1>s, Zenon DEF ModelCalls
<1>4. CASE ModelFails
  BY <1>4, <1>e, <1>s, Zenon DEF ModelFails, Ends
<1>5. CASE CallBegins
  <2> DEFINE call == Head(lab.calls)
             asked == Event("requested", call.id)
  <2>1. lab.at = "calls" /\ lab.calls # <<>> /\ lab.calls \in Seq(Calls)
    BY <1>5, RunIsKept DEF CallBegins
  <2>2. call \in Calls
    BY <2>1, HeadTailProperties
  <2>3. asked \in Events /\ Event("denied", call.id) \in Events /\ Event("approved", call.id) \in Events
    BY <1>c, <2>2 DEF Calls, ToolEvents
  <2>4. \/ Emit(Append(<<>>, failed))
        \/ Emit(Append(<<asked, Event("denied", call.id)>>, failed))
        \/ Emit(<<asked, Event("approved", call.id)>>)
    BY <1>5, Zenon DEF CallBegins, Ends
  <2>q. QED
    BY <1>e, <1>s, <2>3, <2>4, Zenon
<1>6. CASE ToolEnds
  <2> DEFINE call == Head(lab.calls)
  <2>1. /\ lab.at = "tool" /\ lab.calls \in Seq(Calls)
        /\ Kept(log, lab.at, lab.calls, executed)
    BY <1>6, RunIsKept DEF ToolEnds
  <2>2. lab.calls # <<>>
    BY <2>1 DEF Kept, Handled
  <2>3. call \in Calls
    BY <2>1, <2>2, HeadTailProperties
  <2>4. Event("resulted", call.id) \in Events
    BY <1>c, <2>3 DEF Calls, ToolEvents
  <2>5. Emit(<<Event("resulted", call.id)>>) \/ Emit(Append(<<>>, failed))
    BY <1>6, Zenon DEF ToolEnds, Ends
  <2>q. QED
    BY <1>e, <1>s, <2>4, <2>5, Zenon
<1>7. CASE TurnEnds
  BY <1>7, <1>e, <1>s, Zenon DEF TurnEnds, Ends
<1>q. QED
  BY <1>1, <1>2, <1>3, <1>4, <1>5, <1>6, <1>7

(* Every step keeps ReadersInv: one step of the proof for each action of a reader. *)
LEMMA ReadersStep ==
  ASSUME LabRunInv, ReadersInv, [HarnessNext]_harnessVars
  PROVE  ReadersInv'
<1>0. log \in Seq(Events) /\ Len(log) \in Nat /\ reader \in [Reader -> Streams]
  BY DEF LabRunInv, ReadersInv
<1>k. ASSUME NEW r \in Reader
      PROVE  /\ StreamKept(reader[r], Len(log)) /\ reader[r] \in Streams
             /\ reader[r].sent \in Seq(Nat) /\ reader[r].backlog \in Seq(Nat)
             /\ reader[r].queue \in Seq(Nat)
  BY DEF ReadersInv, StreamKept, Streams, NatSeqs
<1>1. CASE RunBegins \/ ModelAnswers \/ ModelCalls \/ ModelFails \/ CallBegins \/ ToolEnds
             \/ TurnEnds
  <2>1. PICK events \in Seq(Events) : Emit(events)
    BY <1>1, RunPublishes
  <2>q. QED
    BY <1>0, <2>1, EmitKeepsReaders
<1>2. CASE UNCHANGED <<log, reader>>
  BY <1>2 DEF ReadersInv
<1>3. ASSUME NEW r \in Reader, Connect(r) PROVE ReadersInv'
  <2>1. PICK after \in 0 .. Len(log) :
          reader' = [reader EXCEPT ![r] =
            Stream("backlog", after, [i \in 1 .. Len(log) - after |-> after + i], <<>>, <<>>)]
    BY <1>3 DEF Connect
  <2> DEFINE x == Stream("backlog", after, Rest(after, Len(log)), <<>>, <<>>)
  <2>2. after \in Nat /\ after <= Len(log)
    BY <1>0
  <2>3. Rest(after, Len(log)) \in Seq(Nat)
    BY <1>0, <2>2, RestGrows
  <2>4. <<>> \o Rest(after, Len(log)) \o <<>> = Rest(after, Len(log))
    BY <2>3, ConcatEmptySeq
  <2>5. /\ x \in Streams /\ x.at = "backlog" /\ x.after = after /\ x.sent = <<>>
        /\ x.backlog = Rest(after, Len(log)) /\ x.queue = <<>>
    <3>1. Rest(after, Len(log)) \in NatSeqs /\ <<>> \in NatSeqs /\ "backlog" \in StreamPlaces
      BY <2>3 DEF NatSeqs, StreamPlaces
    <3>q. QED
      BY <2>2, <3>1 DEF Stream, Streams
  <2>6. reader' = [reader EXCEPT ![r] = x] /\ log' = log
    BY <1>3, <2>1 DEF Connect, Rest
  <2> HIDE DEF x
  <2>7. StreamKept(x, Len(log))
    BY <2>2, <2>4, <2>5 DEF StreamKept
  <2>q. QED
    BY <2>6, <2>7, OneReaderMoves
<1>4. ASSUME NEW r \in Reader, SendBacklog(r) PROVE ReadersInv'
  <2> DEFINE x == reader[r]
             e == Head(x.backlog)
             y == [SendTo(r, e) EXCEPT !.backlog = Tail(@),
                                       !.at = IF @ = "closing" THEN "leaked" ELSE @]
  <2>1. /\ x.at = "backlog" /\ x.backlog # <<>> /\ reader' = [reader EXCEPT ![r] = y]
        /\ log' = log
    BY <1>4 DEF SendBacklog
  <2>2. /\ x \in Streams /\ x.sent \in Seq(Nat) /\ x.backlog \in Seq(Nat)
        /\ x.queue \in Seq(Nat) /\ StreamKept(x, Len(log))
    BY <1>k
  <2>3. /\ Append(x.sent, e) \in NatSeqs /\ Tail(x.backlog) \in NatSeqs
        /\ Append(x.sent, e) \o Tail(x.backlog) \o x.queue = x.sent \o x.backlog \o x.queue
    BY <2>1, <2>2, MovesToSent DEF NatSeqs
  <2>4. /\ y \in Streams /\ y.at \in {"backlog", "leaked"} /\ y.after = x.after
        /\ y.sent = Append(x.sent, e) /\ y.backlog = Tail(x.backlog) /\ y.queue = x.queue
    BY <2>1, <2>2, <2>3 DEF SendTo, Streams, StreamPlaces
  <2> HIDE DEF y, e, x
  <2>5. StreamKept(y, Len(log))
    BY <2>1, <2>2, <2>3, <2>4 DEF StreamKept
  <2>q. QED
    BY <2>1, <2>5, OneReaderMoves
<1>5. ASSUME NEW r \in Reader, BacklogEnds(r) PROVE ReadersInv'
  <2> DEFINE x == reader[r]
             y == [x EXCEPT !.at = "live"]
  <2>1. /\ x.at = "backlog" /\ x.backlog = <<>> /\ log' = log
        /\ reader' = [reader EXCEPT ![r].at = "live"]
    BY <1>5 DEF BacklogEnds
  <2>2. reader' = [reader EXCEPT ![r] = y]
    BY <2>1, <1>0
  <2>3. x \in Streams /\ StreamKept(x, Len(log))
    BY <1>k
  <2>4. /\ y \in Streams /\ y.at = "live" /\ y.after = x.after /\ y.sent = x.sent
        /\ y.backlog = x.backlog /\ y.queue = x.queue
    BY <2>3 DEF Streams, StreamPlaces
  <2> HIDE DEF y, x
  <2>5. StreamKept(y, Len(log))
    BY <2>1, <2>3, <2>4 DEF StreamKept
  <2>q. QED
    BY <2>1, <2>2, <2>5, OneReaderMoves
<1>6. ASSUME NEW r \in Reader, SendLive(r) PROVE ReadersInv'
  <2> DEFINE x == reader[r]
             e == Head(x.queue)
             y == [SendTo(r, e) EXCEPT !.queue = Tail(@),
                                       !.at = IF @ = "closing" THEN "closed" ELSE @]
  <2>1. /\ x.at = "live" /\ x.queue # <<>> /\ reader' = [reader EXCEPT ![r] = y]
        /\ log' = log
    BY <1>6 DEF SendLive
  <2>2. /\ x \in Streams /\ x.sent \in Seq(Nat) /\ x.backlog = <<>>
        /\ x.queue \in Seq(Nat) /\ StreamKept(x, Len(log))
    BY <1>k, <2>1 DEF StreamKept
  <2>3. /\ Append(x.sent, e) \in NatSeqs /\ Tail(x.queue) \in NatSeqs
        /\ Append(x.sent, e) \o <<>> \o Tail(x.queue) = x.sent \o <<>> \o x.queue
    BY <2>1, <2>2, MovesToSent DEF NatSeqs
  <2>4. /\ y \in Streams /\ y.at \in {"live", "closed"} /\ y.after = x.after
        /\ y.sent = Append(x.sent, e) /\ y.backlog = x.backlog /\ y.queue = Tail(x.queue)
    BY <2>1, <2>2, <2>3 DEF SendTo, Streams, StreamPlaces
  <2> HIDE DEF y, e, x
  <2>5. StreamKept(y, Len(log))
    BY <2>1, <2>2, <2>3, <2>4 DEF StreamKept
  <2>q. QED
    BY <2>1, <2>5, OneReaderMoves
<1>7. ASSUME NEW r \in Reader, ReaderLeaves(r) PROVE ReadersInv'
  <2> DEFINE x == reader[r]
             y == [x EXCEPT !.at = IF @ = "live" THEN "closed" ELSE "leaked"]
  <2>1. /\ x.at \in {"backlog", "live"} /\ log' = log
        /\ reader' = [reader EXCEPT ![r].at = IF @ = "live" THEN "closed" ELSE "leaked"]
    BY <1>7 DEF ReaderLeaves
  <2>2. reader' = [reader EXCEPT ![r] = y]
    BY <2>1, <1>0
  <2>3. x \in Streams /\ StreamKept(x, Len(log))
    BY <1>k
  <2>4. /\ y \in Streams /\ y.at = (IF x.at = "live" THEN "closed" ELSE "leaked")
        /\ y.after = x.after /\ y.sent = x.sent
        /\ y.backlog = x.backlog /\ y.queue = x.queue
    BY <2>3 DEF Streams, StreamPlaces
  <2> HIDE DEF y, x
  <2>5. StreamKept(y, Len(log))
    BY <2>1, <2>3, <2>4 DEF StreamKept
  <2>q. QED
    BY <2>1, <2>2, <2>5, OneReaderMoves
<1>q. QED
  BY <1>1, <1>2, <1>3, <1>4, <1>5, <1>6, <1>7 DEF HarnessNext, harnessVars, RunCancelled

-----------------------------------------------------------------------------

(* The lab and a log that grows in every way, each at its own pace.         *)
LabSpec ==
  /\ HarnessInit /\ TraceInit
  /\ [][\/ HarnessNext /\ UNCHANGED trace
        \/ TraceNext /\ UNCHANGED harnessVars]_<<trace, harnessVars>>

(* The inductive invariant of the lab.                                      *)
LabIInv == trace \in Seq(Events) /\ LabRunInv /\ ReadersInv

(* The initial state.                                                       *)
LEMMA LabStarts ==
  ASSUME HarnessInit, TraceInit
  PROVE  LabIInv
<1>1. trace \in Seq(Events) /\ log = <<>> /\ log \in Seq(Events) /\ Len(log) = 0
      /\ executed = <<>> /\ executed \in Seq(Ran) /\ Len(executed) = 0
  BY DEF HarnessInit, TraceInit
<1>2. lab \in Labs /\ lab.at = "none" /\ lab.status = "none"
  <2>1. <<>> \in CallSeqs /\ "none" \in Places /\ "none" \in Statuses
    BY DEF CallSeqs, Places, Statuses
  <2>q. QED
    BY <2>1 DEF HarnessInit, Labs
<1>3. LabRunInv
  BY <1>1, <1>2 DEF LabRunInv, LogShape, Handled, Open, Terminals
<1>4. ReadersInv
  <2>1. <<>> \in NatSeqs /\ "none" \in StreamPlaces
    BY DEF NatSeqs, StreamPlaces
  <2> DEFINE x == Stream("none", 0, <<>>, <<>>, <<>>)
  <2>2. x \in Streams /\ x.at = "none"
    BY <2>1 DEF Stream, Streams
  <2>3. reader = [r \in Reader |-> x]
    BY DEF HarnessInit
  <2> HIDE DEF x
  <2>q. QED
    BY <2>2, <2>3 DEF ReadersInv, StreamKept
<1>q. QED
  BY <1>1, <1>3, <1>4 DEF LabIInv

(* What a client of the lab may rely on holds for logs of any length and    *)
(* any number of readers: the checks are the contract, a handler runs once  *)
(* for each approval, a run that ended by itself breaks the contract only   *)
(* where a handler raised, and every reader sees the log.                   *)
THEOREM LabIsSound == LabSpec => []LabInv
<1>1. HarnessInit /\ TraceInit => LabIInv
  BY LabStarts
<1>2. /\ LabIInv
      /\ [\/ HarnessNext /\ UNCHANGED trace
          \/ TraceNext /\ UNCHANGED harnessVars]_<<trace, harnessVars>>
      => LabIInv'
  <2> SUFFICES ASSUME LabIInv,
                      [\/ HarnessNext /\ UNCHANGED trace
                       \/ TraceNext /\ UNCHANGED harnessVars]_<<trace, harnessVars>>
               PROVE  LabIInv'
    OBVIOUS
  <2>1. [HarnessNext]_harnessVars /\ (trace' = trace \/ Grow)
    BY DEF TraceNext
  <2>2. LabRunInv'
    BY <2>1, RunStep DEF LabIInv
  <2>3. ReadersInv'
    BY <2>1, ReadersStep DEF LabIInv
  <2>4. trace' \in Seq(Events)
    <3>1. CASE Grow
      <4>1. PICK e \in Events : trace' = Append(trace, e)
        BY <3>1, EventTypes DEF Grow
      <4>q. QED
        BY <4>1, AppendProperties DEF LabIInv
    <3>2. CASE trace' = trace
      BY <3>2 DEF LabIInv
    <3>q. QED
      BY <2>1, <3>1, <3>2
  <2>q. QED
    BY <2>2, <2>3, <2>4 DEF LabIInv
<1>3. LabIInv => LabInv
  <2> SUFFICES ASSUME LabIInv PROVE LabInv
    OBVIOUS
  <2>1. ContractIsComplete
    BY ChecksAreTheContract DEF LabIInv, ContractIsComplete
  <2>2. HandlersAreApproved /\ RunsKeepTheContract
    BY HandlersApproved, ContractKept DEF LabIInv
  <2>3. ReadersSeeTheLog
    BY DEF LabIInv, ReadersInv, StreamKept, ReadersSeeTheLog, Rest
  <2>q. QED
    BY <2>1, <2>2, <2>3 DEF LabInv
<1>q. QED
  BY <1>1, <1>2, <1>3, PTL DEF LabSpec
=============================================================================
