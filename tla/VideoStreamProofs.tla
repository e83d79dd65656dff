------------------------- MODULE VideoStreamProofs --------------------------
(***************************************************************************)
(* For any number of sessions' threads: the capture slot is its owner's;   *)
(* a thread that was held up does not replay what it missed; and each      *)
(* keyframe that is sent can be decoded from.  And for any panel, target   *)
(* and frame rate: what the capture computes stays where it belongs.       *)
(***************************************************************************)
EXTENDS VideoStream, Geometry, FiniteSetTheorems, WellFoundedInduction, TLAPS

Place == {"idle", "open", "init", "drop", "close"} \union Streaming

\* What opening has acquired after k stages.
Firsts(k) == {Stages[i] : i \in 1 .. k}

SlotTypeOK ==
    /\ slot \in BOOLEAN
    /\ at \in [Threads -> Place]
    /\ owns \in [Threads -> SUBSET ToSet(Stages)]

\* The slot is taken exactly while somebody is inside, and nobody else is.
OneInside ==
    /\ \A t \in Threads : at[t] \in Inside => slot
    /\ slot => \E t \in Threads : at[t] \in Inside
    /\ \A t, u \in Threads : at[t] \in Inside /\ at[u] \in Inside => t = u

\* What a capture holds follows from how far it has come.
HoldsItsStages ==
    \A t \in Threads :
        /\ at[t] \in {"idle", "open"} => owns[t] = {}
        /\ at[t] = "init" => \E k \in 0 .. 5 : owns[t] = Firsts(k)
        /\ at[t] \in Streaming => owns[t] = ToSet(Stages)
        /\ at[t] = "close" => owns[t] \intersect Vendor = {}

Inductive == SlotTypeOK /\ OneInside /\ HoldsItsStages

-----------------------------------------------------------------------------
(* The stages *)

LEMMA SixStages ==
    /\ Len(Stages) = 6 /\ DOMAIN Stages = 1 .. 6
    /\ ToSet(Stages) = {"fb", "mem", "enc", "inited", "buffers", "held"}
    /\ Vendor = {"mem", "enc", "inited", "buffers", "held"}
    /\ Firsts(6) = ToSet(Stages) /\ Firsts(0) = {}
<1>1. Len(Stages) = 6 /\ DOMAIN Stages = 1 .. 6
  BY DEF Stages
<1>2. ToSet(Stages) = {Stages[i] : i \in 1 .. 6}
  BY <1>1 DEF ToSet
<1>3. {Stages[i] : i \in 1 .. 6} = {"fb", "mem", "enc", "inited", "buffers", "held"}
  BY DEF Stages
<1>4. Vendor = {"mem", "enc", "inited", "buffers", "held"}
  BY <1>2, <1>3 DEF Vendor
<1>5. Firsts(0) = {}
  BY DEF Firsts
<1> QED BY <1>1, <1>2, <1>3, <1>4, <1>5 DEF Firsts

LEMMA NextStage ==
    ASSUME NEW k \in 0 .. 5
    PROVE  /\ Firsts(k) \union {Stages[k + 1]} = Firsts(k + 1)
           /\ Stages[k + 1] \notin Firsts(k) /\ Stages[k + 1] \in ToSet(Stages)
           /\ Firsts(k) \subseteq ToSet(Stages)
<1>1. \A i \in 1 .. 6 : Stages[i] \in ToSet(Stages)
  BY SixStages DEF Stages
<1>2. k + 1 \in 1 .. 6 /\ 1 .. k \subseteq 1 .. 6 /\ 1 .. k + 1 = (1 .. k) \union {k + 1}
  OBVIOUS
<1>3. \A i, j \in 1 .. 6 : Stages[i] = Stages[j] => i = j
  BY DEF Stages
<1>4. Firsts(k) \union {Stages[k + 1]} = Firsts(k + 1)
  BY <1>2 DEF Firsts
<1>5. Stages[k + 1] \notin Firsts(k)
  BY <1>2, <1>3 DEF Firsts
<1>6. Firsts(k) \subseteq ToSet(Stages)
  BY <1>1, <1>2 DEF Firsts
<1> QED BY <1>1, <1>2, <1>4, <1>5, <1>6

LEMMA StagesCounted ==
    \A k \in 0 .. 5 : IsFiniteSet(Firsts(k)) /\ Cardinality(Firsts(k)) = k
<1>1. IsFiniteSet(Firsts(0)) /\ Cardinality(Firsts(0)) = 0
  BY SixStages, FS_EmptySet
<1>2. ASSUME NEW k \in 0 .. 5, IsFiniteSet(Firsts(k)), Cardinality(Firsts(k)) = k
      PROVE  IsFiniteSet(Firsts(k + 1)) /\ Cardinality(Firsts(k + 1)) = k + 1
  <2>1. IsFiniteSet(Firsts(k) \union {Stages[k + 1]})
        /\ Cardinality(Firsts(k) \union {Stages[k + 1]}) = k + 1
    BY <1>2, NextStage, FS_AddElement
  <2> QED BY <2>1, NextStage
<1>3. IsFiniteSet(Firsts(1)) /\ Cardinality(Firsts(1)) = 1
  BY <1>1, <1>2
<1>4. IsFiniteSet(Firsts(2)) /\ Cardinality(Firsts(2)) = 2
  BY <1>3, <1>2
<1>5. IsFiniteSet(Firsts(3)) /\ Cardinality(Firsts(3)) = 3
  BY <1>4, <1>2
<1>6. IsFiniteSet(Firsts(4)) /\ Cardinality(Firsts(4)) = 4
  BY <1>5, <1>2
<1>7. IsFiniteSet(Firsts(5)) /\ Cardinality(Firsts(5)) = 5
  BY <1>6, <1>2
<1> QED BY <1>1, <1>3, <1>4, <1>5, <1>6, <1>7

-----------------------------------------------------------------------------
LEMMA InitiallyInductive == Init => Inductive
<1> SUFFICES ASSUME Init PROVE Inductive
  OBVIOUS
<1> QED BY DEF Init, Inductive, SlotTypeOK, OneInside, HoldsItsStages, Place, Inside, Streaming

\* A step that takes a thread from a place inside to another keeps the slot.
LEMMA StaysInside ==
    ASSUME Inductive, NEW t \in Threads, NEW to \in Place, at[t] \in Inside, to \in Inside,
           Goes(t, to), UNCHANGED slot
    PROVE  OneInside'
BY DEF Inductive, SlotTypeOK, OneInside, Goes

\* A step that takes a thread from a place outside to another keeps it too.
LEMMA StaysOutside ==
    ASSUME Inductive, NEW t \in Threads, NEW to \in Place, at[t] \notin Inside, to \notin Inside,
           Goes(t, to), UNCHANGED slot
    PROVE  OneInside'
BY DEF Inductive, SlotTypeOK, OneInside, Goes

LEMMA OpenSteps == ASSUME Inductive, NEW t \in Threads, open_scaled_ex(t) PROVE Inductive'
<1> USE DEF Inductive
<1>1. at[t] = "open" /\ owns[t] = {} /\ UNCHANGED owns
  BY DEF open_scaled_ex, HoldsItsStages
<1>2. CASE Goes(t, "idle") /\ UNCHANGED slot
  <2>1. SlotTypeOK'
    BY <1>1, <1>2 DEF SlotTypeOK, Goes, Place
  <2>2. OneInside'
    BY <1>1, <1>2, StaysOutside DEF Place, Inside, Streaming
  <2>3. HoldsItsStages'
    BY <1>1, <1>2 DEF SlotTypeOK, Goes, HoldsItsStages, Streaming
  <2> QED BY <2>1, <2>2, <2>3
<1>3. CASE ~slot /\ slot' = TRUE /\ Goes(t, "init")
  <2>1. SlotTypeOK'
    BY <1>1, <1>3 DEF SlotTypeOK, Goes, Place
  <2>2. OneInside'
    BY <1>1, <1>3 DEF SlotTypeOK, OneInside, Goes, Inside
  <2>3. HoldsItsStages'
    BY <1>1, <1>3, SixStages DEF SlotTypeOK, Goes, HoldsItsStages, Streaming
  <2> QED BY <2>1, <2>2, <2>3
<1> QED BY <1>2, <1>3 DEF open_scaled_ex, ClaimFails

LEMMA InitSteps == ASSUME Inductive, NEW t \in Threads, init(t) PROVE Inductive'
<1> USE DEF Inductive
<1>1. at[t] = "init" /\ at[t] \in Inside /\ UNCHANGED slot
  BY DEF init, Inside
<1>2. PICK k \in 0 .. 5 : owns[t] = Firsts(k)
  BY <1>1 DEF HoldsItsStages
<1>3. Cardinality(owns[t]) + 1 = k + 1
  BY <1>2, StagesCounted
<1>4. CASE Goes(t, "drop") /\ UNCHANGED owns
  <2>1. SlotTypeOK'
    BY <1>1, <1>4 DEF SlotTypeOK, Goes, Place
  <2>2. OneInside'
    BY <1>1, <1>4, StaysInside DEF Place, Inside
  <2>3. HoldsItsStages'
    BY <1>1, <1>4 DEF SlotTypeOK, Goes, HoldsItsStages, Streaming
  <2> QED BY <2>1, <2>2, <2>3
<1>5. CASE /\ owns' = [owns EXCEPT ![t] = @ \union {Stages[k + 1]}]
           /\ Goes(t, IF k + 1 = Len(Stages) THEN "loop" ELSE "init")
  <2>1. owns'[t] = Firsts(k + 1) /\ \A u \in Threads \ {t} : owns'[u] = owns[u]
    BY <1>2, <1>5, NextStage DEF SlotTypeOK
  <2>2. owns' \in [Threads -> SUBSET ToSet(Stages)]
    BY <1>2, <1>5, NextStage DEF SlotTypeOK
  <2>3. CASE k = 5
    <3>1. Goes(t, "loop") /\ owns'[t] = ToSet(Stages)
      BY <1>5, <2>1, <2>3, SixStages
    <3>2. SlotTypeOK'
      BY <1>1, <2>2, <3>1 DEF SlotTypeOK, Goes, Place, Streaming
    <3>3. OneInside'
      BY <1>1, <3>1, StaysInside DEF Place, Inside, Streaming
    <3>4. HoldsItsStages'
      BY <2>1, <3>1 DEF SlotTypeOK, Goes, HoldsItsStages, Streaming
    <3> QED BY <3>2, <3>3, <3>4
  <2>4. CASE k # 5
    <3>1. Goes(t, "init") /\ k + 1 \in 0 .. 5
      BY <1>5, <2>4, SixStages
    <3>2. SlotTypeOK'
      BY <1>1, <2>2, <3>1 DEF SlotTypeOK, Goes, Place
    <3>3. OneInside'
      BY <1>1, <3>1, StaysInside DEF Place, Inside
    <3>4. HoldsItsStages'
      BY <2>1, <3>1 DEF SlotTypeOK, Goes, HoldsItsStages, Streaming
    <3> QED BY <3>2, <3>3, <3>4
  <2> QED BY <2>3, <2>4
<1> QED BY <1>3, <1>4, <1>5 DEF init

\* While it streams a thread stays inside, with all it holds; what fails takes
\* the input buffer away and leads to the drop.
LEMMA StreamingSteps ==
    ASSUME Inductive, NEW t \in Threads, LoopTop(t) \/ next(t) \/ NextFails(t) \/ Sends(t)
    PROVE  Inductive'
<1> USE DEF Inductive
<1>1. at[t] \in Streaming /\ at[t] \in Inside /\ owns[t] = ToSet(Stages) /\ UNCHANGED slot
  BY DEF LoopTop, next, NextFails, Sends, Streaming, Inside, HoldsItsStages
<1>2. ASSUME NEW to \in Streaming, Goes(t, to), UNCHANGED owns PROVE Inductive'
  <2>1. SlotTypeOK'
    BY <1>1, <1>2 DEF SlotTypeOK, Goes, Place
  <2>2. OneInside'
    BY <1>1, <1>2, StaysInside DEF Place, Inside
  <2>3. HoldsItsStages'
    BY <1>1, <1>2 DEF SlotTypeOK, Goes, HoldsItsStages, Streaming
  <2> QED BY <2>1, <2>2, <2>3
<1>3. ASSUME Goes(t, "drop"), owns' \in {owns, [owns EXCEPT ![t] = @ \ {"held"}]}
      PROVE  Inductive'
  <2>1. SlotTypeOK'
    <3>1. owns' \in [Threads -> SUBSET ToSet(Stages)]
      BY <1>1, <1>3 DEF SlotTypeOK
    <3> QED BY <1>1, <1>3, <3>1 DEF SlotTypeOK, Goes, Place
  <2>2. OneInside'
    BY <1>1, <1>3, StaysInside DEF Place, Inside
  <2>3. HoldsItsStages'
    <3>1. \A u \in Threads \ {t} : owns'[u] = owns[u] /\ at'[u] = at[u]
      BY <1>3 DEF SlotTypeOK, Goes
    <3>2. at'[t] = "drop"
      BY <1>3 DEF SlotTypeOK, Goes
    <3> QED BY <3>1, <3>2 DEF HoldsItsStages, Streaming
  <2> QED BY <2>1, <2>2, <2>3
<1>4. CASE LoopTop(t)
  BY <1>2, <1>4 DEF LoopTop, Streaming
<1>5. CASE next(t)
  BY <1>2, <1>5 DEF next, Streaming
<1>6. CASE NextFails(t)
  BY <1>3, <1>6 DEF NextFails, Ends
<1>7. CASE Sends(t)
  BY <1>2, <1>3, <1>7 DEF Sends, Ends, Streaming
<1> QED BY <1>4, <1>5, <1>6, <1>7

\* The drop gives the slot up with the vendor's things, and not before.
LEMMA DropSteps ==
    ASSUME Inductive, NEW t \in Threads, Releases(t) \/ Frees(t) \/ Closes(t)
    PROVE  Inductive'
<1> USE DEF Inductive
<1>1. CASE Releases(t)
  <2>1. at[t] = "drop" /\ UNCHANGED <<slot, at>>
    BY <1>1 DEF Releases
  <2>2. PICK i \in 1 .. Len(Stages) : owns' = [owns EXCEPT ![t] = @ \ {Stages[i]}]
    BY <1>1 DEF Releases
  <2>3. SlotTypeOK'
    BY <2>1, <2>2 DEF SlotTypeOK
  <2>4. OneInside'
    BY <2>1 DEF OneInside
  <2>5. HoldsItsStages'
    BY <2>1, <2>2 DEF SlotTypeOK, HoldsItsStages, Streaming
  <2> QED BY <2>3, <2>4, <2>5
<1>2. CASE Frees(t)
  <2>1. /\ at[t] = "drop" /\ slot' = FALSE /\ Goes(t, "close") /\ UNCHANGED owns
        /\ owns[t] \intersect Vendor = {}
    BY <1>2 DEF Frees
  <2>2. SlotTypeOK'
    BY <2>1 DEF SlotTypeOK, Goes, Place
  <2>3. OneInside'
    BY <2>1 DEF SlotTypeOK, OneInside, Goes, Inside, Streaming
  <2>4. HoldsItsStages'
    BY <2>1 DEF SlotTypeOK, Goes, HoldsItsStages, Streaming
  <2> QED BY <2>2, <2>3, <2>4
<1>3. CASE Closes(t)
  <2>1. /\ at[t] = "close" /\ Goes(t, "idle") /\ UNCHANGED slot
        /\ owns' = [owns EXCEPT ![t] = {}]
    BY <1>3 DEF Closes
  <2>2. SlotTypeOK'
    BY <2>1 DEF SlotTypeOK, Goes, Place
  <2>3. OneInside'
    BY <2>1, StaysOutside DEF Place, Inside, Streaming
  <2>4. HoldsItsStages'
    BY <2>1 DEF SlotTypeOK, Goes, HoldsItsStages, Streaming
  <2> QED BY <2>2, <2>3, <2>4
<1> QED BY <1>1, <1>2, <1>3

LEMMA StepInductive == Inductive /\ [Next]_vars => Inductive'
<1> SUFFICES ASSUME Inductive, [Next]_vars PROVE Inductive'
  OBVIOUS
<1> USE DEF Inductive
<1>1. CASE UNCHANGED <<slot, at, owns>>
  BY <1>1 DEF SlotTypeOK, OneInside, HoldsItsStages
<1>2. CASE Tick
  BY <1>1, <1>2 DEF Tick
<1>3. ASSUME NEW t \in Threads, SessionStarts(t) PROVE Inductive'
  <2>1. at[t] = "idle" /\ Goes(t, "open") /\ UNCHANGED <<slot, owns>>
    BY <1>3 DEF SessionStarts, Goes
  <2>2. SlotTypeOK'
    BY <2>1 DEF SlotTypeOK, Goes, Place
  <2>3. OneInside'
    BY <2>1, StaysOutside DEF Place, Inside, Streaming
  <2>4. HoldsItsStages'
    BY <2>1 DEF SlotTypeOK, Goes, HoldsItsStages, Streaming
  <2> QED BY <2>2, <2>3, <2>4
<1>4. ASSUME NEW t \in Threads,
             \/ SessionStops(t) \/ forward_encoder_control(t)
             \/ \E c \in Controls : forward_control(t, c)
      PROVE  Inductive'
  BY <1>1, <1>4 DEF SessionStops, forward_encoder_control, forward_control, thread
<1>5. ASSUME NEW t \in Threads, run(t) PROVE Inductive'
  BY <1>5, OpenSteps, InitSteps, StreamingSteps, DropSteps DEF run
<1>6. CASE UNCHANGED vars
  BY <1>1, <1>6 DEF vars
<1> QED BY <1>2, <1>3, <1>4, <1>5, <1>6 DEF Next

\* capture.rs:261: the slot is taken exactly while one thread is between
\* claiming it and giving it up, and nobody else holds anything of the
\* vendor's, for any number of sessions' threads.
THEOREM SlotAlwaysItsOwners == Spec => []SlotIsItsOwners
<1>1. Inductive => SlotIsItsOwners
  <2> SUFFICES ASSUME Inductive PROVE SlotIsItsOwners
    OBVIOUS
  <2> USE DEF Inductive
  <2>1. slot <=> \E t \in Threads : at[t] \in Inside
    BY Zenon DEF OneInside
  <2>2. \A t, u \in Threads : at[t] \in Inside /\ at[u] \in Inside => t = u
    BY DEF OneInside
  <2>3. \A t \in Threads : at[t] \notin Inside => owns[t] \intersect Vendor = {}
    BY DEF SlotTypeOK, HoldsItsStages, Place, Inside, Streaming
  <2>4. \A t \in Threads : at[t] \in Streaming => owns[t] = ToSet(Stages)
    BY DEF HoldsItsStages
  <2> QED BY <2>1, <2>2, <2>3, <2>4, Zenon DEF SlotIsItsOwners
<1> QED BY <1>1, InitiallyInductive, StepInductive, PTL DEF Spec

-----------------------------------------------------------------------------
(* The pace *)

\* A capture's locals.
Locals == [first : BOOLEAN, sets : Seq({7, 8}), force : BOOLEAN, deadline : Int,
           wake : Nat, number : Nat, sinceIdr : Nat]

StreamTypeOK ==
    /\ at \in [Threads -> Place]
    /\ cap \in [Threads -> Locals]
    /\ ages \in [Threads -> [1 .. 3 -> 0 .. FrameTicks]]
    /\ frame \in [Threads -> [key : BOOLEAN, led : BOOLEAN]]

\* `after` ticks from now, a sample that is `age` old is at least `ticks` old.
OldIn(age, after, ticks) == age = FrameTicks \/ after + age >= ticks

\* What the deadline is worth.  Before the head of the loop, the next frame is
\* not due before the second last sample was taken, nor less than an interval
\* after the third last; the head of the loop, which lets the deadline fall
\* behind by an interval at most, keeps that for the frame it waits for.
Paces ==
    \A t \in Threads :
        /\ at[t] \in {"loop", "send"} =>
             /\ OldIn(ages[t][2], cap[t].deadline, 0)
             /\ OldIn(ages[t][3], cap[t].deadline, FrameTicks)
        /\ at[t] = "sleep" =>
             /\ OldIn(ages[t][1], cap[t].deadline, 0)
             /\ OldIn(ages[t][2], cap[t].deadline, FrameTicks)
             /\ OldIn(ages[t][3], cap[t].wake, FrameTicks)
        /\ at[t] \notin Streaming => \A i \in 1 .. 3 : ages[t][i] = FrameTicks

StreamInductive == StreamTypeOK /\ Paces /\ KeyframesDecodable

LEMMA InitiallyStreaming == Init => StreamInductive
<1> SUFFICES ASSUME Init PROVE StreamInductive
  OBVIOUS
<1>1. Fresh \in Locals
  <2>1. <<>> \in Seq({7, 8})
    OBVIOUS
  <2> QED BY <2>1, VideoAssumption DEF Fresh, Locals
<1>2. LongAgo \in [1 .. 3 -> 0 .. FrameTicks]
  BY VideoAssumption DEF LongAgo
<1>3. StreamTypeOK
  BY <1>1, <1>2 DEF Init, StreamTypeOK, Place, NoFrame
<1>4. Paces
  BY DEF Init, Paces, Streaming, LongAgo
<1>5. KeyframesDecodable
  BY DEF Init, KeyframesDecodable, NoFrame
<1> QED BY <1>3, <1>4, <1>5 DEF StreamInductive

\* A tick makes the samples older by as much as it brings the deadline nearer.
LEMMA OneTick ==
    ASSUME NEW age \in 0 .. FrameTicks, NEW after \in Int, NEW ticks \in 0 .. FrameTicks,
           NEW low \in Int, OldIn(age, after, ticks)
    PROVE  OldIn(Least(age + 1, FrameTicks), Most(after - 1, low), ticks)
BY VideoAssumption DEF OldIn, Least, Most

\* What the head of the loop makes of the deadline.
LEMMA HeadOfLoop ==
    ASSUME NEW d \in Int, NEW a1 \in 0 .. FrameTicks, NEW a2 \in 0 .. FrameTicks,
           NEW a3 \in 0 .. FrameTicks, OldIn(a2, d, 0), OldIn(a3, d, FrameTicks)
    PROVE  /\ OldIn(a1, NextDeadline(d), 0)
           /\ OldIn(a2, NextDeadline(d), FrameTicks)
           /\ OldIn(a3, Most(d, 0), FrameTicks)
BY VideoAssumption DEF OldIn, NextDeadline, Most

\* A request changes nothing of the pace, nor the pace anything else.
LEMMA LocalsKept ==
    ASSUME NEW c \in Locals
    PROVE  /\ Resets(c) \in Locals /\ Coalesces(c) \in Locals /\ Paced(c) \in Locals
           /\ Resets(c).deadline = c.deadline /\ Coalesces(c).deadline = c.deadline
           /\ Resets(c).sets = c.sets /\ Coalesces(c).sets = c.sets
           /\ Paced(c).sets = c.sets
           /\ Paced(c).wake = Most(c.deadline, 0)
           /\ Paced(c).deadline = NextDeadline(c.deadline)
<1>1. Resets(c) \in Locals /\ Resets(c).deadline = c.deadline /\ Resets(c).sets = c.sets
  BY DEF Resets, Locals
<1>2. Coalesces(c) \in Locals /\ Coalesces(c).deadline = c.deadline
      /\ Coalesces(c).sets = c.sets
  BY DEF Coalesces, Locals
<1>3. Most(c.deadline, 0) \in Nat /\ NextDeadline(c.deadline) \in Int
  BY VideoAssumption DEF Most, NextDeadline, Locals
<1>4. /\ Paced(c) \in Locals /\ Paced(c).sets = c.sets
      /\ Paced(c).wake = Most(c.deadline, 0)
      /\ Paced(c).deadline = NextDeadline(c.deadline)
  BY <1>3 DEF Paced, Locals
<1> QED BY <1>1, <1>2, <1>4

-----------------------------------------------------------------------------
(* The access units *)

LEMMA FirstIsFirst ==
    ASSUME NEW d \in Seq(Nat), NEW types, d # <<>>, d[1] \in types
    PROVE  FirstOf(d, types) = 1
<1> DEFINE hits == {i \in DOMAIN d : d[i] \in types}
<1>1. 1 \in hits /\ hits \subseteq Nat \ {0}
  OBVIOUS
<1>2. FirstOf(d, types) = CHOOSE i \in hits : \A j \in hits : i <= j
  BY <1>1, Zenon DEF FirstOf
<1> HIDE DEF hits
<1>3. \A j \in hits : 1 <= j
  BY <1>1
<1>4. \A i \in hits : (\A j \in hits : i <= j) => i = 1
  BY <1>1
<1> QED BY <1>1, <1>2, <1>3, <1>4

\* The parameter sets are parameter sets.
LEMMA SetsAreSets ==
    ASSUME NEW p \in Records
    PROVE  fetch_sps_pps(p) \in Seq({7, 8})
<1>1. p.nals \in Seq({7, 8}) /\ p.whole \in 0 .. Len(p.nals)
  BY EncoderAssumption
<1>2. SubSeq(p.nals, 1, p.whole) \in Seq({7, 8})
  BY <1>1
<1> QED BY <1>1, <1>2 DEF fetch_sps_pps, avcc_record_to_annexb

\* Whatever set of numbers it is, one of them is the least: what the induction
\* over the buffers goes by.
LEMMA LeastOf ==
    ASSUME NEW I, I \subseteq Nat, I # {}
    PROVE  \E n \in I : \A m \in I : n <= m
<1> DEFINE R == {p \in Nat \X Nat : p[1] < p[2]}
<1>1. IsWellFoundedOn(R, Nat)
  BY NatLessThanWellFounded DEF OpToRel
<1> HIDE DEF R
<1>2. PICK n \in I : \A m \in I : ~(<<m, n>> \in R)
  BY <1>1, WFMin
<1>3. ASSUME NEW m \in I
      PROVE  n <= m
  <2>1. n \in Nat /\ m \in Nat
    OBVIOUS
  <2>2. <<m, n>> \in R <=> m < n
    BY <2>1 DEF R
  <2> QED BY <1>2, <2>1, <2>2
<1> QED BY <1>3

LEMMA BufferDrains ==
    ASSUME NEW out \in Seq(Nat), NEW b \in Buffer
    PROVE  Drained(out, b) \in Seq(Nat)
<1>1. ASSUME NEW s \in Segment, NEW d \in Seq(Nat)
      PROVE  append_avcc_as_annexb(d, s) \in Seq(Nat)
  BY DEF append_avcc_as_annexb, Segment
<1>2. CASE b.split
  <2>1. b.segs[1] \in Segment /\ b.segs[2] \in Segment
    <3>1. b.segs \in [1 .. 2 -> Segment]
      BY <1>2 DEF Buffer
    <3> QED BY <3>1
  <2>2. append_avcc_as_annexb(out, b.segs[1]) \in Seq(Nat)
    BY <1>1, <2>1
  <2>3. append_avcc_as_annexb(append_avcc_as_annexb(out, b.segs[1]), b.segs[2]) \in Seq(Nat)
    BY <1>1, <2>1, <2>2
  <2> QED BY <1>2, <2>3 DEF Drained
<1>3. CASE ~b.split
  <2>1. b.segs[1] \in Segment
    <3>1. b.segs \in [1 .. 1 -> Segment]
      BY <1>3 DEF Buffer
    <3> QED BY <3>1
  <2>2. append_avcc_as_annexb(out, b.segs[1]) \in Seq(Nat) /\ Append(out, 0) \in Seq(Nat)
    BY <1>1, <2>1
  <2> QED BY <1>3, <2>2 DEF Drained
<1> QED BY <1>2, <1>3

\* However many buffers there are, what they drain to is NAL units.
LEMMA BuffersDrain ==
    ASSUME NEW first, NEW sets \in Seq(Nat), NEW buffers \in Seq(Buffer)
    PROVE  Drains(first, sets, buffers) \in Seq(Nat)
<1> DEFINE N == Len(buffers)
           Start == IF first THEN sets ELSE <<>>
           Step(f, n) == IF n = 0 THEN Start ELSE Drained(f[n - 1], buffers[n])
           Ran(f, n) == f = [i \in 0 .. n |-> Step(f, i)]
           out == CHOOSE f : Ran(f, N)
<1>1. Drains(first, sets, buffers) = out[N]
  BY DEF Drains
<1>2. N \in Nat /\ Start \in Seq(Nat) /\ \A n \in 1 .. N : buffers[n] \in Buffer
  OBVIOUS
<1> HIDE DEF N, Start
<1>3. \A n \in 0 .. N : \E f : Ran(f, n)
  <2> DEFINE Bad == {n \in 0 .. N : ~\E f : Ran(f, n)}
  <2>1. SUFFICES ASSUME Bad # {} PROVE FALSE
    BY Zenon
  <2>2. PICK n \in Bad : \A m \in Bad : n <= m
    <3>1. Bad \subseteq Nat
      BY <1>2
    <3> HIDE DEF Bad
    <3> QED BY <2>1, <3>1, LeastOf
  <2>3. n \in 0 .. N /\ n \in Nat /\ ~\E f : Ran(f, n)
    BY <1>2, <2>2
  <2>4. CASE n = 0
    <3> DEFINE f == [i \in 0 .. 0 |-> Start]
    <3>1. \A i \in 0 .. 0 : i = 0
      OBVIOUS
    <3>2. f = [i \in 0 .. 0 |-> Step(f, i)]
      BY <3>1
    <3> QED BY <2>3, <2>4, <3>2
  <2>5. CASE n # 0
    <3>1. n - 1 \in 0 .. N /\ ~(n <= n - 1)
      BY <1>2, <2>3, <2>5
    <3>2. PICK f : Ran(f, n - 1)
      <4>1. n - 1 \notin Bad
        BY <2>2, <3>1
      <4> QED BY <3>1, <4>1
    <3> DEFINE g == [i \in 0 .. n |-> IF i = n THEN Drained(f[n - 1], buffers[n]) ELSE f[i]]
    <3>3. ASSUME NEW i \in 0 .. n PROVE g[i] = Step(g, i)
      <4>1. CASE i = n
        <5>1. g[n] = Drained(f[n - 1], buffers[n]) /\ g[n - 1] = f[n - 1]
          BY <2>3, <2>5
        <5> QED BY <2>5, <4>1, <5>1
      <4>2. CASE i = 0
        <5>1. g[0] = f[0] /\ f[0] = Step(f, 0)
          BY <2>3, <2>5, <3>2
        <5> QED BY <4>2, <5>1
      <4>3. CASE i # n /\ i # 0
        <5>1. i \in 0 .. n - 1 /\ i - 1 \in 0 .. n /\ i - 1 # n
          BY <2>3, <4>3
        <5>2. g[i] = f[i] /\ g[i - 1] = f[i - 1] /\ f[i] = Step(f, i)
          BY <3>2, <4>3, <5>1
        <5> QED BY <4>3, <5>2
      <4> QED BY <4>1, <4>2, <4>3
    <3>4. Ran(g, n)
      BY <3>3
    <3> QED BY <2>3, <3>4
  <2> QED BY <2>4, <2>5
<1>4. Ran(out, N)
  <2>1. \E f : Ran(f, N)
    <3>1. N \in 0 .. N
      BY <1>2
    <3> QED BY <1>3, <3>1, Zenon
  <2> QED BY <2>1, Zenon
<1> HIDE DEF out
<1>5. \A n \in 0 .. N : out[n] \in Seq(Nat)
  <2> DEFINE Bad == {n \in 0 .. N : out[n] \notin Seq(Nat)}
  <2>1. SUFFICES ASSUME Bad # {} PROVE FALSE
    OBVIOUS
  <2>2. PICK n \in Bad : \A m \in Bad : n <= m
    <3>1. Bad \subseteq Nat
      BY <1>2
    <3> HIDE DEF Bad
    <3> QED BY <2>1, <3>1, LeastOf
  <2>3. n \in 0 .. N /\ n \in Nat /\ out[n] \notin Seq(Nat) /\ out[n] = Step(out, n)
    BY <1>2, <1>4, <2>2
  <2>4. CASE n = 0
    BY <1>2, <2>3, <2>4
  <2>5. CASE n # 0
    <3>1. n - 1 \in 0 .. N /\ ~(n <= n - 1) /\ n \in 1 .. N
      BY <1>2, <2>3, <2>5
    <3>2. out[n - 1] \in Seq(Nat)
      BY <2>2, <3>1
    <3>3. out[n] = Drained(out[n - 1], buffers[n])
      BY <2>3, <2>5
    <3> QED BY <1>2, <2>3, <3>1, <3>2, <3>3, BufferDrains
  <2> QED BY <2>4, <2>5
<1> QED BY <1>1, <1>2, <1>5

\* Whatever the encoder's buffers hold: the unit of a keyframe begins with the
\* parameter sets, if there are any.
LEMMA KeyframesAreLed ==
    ASSUME NEW first, NEW sets \in Seq({7, 8}), NEW o \in Seq(Buffer), sets # <<>>,
           first_slice_is_idr(AccessUnit(first, sets, o))
    PROVE  starts_with_parameter_sets(AccessUnit(first, sets, o))
<1> DEFINE out == Drains(first, sets, o)
           unit == AccessUnit(first, sets, o)
<1>1. CASE first_slice_is_idr(out) /\ ~starts_with_parameter_sets(out)
  <2>1. unit = sets \o out
    BY <1>1 DEF AccessUnit
  <2>2. out \in Seq(Nat)
    <3>1. sets \in Seq(Nat)
      OBVIOUS
    <3> QED BY <3>1, BuffersDrain
  <2> HIDE DEF out
  <2>3. sets \in Seq(Nat) /\ sets[1] \in {7, 8} /\ Len(sets) >= 1
    OBVIOUS
  <2>4. sets \o out \in Seq(Nat) /\ sets \o out # <<>> /\ (sets \o out)[1] = sets[1]
    BY <2>2, <2>3
  <2>5. FirstOf(sets \o out, Slice \union {7, 8}) = 1
    BY <2>3, <2>4, FirstIsFirst
  <2> QED BY <2>1, <2>3, <2>4, <2>5 DEF starts_with_parameter_sets
<1>2. CASE ~(first_slice_is_idr(out) /\ ~starts_with_parameter_sets(out))
  <2>1. unit = out
    BY <1>2 DEF AccessUnit
  <2> QED BY <1>2, <2>1
<1> QED BY <1>1, <1>2

-----------------------------------------------------------------------------
LEMMA TickStreams == ASSUME StreamInductive, Tick PROVE StreamInductive'
<1> USE DEF StreamInductive
<1> DEFINE Older(c) == [c EXCEPT !.deadline = Most(@ - 1, -Late), !.wake = Most(@ - 1, 0),
                                 !.sinceIdr = Least(@ + 1, MinIdrTicks)]
<1>1. /\ cap' = [t \in Threads |-> IF at[t] \in Streaming THEN Older(cap[t]) ELSE cap[t]]
      /\ ages' = [t \in Threads |-> [i \in 1 .. 3 |-> Least(ages[t][i] + 1, FrameTicks)]]
      /\ UNCHANGED <<at, frame>>
  BY DEF Tick
<1>2. ASSUME NEW c \in Locals
      PROVE  /\ Older(c) \in Locals /\ Older(c).sets = c.sets
             /\ Older(c).deadline = Most(c.deadline - 1, -Late)
             /\ Older(c).wake = Most(c.wake - 1, 0)
  <2>1. /\ Most(c.deadline - 1, -Late) \in Int /\ Most(c.wake - 1, 0) \in Nat
        /\ Least(c.sinceIdr + 1, MinIdrTicks) \in Nat
    BY VideoAssumption DEF Locals, Most, Least
  <2> QED BY <2>1 DEF Locals
<1> HIDE DEF Older
<1>3. ASSUME NEW a \in 0 .. FrameTicks PROVE Least(a + 1, FrameTicks) \in 0 .. FrameTicks
  BY VideoAssumption DEF Least
<1>4. StreamTypeOK'
  BY <1>1, <1>2, <1>3 DEF StreamTypeOK
<1>5. ASSUME NEW t \in Threads
      PROVE  /\ cap[t].deadline \in Int /\ cap[t].wake \in Int
             /\ \A i \in 1 .. 3 : /\ ages[t][i] \in 0 .. FrameTicks
                                  /\ ages'[t][i] = Least(ages[t][i] + 1, FrameTicks)
  BY <1>1 DEF StreamTypeOK, Locals
<1>6. ASSUME NEW t \in Threads, at[t] \in Streaming
      PROVE  /\ cap'[t].deadline = Most(cap[t].deadline - 1, -Late)
             /\ cap'[t].wake = Most(cap[t].wake - 1, 0)
  BY <1>1, <1>2, <1>6 DEF StreamTypeOK
<1>7. ASSUME NEW t \in Threads, NEW i \in 1 .. 3, at[t] \in Streaming,
             NEW ticks \in 0 .. FrameTicks
      PROVE  /\ OldIn(ages[t][i], cap[t].deadline, ticks) =>
                  OldIn(ages'[t][i], cap'[t].deadline, ticks)
             /\ OldIn(ages[t][i], cap[t].wake, ticks) =>
                  OldIn(ages'[t][i], cap'[t].wake, ticks)
  <2>1. -Late \in Int /\ 0 \in Int
    BY VideoAssumption
  <2>2. /\ ages[t][i] \in 0 .. FrameTicks /\ ages'[t][i] = Least(ages[t][i] + 1, FrameTicks)
        /\ cap[t].deadline \in Int /\ cap[t].wake \in Int
    BY <1>5
  <2>3. OldIn(ages[t][i], cap[t].deadline, ticks) =>
           OldIn(Least(ages[t][i] + 1, FrameTicks), Most(cap[t].deadline - 1, -Late), ticks)
    BY <2>1, <2>2, OneTick
  <2>4. OldIn(ages[t][i], cap[t].wake, ticks) =>
           OldIn(Least(ages[t][i] + 1, FrameTicks), Most(cap[t].wake - 1, 0), ticks)
    BY <2>1, <2>2, OneTick
  <2> QED BY <1>6, <1>7, <2>2, <2>3, <2>4
<1>8. 0 \in 0 .. FrameTicks /\ FrameTicks \in 0 .. FrameTicks
  BY VideoAssumption
<1>9. ASSUME NEW t \in Threads, at[t] \notin Streaming, NEW i \in 1 .. 3
      PROVE  ages'[t][i] = FrameTicks
  BY <1>5, <1>9, VideoAssumption DEF Paces, Least
<1>10. Paces'
  BY <1>1, <1>7, <1>8, <1>9 DEF Paces, Streaming
<1>11. KeyframesDecodable'
  BY <1>1, <1>2 DEF KeyframesDecodable, StreamTypeOK
<1> QED BY <1>4, <1>10, <1>11

\* A step that leaves the time alone and takes a thread no nearer a sample.
LEMMA PaceKept ==
    ASSUME StreamInductive, NEW t \in Threads, NEW to \in Place,
           \/ at[t] \notin Streaming /\ to \notin Streaming
           \/ at[t] \notin Streaming /\ to = "loop"
           \/ at[t] = "send" /\ to = "loop",
           Goes(t, to), UNCHANGED <<cap, ages>>
    PROVE  Paces'
<1>1. at'[t] = to /\ \A u \in Threads \ {t} : at'[u] = at[u]
  BY DEF StreamInductive, StreamTypeOK, Goes
<1> QED BY <1>1 DEF StreamInductive, Paces, OldIn, Streaming

\* The head of the loop.
LEMMA LoopTopStreams ==
    ASSUME StreamInductive, NEW t \in Threads, LoopTop(t) PROVE StreamInductive'
<1> USE DEF StreamInductive
<1>1. at[t] = "loop" /\ Goes(t, "sleep") /\ UNCHANGED <<ages, frame>>
  BY DEF LoopTop
<1>2. cap[t] \in Locals
  BY DEF StreamTypeOK
<1>3. PICK c \in Locals : /\ cap' = [cap EXCEPT ![t] = Paced(c)]
                          /\ c.deadline = cap[t].deadline /\ c.sets = cap[t].sets
  BY <1>2, LocalsKept DEF LoopTop
<1>4. /\ Paced(c) \in Locals /\ Paced(c).sets = cap[t].sets
      /\ Paced(c).wake = Most(cap[t].deadline, 0)
      /\ Paced(c).deadline = NextDeadline(cap[t].deadline)
  BY <1>3, LocalsKept
<1>5. /\ at'[t] = "sleep" /\ cap'[t] = Paced(c)
      /\ \A u \in Threads \ {t} : at'[u] = at[u] /\ cap'[u] = cap[u]
  BY <1>1, <1>3 DEF StreamTypeOK, Goes
<1>6. StreamTypeOK'
  BY <1>1, <1>3, <1>4 DEF StreamTypeOK, Goes, Place, Streaming
<1>7. Paces'
  <2>1. cap[t].deadline \in Int /\ \A i \in 1 .. 3 : ages[t][i] \in 0 .. FrameTicks
    BY <1>2 DEF StreamTypeOK, Locals
  <2>2. OldIn(ages[t][2], cap[t].deadline, 0) /\ OldIn(ages[t][3], cap[t].deadline, FrameTicks)
    BY <1>1 DEF Paces
  <2>3. /\ OldIn(ages[t][1], cap'[t].deadline, 0)
        /\ OldIn(ages[t][2], cap'[t].deadline, FrameTicks)
        /\ OldIn(ages[t][3], cap'[t].wake, FrameTicks)
    BY <1>4, <1>5, <2>1, <2>2, HeadOfLoop
  <2> QED BY <1>1, <1>5, <2>3 DEF Paces, Streaming
<1>8. KeyframesDecodable'
  BY <1>1, <1>4, <1>5 DEF KeyframesDecodable
<1> QED BY <1>6, <1>7, <1>8

\* A frame is sampled: the samples move up, and the unit is led.
LEMMA NextStreams ==
    ASSUME StreamInductive, NEW t \in Threads, next(t) PROVE StreamInductive'
<1> USE DEF StreamInductive
<1>1. at[t] = "sleep" /\ cap[t].wake = 0 /\ Goes(t, "send") /\ Sampled(t)
  BY DEF next
<1>2. PICK p \in Records, o \in Outputs :
         LET c    == cap[t]
             sets == IF c.first THEN fetch_sps_pps(p) ELSE c.sets
             unit == AccessUnit(c.first, sets, o)
             n    == Least(c.number + 1, MaxNumber)
         IN  /\ cap' = [cap EXCEPT ![t] =
                  [c EXCEPT !.first = FALSE, !.sets = sets,
                            !.force = FALSE, !.number = n]]
             /\ frame' = [frame EXCEPT ![t] =
                  [key |-> first_slice_is_idr(unit), led |-> starts_with_parameter_sets(unit)]]
  BY Zenon DEF next
<1> DEFINE sets == IF cap[t].first THEN fetch_sps_pps(p) ELSE cap[t].sets
           unit == AccessUnit(cap[t].first, sets, o)
<1>3. cap[t] \in Locals /\ sets \in Seq({7, 8})
  BY SetsAreSets DEF StreamTypeOK, Locals
<1>4. o \in Seq(Buffer)
  BY EncoderAssumption
<1>5. sets # <<>> /\ first_slice_is_idr(unit) => starts_with_parameter_sets(unit)
  BY <1>3, <1>4, KeyframesAreLed
<1>6. first_slice_is_idr(unit) \in BOOLEAN /\ starts_with_parameter_sets(unit) \in BOOLEAN
  BY DEF first_slice_is_idr, starts_with_parameter_sets
<1>7. PICK n \in Nat : cap' = [cap EXCEPT ![t] = [cap[t] EXCEPT !.first = FALSE, !.sets = sets,
                                                         !.force = FALSE, !.number = n]]
  <2>1. Least(cap[t].number + 1, MaxNumber) \in Nat
    BY <1>3, VideoAssumption DEF Least, Locals
  <2> QED BY <1>2, <2>1
<1>8. frame' = [frame EXCEPT ![t] = [key |-> first_slice_is_idr(unit),
                                     led |-> starts_with_parameter_sets(unit)]]
  BY <1>2
<1> HIDE DEF sets, unit
<1>9. /\ cap'[t] \in Locals /\ cap'[t].sets = sets
      /\ cap'[t].deadline = cap[t].deadline
  BY <1>3, <1>7 DEF StreamTypeOK, Locals
<1>10. \A u \in Threads \ {t} :
          at'[u] = at[u] /\ cap'[u] = cap[u] /\ frame'[u] = frame[u] /\ ages'[u] = ages[u]
  BY <1>1, <1>7, <1>8 DEF StreamTypeOK, Goes, Sampled
<1>11. at'[t] = "send" /\ ages'[t] = <<0, ages[t][1], ages[t][2]>>
  BY <1>1 DEF StreamTypeOK, Goes, Sampled
<1>12. StreamTypeOK'
  <2>1. at' \in [Threads -> Place]
    BY <1>1 DEF StreamTypeOK, Goes, Place, Streaming
  <2>2. cap' \in [Threads -> Locals]
    BY <1>7, <1>9 DEF StreamTypeOK
  <2>3. <<0, ages[t][1], ages[t][2]>> \in [1 .. 3 -> 0 .. FrameTicks]
    <3>1. ages[t][1] \in 0 .. FrameTicks /\ ages[t][2] \in 0 .. FrameTicks
          /\ 0 \in 0 .. FrameTicks
      BY VideoAssumption DEF StreamTypeOK
    <3> QED BY <3>1
  <2>4. ages' \in [Threads -> [1 .. 3 -> 0 .. FrameTicks]]
    BY <1>1, <2>3 DEF StreamTypeOK, Sampled
  <2>5. frame' \in [Threads -> [key : BOOLEAN, led : BOOLEAN]]
    BY <1>6, <1>8 DEF StreamTypeOK
  <2> QED BY <2>1, <2>2, <2>4, <2>5 DEF StreamTypeOK
<1>13. Paces'
  <2>1. OldIn(ages[t][1], cap[t].deadline, 0) /\ OldIn(ages[t][2], cap[t].deadline, FrameTicks)
    BY <1>1 DEF Paces
  <2>2. OldIn(ages'[t][2], cap'[t].deadline, 0) /\ OldIn(ages'[t][3], cap'[t].deadline, FrameTicks)
    BY <1>9, <1>11, <2>1
  <2> QED BY <1>10, <1>11, <2>2 DEF Paces, Streaming
<1>14. KeyframesDecodable'
  <2>1. frame'[t].key /\ cap'[t].sets # <<>> => frame'[t].led
    BY <1>5, <1>8, <1>9 DEF StreamTypeOK
  <2> QED BY <1>10, <2>1 DEF KeyframesDecodable
<1> QED BY <1>12, <1>13, <1>14

\* run returns.
LEMMA EndsStreams ==
    ASSUME StreamInductive, NEW t \in Threads, Ends(t),
           frame' = frame \/ frame' = [frame EXCEPT ![t] = NoFrame]
    PROVE  StreamInductive'
<1> USE DEF StreamInductive
<1>1. Goes(t, "drop") /\ cap' = [cap EXCEPT ![t] = Fresh] /\ ages' = [ages EXCEPT ![t] = LongAgo]
  BY DEF Ends
<1>2. Fresh \in Locals /\ Fresh.sets = <<>>
  <2>1. <<>> \in Seq({7, 8})
    OBVIOUS
  <2> QED BY <2>1, VideoAssumption DEF Fresh, Locals
<1>3. LongAgo \in [1 .. 3 -> 0 .. FrameTicks] /\ \A i \in 1 .. 3 : LongAgo[i] = FrameTicks
  BY VideoAssumption DEF LongAgo
<1>4. /\ at'[t] = "drop" /\ cap'[t] = Fresh /\ ages'[t] = LongAgo
      /\ \A u \in Threads \ {t} : /\ at'[u] = at[u] /\ cap'[u] = cap[u]
                                  /\ ages'[u] = ages[u] /\ frame'[u] = frame[u]
  BY <1>1 DEF StreamTypeOK, Goes
<1>5. NoFrame \in [key : BOOLEAN, led : BOOLEAN]
  BY DEF NoFrame
<1>6. StreamTypeOK'
  BY <1>1, <1>2, <1>3, <1>5 DEF StreamTypeOK, Goes, Place
<1>7. Paces'
  BY <1>3, <1>4 DEF Paces, Streaming
<1>8. KeyframesDecodable'
  BY <1>2, <1>4 DEF KeyframesDecodable
<1> QED BY <1>6, <1>7, <1>8

\* Every other step of a thread leaves the time and the frame alone.
LEMMA RunStreams ==
    ASSUME StreamInductive, NEW t \in Threads, run(t) PROVE StreamInductive'
<1> USE DEF StreamInductive
<1>1. ASSUME NEW to \in Place,
             \/ at[t] \notin Streaming /\ to \notin Streaming
             \/ at[t] \notin Streaming /\ to = "loop",
             Goes(t, to), UNCHANGED <<cap, ages, frame>>
      PROVE  StreamInductive'
  <2>1. StreamTypeOK'
    BY <1>1 DEF StreamTypeOK, Goes
  <2>2. KeyframesDecodable'
    BY <1>1 DEF KeyframesDecodable
  <2> QED BY <1>1, <2>1, <2>2, PaceKept
<1>2. CASE open_scaled_ex(t)
  BY <1>1, <1>2 DEF open_scaled_ex, ClaimFails, Place, Streaming
<1>3. CASE init(t)
  BY <1>1, <1>3 DEF init, Place, Streaming
<1>4. CASE NextFails(t)
  BY <1>4, EndsStreams DEF NextFails
<1>5. CASE Sends(t)
  <2>1. CASE Goes(t, "loop") /\ UNCHANGED <<cap, ages>>
    <3>1. at[t] = "send" /\ frame' = [frame EXCEPT ![t] = NoFrame]
      BY <1>5 DEF Sends
    <3>2. StreamTypeOK'
      BY <2>1, <3>1 DEF StreamTypeOK, Goes, Place, Streaming, NoFrame
    <3>3. KeyframesDecodable'
      BY <2>1, <3>1 DEF StreamTypeOK, KeyframesDecodable, NoFrame
    <3> QED BY <2>1, <3>1, <3>2, <3>3, PaceKept DEF Place, Streaming
  <2> QED BY <1>5, <2>1, EndsStreams DEF Sends
<1>6. CASE Releases(t)
  BY <1>6 DEF Releases, StreamTypeOK, Paces, KeyframesDecodable
<1>7. CASE Frees(t) \/ Closes(t)
  BY <1>1, <1>7 DEF Frees, Closes, Place, Streaming
<1> QED BY <1>2, <1>3, <1>4, <1>5, <1>6, <1>7, LoopTopStreams, NextStreams DEF run

LEMMA StepStreams == StreamInductive /\ [Next]_vars => StreamInductive'
<1> SUFFICES ASSUME StreamInductive, [Next]_vars PROVE StreamInductive'
  OBVIOUS
<1>1. CASE UNCHANGED <<at, cap, ages, frame>>
  BY <1>1 DEF StreamInductive, StreamTypeOK, Paces, KeyframesDecodable
<1>2. ASSUME NEW t \in Threads, SessionStarts(t) PROVE StreamInductive'
  <2>1. Goes(t, "open") /\ at[t] = "idle" /\ UNCHANGED <<cap, ages, frame>>
    BY <1>2 DEF SessionStarts, Goes
  <2>2. StreamTypeOK'
    BY <2>1 DEF StreamInductive, StreamTypeOK, Goes, Place
  <2>3. KeyframesDecodable'
    BY <2>1 DEF StreamInductive, KeyframesDecodable
  <2> QED BY <2>1, <2>2, <2>3, PaceKept DEF StreamInductive, Place, Streaming
<1>3. ASSUME NEW t \in Threads,
             \/ SessionStops(t) \/ forward_encoder_control(t)
             \/ \E c \in Controls : forward_control(t, c)
      PROVE  StreamInductive'
  BY <1>1, <1>3 DEF SessionStops, forward_encoder_control, forward_control, thread
<1>4. CASE UNCHANGED vars
  BY <1>1, <1>4 DEF vars
<1> QED BY <1>2, <1>3, <1>4, TickStreams, RunStreams DEF Next

LEMMA AlwaysStreaming == Spec => []StreamInductive
BY InitiallyStreaming, StepStreams, PTL DEF Spec

\* capture.rs:579: for any frame rate, and however often and however long a
\* thread is held up, four frames in a row span a frame interval: what it missed
\* is not replayed.
THEOREM NeverABurst == Spec => NoBurst
<1>1. ASSUME StreamInductive, [Next]_vars
      PROVE  [\A t \in Threads :
                at[t] = "sleep" /\ at'[t] = "send" => ages[t][3] >= FrameTicks]_vars
  <2> SUFFICES ASSUME NEW t \in Threads, at[t] = "sleep", at'[t] = "send"
               PROVE  ages[t][3] >= FrameTicks
    OBVIOUS
  <2> USE <1>1 DEF StreamInductive
  <2>1. cap[t].wake = 0
    <3>1. ASSUME NEW u \in Threads, NEW to \in Place \ {"send"}, Goes(u, to) PROVE FALSE
      BY <3>1 DEF StreamTypeOK, Goes
    <3>2. ASSUME UNCHANGED at PROVE FALSE
      BY <3>2
    <3>3. ASSUME NEW u \in Threads, SessionStarts(u) PROVE FALSE
      BY <3>1, <3>3 DEF SessionStarts, Goes, Place
    <3>4. ASSUME NEW u \in Threads, run(u) PROVE next(u)
      BY <3>1, <3>2, <3>4 DEF run, open_scaled_ex, ClaimFails, init, LoopTop, NextFails,
         Ends, Sends, Releases, Frees, Closes, Place, Streaming
    <3>5. PICK u \in Threads : next(u)
      BY <1>1, <3>2, <3>3, <3>4 DEF Next, vars, Tick, SessionStops, forward_encoder_control,
         forward_control, thread
    <3>6. u = t
      BY <3>5 DEF next, Goes, StreamTypeOK
    <3> QED BY <3>5, <3>6 DEF next
  <2>2. OldIn(ages[t][3], 0, FrameTicks) /\ ages[t][3] \in 0 .. FrameTicks
    BY <2>1 DEF Paces, StreamTypeOK
  <2> QED BY <2>2, VideoAssumption DEF OldIn
<1> QED BY <1>1, AlwaysStreaming, PTL DEF Spec, NoBurst

\* capture.rs:751-765: whatever the encoder's buffers hold and wherever the ring
\* cuts them, a keyframe is sent with the parameter sets ahead of it.
THEOREM KeyframesAlwaysDecodable == Spec => []KeyframesDecodable
<1>1. StreamInductive => KeyframesDecodable
  BY DEF StreamInductive
<1> QED BY <1>1, AlwaysStreaming, PTL

-----------------------------------------------------------------------------
(* Resets *)

\* A reset on its way: in the channel, in the flag, or in the numbers of the
\* frame that is waited for.
ResetOwed(t) ==
    \/ \E i \in 1 .. Len(control[t]) : control[t][i] = "Reset"
    \/ reset[t]
    \/ at[t] = "sleep" /\ cap[t].number = 0

\* It is over with a frame that has the number 1 and that the encoder was
\* asked to make a keyframe, or with the stream.
ResetAnswered(t) ==
    ResetOwed(t) /\ ~ResetOwed(t)' =>
        \/ at'[t] = "send" /\ cap'[t].number = 1 /\ (cap[t].first \/ cap[t].force)
        \/ at'[t] \notin Streaming

RequestsOK ==
    /\ control \in [Threads -> Seq(Controls)] /\ reset \in [Threads -> BOOLEAN]
    /\ \A t \in Threads : cap[t].number = 0 => cap[t].first \/ cap[t].force

\* Who does nothing of it owes what it owed.
LEMMA StillOwed ==
    ASSUME NEW t \in Threads, control'[t] = control[t], reset'[t] = reset[t], at'[t] = at[t],
           cap'[t].number = cap[t].number
    PROVE  ResetAnswered(t)
BY DEF ResetAnswered, ResetOwed

LEMMA TickAnswers ==
    ASSUME StreamTypeOK, RequestsOK, Tick
    PROVE  RequestsOK' /\ \A t \in Threads : ResetAnswered(t)
<1> DEFINE Older(c) == [c EXCEPT !.deadline = Most(@ - 1, -Late), !.wake = Most(@ - 1, 0),
                                 !.sinceIdr = Least(@ + 1, MinIdrTicks)]
<1>1. /\ cap' = [t \in Threads |-> IF at[t] \in Streaming THEN Older(cap[t]) ELSE cap[t]]
      /\ UNCHANGED <<at, control, reset>>
  BY DEF Tick
<1>2. ASSUME NEW t \in Threads
      PROVE  /\ cap'[t].number = cap[t].number /\ cap'[t].first = cap[t].first
             /\ cap'[t].force = cap[t].force
  <2>1. cap[t] \in Locals
    BY DEF StreamTypeOK
  <2> QED BY <1>1, <2>1 DEF Locals
<1> QED BY <1>1, <1>2, StillOwed DEF RequestsOK

\* What a client asks for goes into the channel behind the rest, if at all.
LEMMA RequestAnswers ==
    ASSUME RequestsOK, NEW u \in Threads, NEW c \in Controls, forward_control(u, c)
    PROVE  RequestsOK' /\ \A t \in Threads : ResetAnswered(t)
<1>1. UNCHANGED <<at, cap, reset>>
  BY DEF forward_control, thread
<1>2. /\ control' \in [Threads -> Seq(Controls)]
      /\ \A t \in Threads \ {u} : control'[t] = control[t]
      /\ control'[u] \in {control[u], Append(control[u], c)}
  <2>1. control \in [Threads -> Seq(Controls)] /\ Append(control[u], c) \in Seq(Controls)
    BY DEF RequestsOK
  <2>2. control' = control \/ control' = [control EXCEPT ![u] = Append(control[u], c)]
    BY DEF forward_control
  <2> QED BY <2>1, <2>2
<1>3. ASSUME ResetOwed(u) PROVE ResetOwed(u)'
  <2>1. control[u] \in Seq(Controls)
    BY DEF RequestsOK
  <2>2. /\ Len(control'[u]) >= Len(control[u])
        /\ \A i \in 1 .. Len(control[u]) : control'[u][i] = control[u][i]
    BY <1>2, <2>1
  <2>3. \A i \in 1 .. Len(control[u]) : i \in 1 .. Len(control'[u])
    BY <1>2, <2>1, <2>2
  <2> QED BY <1>1, <1>3, <2>2, <2>3 DEF ResetOwed
<1>4. ASSUME NEW t \in Threads PROVE ResetAnswered(t)
  BY <1>1, <1>2, <1>3, StillOwed DEF ResetAnswered
<1> QED BY <1>1, <1>2, <1>4 DEF RequestsOK

\* The forwarding task takes the oldest request from the channel to its flag.
LEMMA ForwardAnswers ==
    ASSUME RequestsOK, NEW u \in Threads, forward_encoder_control(u)
    PROVE  RequestsOK' /\ \A t \in Threads : ResetAnswered(t)
<1>1. UNCHANGED <<at, cap>> /\ control[u] # <<>> /\ control[u] \in Seq(Controls)
  BY DEF forward_encoder_control, thread, RequestsOK
<1>2. /\ control' = [control EXCEPT ![u] = Tail(@)]
      /\ reset' \in [Threads -> BOOLEAN]
      /\ \A t \in Threads \ {u} : reset'[t] = reset[t]
      /\ reset[u] \/ control[u][1] = "Reset" => reset'[u]
  <2>1. reset \in [Threads -> BOOLEAN] /\ Head(control[u]) = control[u][1]
    BY <1>1 DEF RequestsOK
  <2>2. /\ control' = [control EXCEPT ![u] = Tail(@)]
        /\ \/ reset' = [reset EXCEPT ![u] = TRUE]
           \/ reset' = reset /\ Head(control[u]) # "Reset"
    BY Zenon DEF forward_encoder_control
  <2> QED BY <2>1, <2>2
<1>3. control' \in [Threads -> Seq(Controls)]
  BY <1>1, <1>2 DEF RequestsOK
<1>4. ASSUME ResetOwed(u) PROVE ResetOwed(u)'
  <2>1. CASE reset[u] \/ (at[u] = "sleep" /\ cap[u].number = 0)
    BY <1>1, <1>2, <2>1 DEF ResetOwed
  <2>2. ASSUME NEW i \in 1 .. Len(control[u]), control[u][i] = "Reset"
        PROVE  ResetOwed(u)'
    <3>1. CASE i = 1
      BY <1>2, <2>2, <3>1 DEF ResetOwed
    <3>2. CASE i # 1
      <4>1. control'[u] = Tail(control[u])
        BY <1>2 DEF RequestsOK
      <4>2. i - 1 \in 1 .. Len(Tail(control[u])) /\ Tail(control[u])[i - 1] = control[u][i]
        BY <1>1, <3>2
      <4> QED BY <2>2, <4>1, <4>2 DEF ResetOwed
    <3> QED BY <3>1, <3>2
  <2> QED BY <1>4, <2>1, <2>2 DEF ResetOwed
<1>5. ASSUME NEW t \in Threads PROVE ResetAnswered(t)
  <2>1. CASE t = u
    BY <1>4, <2>1 DEF ResetAnswered
  <2>2. CASE t # u
    <3>1. control'[t] = control[t]
      BY <1>2, <2>2 DEF RequestsOK
    <3> QED BY <1>1, <1>2, <2>2, <3>1, StillOwed
  <2> QED BY <2>1, <2>2
<1> QED BY <1>1, <1>2, <1>3, <1>5 DEF RequestsOK

\* The head of the loop: the flag becomes the number 0 and a forced keyframe.
LEMMA LoopTopAnswers ==
    ASSUME StreamTypeOK, RequestsOK, NEW u \in Threads, LoopTop(u)
    PROVE  RequestsOK' /\ \A t \in Threads : ResetAnswered(t)
<1>1. /\ at[u] = "loop" /\ at' = [at EXCEPT ![u] = "sleep"] /\ control' = control
      /\ cap[u] \in Locals
  BY DEF LoopTop, Goes, StreamTypeOK
<1>2. ASSUME NEW c \in Locals
      PROVE  /\ Resets(c) \in Locals /\ Coalesces(c) \in Locals
             /\ Resets(c).number = 0 /\ Resets(c).force
             /\ Coalesces(c).number = c.number /\ Coalesces(c).first = c.first
             /\ c.force => Coalesces(c).force
             /\ Paced(c).number = c.number /\ Paced(c).first = c.first /\ Paced(c).force = c.force
  <2>1. Resets(c) \in Locals /\ Coalesces(c) \in Locals
    BY LocalsKept
  <2>2. Resets(c).number = 0 /\ Resets(c).force
    BY DEF Resets, Locals
  <2>3. /\ Coalesces(c).number = c.number /\ Coalesces(c).first = c.first
        /\ c.force => Coalesces(c).force
    BY DEF Coalesces, Locals
  <2>4. Paced(c).number = c.number /\ Paced(c).first = c.first /\ Paced(c).force = c.force
    BY DEF Paced, Locals
  <2> QED BY <2>1, <2>2, <2>3, <2>4
<1>3. /\ reset' \in [Threads -> BOOLEAN] /\ \A t \in Threads \ {u} : reset'[t] = reset[t]
      /\ \A t \in Threads \ {u} : cap'[t] = cap[t]
      /\ reset[u] => cap'[u].number = 0
      /\ ~reset[u] => cap'[u].number = cap[u].number /\ ~reset'[u]
      /\ cap'[u].number = 0 => cap'[u].first \/ cap'[u].force
  <2>1. CASE reset[u]
    <3>1. /\ cap' = [cap EXCEPT ![u] = Paced(Resets(@))]
          /\ reset' = [reset EXCEPT ![u] = FALSE]
      BY <2>1 DEF LoopTop
    <3>2. cap'[u] = Paced(Resets(cap[u]))
      BY <3>1 DEF StreamTypeOK
    <3>3. cap'[u].number = 0 /\ cap'[u].force
      BY <1>1, <1>2, <3>2
    <3> QED BY <2>1, <3>1, <3>3 DEF RequestsOK, StreamTypeOK
  <2>2. CASE ~reset[u]
    <3>1. /\ reset' = reset
          /\ cap' = [cap EXCEPT ![u] = Paced(Coalesces(@))] \/ cap' = [cap EXCEPT ![u] = Paced(@)]
      BY <2>2 DEF LoopTop
    <3>2. cap'[u] = Paced(Coalesces(cap[u])) \/ cap'[u] = Paced(cap[u])
      BY <3>1 DEF StreamTypeOK
    <3>3. /\ cap'[u].number = cap[u].number /\ cap'[u].first = cap[u].first
          /\ cap[u].force => cap'[u].force
      BY <1>1, <1>2, <3>2
    <3> QED BY <2>2, <3>1, <3>3 DEF RequestsOK, StreamTypeOK
  <2> QED BY <2>1, <2>2
<1>4. ASSUME NEW t \in Threads PROVE ResetAnswered(t)
  <2>1. CASE t = u
    <3>1. at'[u] = "sleep"
      BY <1>1 DEF StreamTypeOK
    <3> QED BY <1>1, <1>3, <2>1, <3>1 DEF ResetAnswered, ResetOwed
  <2>2. CASE t # u
    BY <1>1, <1>3, <2>2, StillOwed DEF StreamTypeOK
  <2> QED BY <2>1, <2>2
<1> QED BY <1>1, <1>3, <1>4 DEF RequestsOK

\* The frame that is numbered 1.
LEMMA NextAnswers ==
    ASSUME StreamTypeOK, RequestsOK, NEW u \in Threads, next(u)
    PROVE  RequestsOK' /\ \A t \in Threads : ResetAnswered(t)
<1>1. /\ at[u] = "sleep" /\ at' = [at EXCEPT ![u] = "send"] /\ UNCHANGED <<control, reset>>
      /\ cap[u] \in Locals
  BY DEF next, Goes, StreamTypeOK
<1>2. PICK sets : cap' = [cap EXCEPT ![u] = [cap[u] EXCEPT !.first = FALSE, !.sets = sets,
                               !.force = FALSE, !.number = Least(cap[u].number + 1, MaxNumber)]]
  BY DEF next
<1>3. cap'[u].number = Least(cap[u].number + 1, MaxNumber)
  BY <1>1, <1>2 DEF StreamTypeOK, Locals
<1>4. cap'[u].number # 0 /\ (cap[u].number = 0 => cap'[u].number = 1)
  BY <1>1, <1>3, VideoAssumption DEF Least, Locals
<1>5. ASSUME NEW t \in Threads PROVE ResetAnswered(t)
  <2>1. CASE t = u
    <3>1. at'[u] = "send"
      BY <1>1 DEF StreamTypeOK
    <3> QED BY <1>1, <1>4, <2>1, <3>1 DEF ResetAnswered, ResetOwed, RequestsOK
  <2>2. CASE t # u
    BY <1>1, <1>2, <2>2, StillOwed DEF StreamTypeOK
  <2> QED BY <2>1, <2>2
<1>6. \A t \in Threads : cap'[t].number = 0 => cap'[t].first \/ cap'[t].force
  BY <1>2, <1>4 DEF StreamTypeOK, RequestsOK
<1> QED BY <1>1, <1>5, <1>6 DEF RequestsOK

\* With run the requests end that nobody reads any more.
LEMMA EndAnswers ==
    ASSUME StreamTypeOK, RequestsOK, NEW u \in Threads, Ends(u)
    PROVE  RequestsOK' /\ \A t \in Threads : ResetAnswered(t)
<1>1. /\ at' = [at EXCEPT ![u] = "drop"] /\ cap' = [cap EXCEPT ![u] = Fresh]
      /\ control' = [control EXCEPT ![u] = <<>>] /\ reset' = [reset EXCEPT ![u] = FALSE]
  BY DEF Ends, Goes
<1>2. control' \in [Threads -> Seq(Controls)] /\ reset' \in [Threads -> BOOLEAN]
  BY <1>1 DEF RequestsOK
<1>3. \A t \in Threads : cap'[t].number = 0 => cap'[t].first \/ cap'[t].force
  BY <1>1 DEF RequestsOK, StreamTypeOK, Fresh
<1>4. ASSUME NEW t \in Threads PROVE ResetAnswered(t)
  <2>1. CASE t = u
    <3>1. at'[u] = "drop"
      BY <1>1 DEF StreamTypeOK
    <3> QED BY <2>1, <3>1 DEF ResetAnswered, Streaming
  <2>2. CASE t # u
    BY <1>1, <2>2, StillOwed DEF StreamTypeOK, RequestsOK
  <2> QED BY <2>1, <2>2
<1> QED BY <1>2, <1>3, <1>4 DEF RequestsOK

\* What opens and closes a capture has nothing to do with requests.
LEMMA OthersAnswer ==
    ASSUME StreamTypeOK, RequestsOK, UNCHANGED <<cap, control, reset>>, NEW u \in Threads,
           at[u] # "sleep",
           \A t \in Threads \ {u} : at'[t] = at[t]
    PROVE  RequestsOK' /\ \A t \in Threads : ResetAnswered(t)
<1>1. ResetAnswered(u)
  BY DEF ResetAnswered, ResetOwed
<1>2. \A t \in Threads \ {u} : ResetAnswered(t)
  BY StillOwed
<1> QED BY <1>1, <1>2 DEF RequestsOK

LEMMA StepAnswers ==
    ASSUME StreamTypeOK, RequestsOK, [Next]_vars
    PROVE  RequestsOK' /\ \A t \in Threads : ResetAnswered(t)
<1> DEFINE Goal == RequestsOK' /\ \A t \in Threads : ResetAnswered(t)
<1>1. CASE UNCHANGED <<at, cap, control, reset>>
  BY <1>1, StillOwed DEF RequestsOK
<1>2. ASSUME NEW u \in Threads, run(u) PROVE Goal
  <2>1. CASE \/ open_scaled_ex(u) \/ init(u) \/ Frees(u) \/ Closes(u)
    BY <2>1, OthersAnswer
    DEF open_scaled_ex, ClaimFails, init, Frees, Closes, Goes, StreamTypeOK
  <2>2. CASE Releases(u)
    BY <1>1, <2>2 DEF Releases
  <2>3. CASE Sends(u)
    BY <2>3, OthersAnswer, EndAnswers DEF Sends, Goes, StreamTypeOK
  <2>4. CASE NextFails(u)
    BY <2>4, EndAnswers DEF NextFails
  <2> QED BY <1>2, <2>1, <2>2, <2>3, <2>4, LoopTopAnswers, NextAnswers DEF run
<1>3. ASSUME NEW u \in Threads, SessionStarts(u) PROVE Goal
  BY <1>3, OthersAnswer DEF SessionStarts, StreamTypeOK
<1>4. ASSUME NEW u \in Threads, SessionStops(u) PROVE Goal
  BY <1>1, <1>4 DEF SessionStops, thread
<1>5. CASE UNCHANGED vars
  BY <1>1, <1>5 DEF vars
<1> QED BY <1>2, <1>3, <1>4, <1>5, TickAnswers, RequestAnswers, ForwardAnswers DEF Next

\* main.rs, forward_encoder_control and video.rs:195: a reset that got into the
\* channel is never lost nor overtaken: it is in the channel, the flag or the
\* loop until a frame numbered 1 is taken, a first or a forced one, unless
\* the stream ends.  It is the safety that RecoveryHeard rests on.
THEOREM ResetsNeverLost == Spec => [][\A t \in Threads : ResetAnswered(t)]_vars
<1>1. Init => RequestsOK
  BY DEF Init, RequestsOK, Fresh
<1>2. StreamInductive /\ RequestsOK /\ [Next]_vars
        => RequestsOK' /\ [\A t \in Threads : ResetAnswered(t)]_vars
  BY StepAnswers DEF StreamInductive
<1> QED BY <1>1, <1>2, AlwaysStreaming, PTL DEF Spec

-----------------------------------------------------------------------------
(* The geometry of a capture *)

\* geometry.rs:33: whatever the target, the surface has room for the whole
\* panel at the place it is centred at.
THEOREM PanelFits ==
    ASSUME NEW w \in Nat \ {0}, NEW h \in Nat \ {0}, NEW dw \in Nat, NEW dh \in Nat
    PROVE  LET p == for_target(w, h, dw, dh)
           IN /\ p.pad_w \in Nat /\ p.pad_h \in Nat /\ p.pad_x \in Nat /\ p.pad_y \in Nat
              /\ p.pad_x + w <= p.pad_w /\ p.pad_y + h <= p.pad_h
<1>1. ASSUME NEW want \in Nat, NEW src \in Nat
      PROVE  Nearest16(want, src) \in Nat /\ Nearest16(want, src) >= src
  BY DEF Nearest16, align16
<1>2. ASSUME NEW pw \in Nat, NEW ph \in Nat, pw >= w, ph >= h
      PROVE  LET p == centred(w, h, pw, ph)
             IN /\ p.pad_w \in Nat /\ p.pad_h \in Nat /\ p.pad_x \in Nat /\ p.pad_y \in Nat
                /\ p.pad_x + w <= p.pad_w /\ p.pad_y + h <= p.pad_h
  BY <1>2 DEF centred
<1>3. CASE dw = 0 \/ dh = 0 \/ dw * h = dh * w
  BY <1>3 DEF for_target, unpadded
<1>4. ASSUME NEW a \in Nat, NEW b \in Nat, NEW c \in Nat \ {0} PROVE (a * b) \div c \in Nat
  <2>1. a * b \in Nat
    OBVIOUS
  <2>2. ASSUME NEW n \in Nat PROVE n \div c \in Nat
    OBVIOUS
  <2> QED BY <2>1, <2>2
<1>5. CASE dw # 0 /\ dh # 0 /\ dw * h # dh * w /\ dw * h > dh * w
  <2> DEFINE n == Nearest16((h * dw) \div dh, w)
  <2>1. n \in Nat /\ n >= w
    <3>1. (h * dw) \div dh \in Nat
      BY <1>4, <1>5
    <3> QED BY <3>1, <1>1
  <2>2. for_target(w, h, dw, dh) = centred(w, h, n, h)
    BY <1>5, Zenon DEF for_target
  <2> HIDE DEF n
  <2> QED BY <2>1, <2>2, <1>2
<1>6. CASE dw # 0 /\ dh # 0 /\ dw * h # dh * w /\ ~(dw * h > dh * w)
  <2> DEFINE n == Nearest16((w * dh) \div dw, h)
  <2>1. n \in Nat /\ n >= h
    <3>1. (w * dh) \div dw \in Nat
      BY <1>4, <1>6
    <3> QED BY <3>1, <1>1
  <2>2. for_target(w, h, dw, dh) = centred(w, h, w, n)
    BY <1>6, Zenon DEF for_target
  <2> HIDE DEF n
  <2> QED BY <2>1, <2>2, <1>2
<1> QED BY <1>3, <1>5, <1>6

\* capture.rs:796, 802: each row of the panel is copied inside the input buffer.
THEOREM RowsStayInside ==
    ASSUME NEW w \in Nat \ {0}, NEW h \in Nat \ {0}, NEW dw \in Nat, NEW dh \in Nat,
           NEW y \in 0 .. h - 1
    PROVE  LET p == for_target(w, h, dw, dh)
           IN 0 <= RowAt(p, y) /\ RowAt(p, y) + RowBytes(w) <= InputBytes(p, TRUE)
<1> DEFINE p == for_target(w, h, dw, dh)
<1>1. /\ p.pad_w \in Nat /\ p.pad_h \in Nat /\ p.pad_x \in Nat /\ p.pad_y \in Nat
      /\ p.pad_x + w <= p.pad_w /\ p.pad_y + h <= p.pad_h
  BY PanelFits
<1> HIDE DEF p
<1>2. ASSUME NEW pw \in Nat, NEW ph \in Nat, NEW x \in Nat, NEW r \in Nat,
             x + w <= pw, r + 1 <= ph
      PROVE  0 <= r * (pw * 4) + x * 4 /\ r * (pw * 4) + x * 4 + w * 4 <= pw * ph * 4
  <2>1. r * (pw * 4) + x * 4 + w * 4 <= r * (pw * 4) + pw * 4
    <3>1. r * (pw * 4) \in Nat
      OBVIOUS
    <3> QED BY <3>1, <1>2
  <2>2. r * (pw * 4) + pw * 4 = (r + 1) * (pw * 4)
    OBVIOUS
  <2>3. (r + 1) * (pw * 4) <= ph * (pw * 4)
    BY <1>2
  <2>4. ph * (pw * 4) = pw * ph * 4
    OBVIOUS
  <2>5. 0 <= r * (pw * 4) + x * 4
    OBVIOUS
  <2> QED BY <2>1, <2>2, <2>3, <2>4, <2>5
<1>3. p.pad_y + y \in Nat /\ p.pad_y + y + 1 <= p.pad_h
  BY <1>1
<1>4. /\ 0 <= (p.pad_y + y) * (p.pad_w * 4) + p.pad_x * 4
      /\ (p.pad_y + y) * (p.pad_w * 4) + p.pad_x * 4 + w * 4 <= p.pad_w * p.pad_h * 4
  BY <1>1, <1>3, <1>2
<1> QED BY <1>4 DEF p, RowAt, RowBytes, InputBytes

\* capture.rs:812: without bars the one copy fits if the pitch was accepted.
THEOREM WholeStaysInside ==
    ASSUME NEW w \in Nat \ {0}, NEW h \in Nat \ {0}, NEW pitch \in Nat,
           validate_rgb_pitch(TRUE, FALSE, pitch, w)
    PROVE  WholeBytes(pitch, h) <= InputBytes(unpadded(w, h), TRUE)
<1>1. pitch = w * 4
  BY DEF validate_rgb_pitch
<1>2. (w * 4) * h = w * h * 4
  OBVIOUS
<1> QED BY <1>1, <1>2 DEF WholeBytes, InputBytes, unpadded

Byte == 0 .. 255

\* convert.rs:22: what is converted is in BT.601's limited range; nothing is
\* ever clamped.
THEOREM LimitedRange ==
    ASSUME NEW r \in Byte, NEW g \in Byte, NEW b \in Byte
    PROVE  /\ rgb_y(r, g, b) \in 16 .. 235
           /\ rgb_u(r, g, b) \in 16 .. 240
           /\ rgb_v(r, g, b) \in 16 .. 240
<1>1. rgb_y(r, g, b) \in 16 .. 235
  BY DEF rgb_y, clamp8, Byte
<1>2. rgb_u(r, g, b) \in 16 .. 240
  BY DEF rgb_u, clamp8, Byte
<1>3. rgb_v(r, g, b) \in 16 .. 240
  BY DEF rgb_v, clamp8, Byte
<1> QED BY <1>1, <1>2, <1>3

\* What a division gives, in terms of multiplication.
LEMMA Quotient ==
    ASSUME NEW y \in Nat, NEW f \in Nat \ {0}
    PROVE  y \div f \in Nat /\ (y \div f) * f <= y /\ y < ((y \div f) + 1) * f
<1> DEFINE q == y \div f
<1> DEFINE r == y % f
<1>1. q \in Nat
  OBVIOUS
<1>2. y = f * q + r /\ r \in 0 .. f - 1
  OBVIOUS
<1> HIDE DEF q, r
<1>3. ASSUME NEW k \in Nat, NEW m \in Int, m >= 0, m < f, y = f * k + m
      PROVE  k * f <= y /\ y < (k + 1) * f
  BY <1>3
<1> QED BY <1>1, <1>2, <1>3 DEF q, r

\* convert.rs:87-97: a 565 pixel has bytes for channels, and so has a block.
THEOREM ChannelsAreBytes ==
    ASSUME NEW p \in Nat, NEW a \in Byte, NEW b \in Byte, NEW c \in Byte, NEW d \in Byte
    PROVE  /\ r565(p) \in Byte /\ g565(p) \in Byte /\ b565(p) \in Byte
           /\ mean4(a, b, c, d) \in Byte
<1>1. r565(p) \in Byte /\ g565(p) \in Byte /\ b565(p) \in Byte
  <2>1. p \div 2048 \in Nat /\ p \div 32 \in Nat
    OBVIOUS
  <2>2. ASSUME NEW k \in Nat PROVE k % 32 \in 0 .. 31 /\ k % 64 \in 0 .. 63
    OBVIOUS
  <2>3. (p \div 2048) % 32 \in 0 .. 31 /\ (p \div 32) % 64 \in 0 .. 63 /\ p % 32 \in 0 .. 31
    BY <2>1, <2>2
  <2> QED BY <2>3 DEF r565, g565, b565, Byte
<1>2. mean4(a, b, c, d) \in Byte
  <2> DEFINE n == a + b + c + d
  <2>1. n \in Nat /\ n <= 1020
    BY DEF Byte
  <2> DEFINE k == n \div 4
  <2>2. k \in Nat /\ k * 4 <= n
    <3> HIDE DEF n
    <3> QED BY <2>1, Quotient
  <2>3. mean4(a, b, c, d) = k
    BY DEF mean4
  <2> HIDE DEF n, k
  <2>4. k \in Nat /\ k <= 255
    BY <2>1, <2>2
  <2> QED BY <2>3, <2>4 DEF Byte
<1> QED BY <1>1, <1>2

\* One more period of the clock is at least one tick more, and not many.
LEMMA Advance ==
    ASSUME NEW f \in Nat \ {0}, f <= RTP_CLOCK_HZ, NEW x \in Nat
    PROVE  LET a == x \div f
               b == (x + RTP_CLOCK_HZ) \div f
           IN  a \in Nat /\ b \in Nat /\ a < b /\ b <= a + 90001
<1>1. ASSUME NEW a \in Nat, NEW b \in Nat,
             a * f <= x, x < (a + 1) * f, b * f <= x + 90000, x + 90000 < (b + 1) * f
      PROVE  a < b /\ b <= a + 90001
  <2>1. ~(b <= a)
    <3>1. b <= a => (b + 1) * f <= (a + 1) * f
      OBVIOUS
    <3> QED BY <1>1, <3>1 DEF RTP_CLOCK_HZ
  <2>2. ~(b > a + 90001)
    <3>1. b > a + 90001 => b * f >= (a + 90002) * f
      OBVIOUS
    <3>2. (a + 90002) * f >= (a + 1) * f + 90001
      OBVIOUS
    <3> QED BY <1>1, <3>1, <3>2
  <2> QED BY <2>1, <2>2
<1>2. x + 90000 \in Nat
  OBVIOUS
<1> QED BY <1>1, <1>2, Quotient DEF RTP_CLOCK_HZ

\* video.rs:23: up to as many frames a second as the clock has ticks, a frame
\* never has the stamp of the one before it, even where the 32 bits wrap.
THEOREM StampsDiffer ==
    ASSUME NEW n \in Nat, NEW fps \in Nat \ {0}, fps <= RTP_CLOCK_HZ
    PROVE  rtp_timestamp_for(n + 1, fps) # rtp_timestamp_for(n, fps)
<1> DEFINE x == n * RTP_CLOCK_HZ
<1> DEFINE a == x \div fps
<1> DEFINE b == (x + RTP_CLOCK_HZ) \div fps
<1>1. x \in Nat /\ (n + 1) * RTP_CLOCK_HZ = x + RTP_CLOCK_HZ
  BY DEF RTP_CLOCK_HZ
<1>2. a \in Nat /\ b \in Nat /\ a < b /\ b <= a + 90001
  BY <1>1, Advance
<1> HIDE DEF x
<1>3. rtp_timestamp_for(n + 1, fps) = b % 2^32 /\ rtp_timestamp_for(n, fps) = a % 2^32
  BY <1>1 DEF rtp_timestamp_for, x
<1>4. 2^32 = 4294967296
  OBVIOUS
<1> HIDE DEF a, b
<1>5. ASSUME NEW m, m = 4294967296 PROVE a % m # b % m
  BY <1>2, <1>5
<1> QED BY <1>3, <1>4, <1>5
=============================================================================
