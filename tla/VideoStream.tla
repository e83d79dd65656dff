---------------------------- MODULE VideoStream -----------------------------
(***************************************************************************)
(* The video threads of the daemon: run_video of main.rs, the loop of      *)
(* video.rs and the Cedar capture it drives.  Each session has a thread of *)
(* its own, and the thread of a session that is over may still be tearing  *)
(* down its capture when the next one opens; CAPTURE_OPEN lets one in.     *)
(* Recovery requests reach the thread through the control channel, the     *)
(* task that forwards them and two flags.                                  *)
(*                                                                         *)
(* Time is counted in ticks.  A deadline is relative to now; how far it    *)
(* may fall behind, how much of an interval has passed and how high frame  *)
(* numbers go are cut off at Late, MinIdrTicks, FrameTicks and MaxNumber.  *)
(***************************************************************************)
EXTENDS Bitstream, SequencesExt, FiniteSets

CONSTANTS Threads,
          FrameTicks,   \* frame_ns
          MinIdrTicks,  \* MIN_IDR_INTERVAL
          Late,         \* a deadline this far behind counts as any later one
          MaxNumber,    \* frame numbers from this one on are not told apart
          Depth,        \* capacity of the control channel
          Outputs,      \* what the encoder may hand out for a frame
          Records,      \* what it may answer for the parameter sets
          Controls      \* what clients ask for

ASSUME VideoAssumption ==
    /\ FrameTicks \in Nat \ {0} /\ MinIdrTicks \in Nat \ {0} /\ Depth \in Nat \ {0}
    /\ Late \in Nat /\ Late >= 3 * FrameTicks
    /\ Controls \subseteq {"Idr", "Invalidate", "Reset"}
    /\ MaxNumber \in Nat /\ MaxNumber > 1

\* The encoder answers with parameter sets and nothing else, and an avcC record
\* holds no more of them whole than it has.
ASSUME EncoderAssumption ==
    /\ \A p \in Records : p.nals \in Seq({7, 8}) /\ p.whole \in 0 .. Len(p.nals)
    /\ Outputs \subseteq Seq(Buffer)

VARIABLES loaded,    \* LIBS holds the vendor libraries
          slot,      \* CAPTURE_OPEN
          at,        \* where each thread is
          owns,      \* what its Capture holds
          cap,       \* the rest of its Capture and the locals of run
          live,      \* the session still takes frames
          control,   \* its control channel
          idr,       \* IdrRequester's flag
          reset,     \* ResetRequester's flag
          frame,     \* the frame about to be sent
          ages       \* ticks since the last three frames were sampled

vars == <<loaded, slot, at, owns, cap, live, control, idr, reset, frame, ages>>
thread == <<loaded, slot, at, owns, cap, frame, ages>>

-----------------------------------------------------------------------------
Stages == <<"fb", "mem", "enc", "inited", "buffers", "held">>
Vendor == ToSet(Stages) \ {"fb"}
Streaming == {"loop", "sleep", "send"}
NoFrame == [key |-> FALSE, led |-> FALSE]

Least(a, b) == IF a < b THEN a ELSE b
Most(a, b) == IF a < b THEN b ELSE a

\* open_scaled_ex and run start from this.
Fresh == [first |-> TRUE, sets |-> <<>>, force |-> FALSE,
          deadline |-> 0, wake |-> 0, number |-> 0, sinceIdr |-> MinIdrTicks]
LongAgo == <<FrameTicks, FrameTicks, FrameTicks>>

Init ==
    /\ loaded = FALSE
    /\ slot = FALSE
    /\ at = [t \in Threads |-> "idle"]
    /\ owns = [t \in Threads |-> {}]
    /\ cap = [t \in Threads |-> Fresh]
    /\ live = [t \in Threads |-> FALSE]
    /\ control = [t \in Threads |-> <<>>]
    /\ idr = [t \in Threads |-> FALSE]
    /\ reset = [t \in Threads |-> FALSE]
    /\ frame = [t \in Threads |-> NoFrame]
    /\ ages = [t \in Threads |-> LongAgo]

SessionStarts(t) ==
    /\ at[t] = "idle" /\ ~live[t]
    /\ live' = [live EXCEPT ![t] = TRUE]
    /\ at' = [at EXCEPT ![t] = "open"]
    /\ UNCHANGED <<loaded, slot, owns, cap, control, idr, reset, frame, ages>>

SessionStops(t) ==
    /\ live[t]
    /\ live' = [live EXCEPT ![t] = FALSE]
    /\ UNCHANGED <<thread, control, idr, reset>>

-----------------------------------------------------------------------------
(* Recovery requests *)

\* forward_control of the packetizer: a full channel drops the request.  What
\* a client asks for when no thread is there to hear it is left out.
forward_control(t, c) ==
    /\ live[t] /\ at[t] \in Streaming
    /\ IF Len(control[t]) < Depth
       THEN control' = [control EXCEPT ![t] = Append(@, c)]
       ELSE UNCHANGED control
    /\ UNCHANGED <<thread, live, idr, reset>>

\* The encoder can invalidate no single frame: that is a keyframe too.
forward_encoder_control(t) ==
    /\ control[t] # <<>>
    /\ control' = [control EXCEPT ![t] = Tail(@)]
    /\ IF Head(control[t]) = "Reset"
       THEN reset' = [reset EXCEPT ![t] = TRUE] /\ UNCHANGED idr
       ELSE idr' = [idr EXCEPT ![t] = TRUE] /\ UNCHANGED reset
    /\ UNCHANGED <<thread, live>>

-----------------------------------------------------------------------------
(* Opening the capture *)

Goes(t, where) == at' = [at EXCEPT ![t] = where]

\* Mutant of ClaimFails: the box exists before the slot is claimed, and its
\* drop gives the slot up.
ClaimFailsBoxed(t) == Goes(t, "idle") /\ slot' = FALSE

\* Nothing exists yet, so that a thread that finds the slot taken drops
\* nothing.
ClaimFails(t) == Goes(t, "idle") /\ UNCHANGED slot

\* The libraries are loaded once for the life of the process, before the slot
\* is claimed.
open_scaled_ex(t) ==
    /\ at[t] = "open"
    /\ \/ ~loaded /\ Goes(t, "idle") /\ UNCHANGED <<loaded, slot>>
       \/ slot /\ ClaimFails(t) /\ loaded' = TRUE
       \/ ~slot /\ slot' = TRUE /\ Goes(t, "init") /\ loaded' = TRUE
    /\ UNCHANGED <<owns, cap, live, control, idr, reset, frame, ages>>

\* init: one acquisition after the other, and any of them may fail.
init(t) ==
    /\ at[t] = "init"
    /\ \/ LET n == Cardinality(owns[t]) + 1
          IN  /\ owns' = [owns EXCEPT ![t] = @ \union {Stages[n]}]
              /\ Goes(t, IF n = Len(Stages) THEN "loop" ELSE "init")
       \/ Goes(t, "drop") /\ UNCHANGED owns
    /\ UNCHANGED <<loaded, slot, cap, live, control, idr, reset, frame, ages>>

-----------------------------------------------------------------------------
(* One frame *)

\* Mutant of Resets: the numbers go on.
ResetsKeyOnly(c) == [c EXCEPT !.force = TRUE, !.sinceIdr = 0]

\* A reset starts the numbers again and is always honoured.
Resets(c) == [c EXCEPT !.number = 0, !.force = TRUE, !.sinceIdr = 0]

\* Mutant of Coalesces: a request that is put off puts off the next.
CoalescesAnew(c) ==
    [c EXCEPT !.force = c.sinceIdr >= MinIdrTicks, !.sinceIdr = 0]

\* At most one forced keyframe per interval; the other requests are dropped.
Coalesces(c) ==
    IF c.sinceIdr >= MinIdrTicks THEN [c EXCEPT !.force = TRUE, !.sinceIdr = 0] ELSE c

\* Mutant of NextDeadline: every frame that was missed is still due.
NextDeadlineOwed(d) == d + FrameTicks

\* When the next frame is due: a deadline that fell behind is not caught up with.
NextDeadline(d) == IF d + FrameTicks < 0 THEN FrameTicks ELSE d + FrameTicks

\* The sleep is never cut short.
Paced(c) == [c EXCEPT !.wake = Most(c.deadline, 0), !.deadline = NextDeadline(@)]

\* The head of the loop, up to the sleep of Capture::next.
LoopTop(t) ==
    /\ at[t] = "loop"
    /\ Goes(t, "sleep")
    /\ \/ /\ reset[t]
          /\ reset' = [reset EXCEPT ![t] = FALSE]
          /\ cap' = [cap EXCEPT ![t] = Paced(Resets(@))]
          /\ UNCHANGED idr
       \/ /\ ~reset[t] /\ idr[t]
          /\ idr' = [idr EXCEPT ![t] = FALSE]
          /\ cap' = [cap EXCEPT ![t] = Paced(Coalesces(@))]
          /\ UNCHANGED reset
       \/ /\ ~reset[t] /\ ~idr[t]
          /\ cap' = [cap EXCEPT ![t] = Paced(@)]
          /\ UNCHANGED <<idr, reset>>
    /\ UNCHANGED <<loaded, slot, owns, live, control, frame, ages>>

Sampled(t) == ages' = [ages EXCEPT ![t] = <<0, @[1], @[2]>>]

\* The rest of Capture::next: the screen is read once the sleep is over, the
\* encoder told of a forced keyframe, which it may ignore, and drained.
next(t) ==
    /\ at[t] = "sleep" /\ cap[t].wake = 0
    /\ \E p \in Records, o \in Outputs :
         LET c    == cap[t]
             sets == IF c.first THEN fetch_sps_pps(p) ELSE c.sets
             unit == AccessUnit(c.first, sets, o)
             n    == Least(c.number + 1, MaxNumber)
         IN  /\ cap' = [cap EXCEPT ![t] =
                  [c EXCEPT !.first = FALSE, !.sets = sets,
                            !.force = FALSE, !.number = n]]
             /\ frame' = [frame EXCEPT ![t] =
                  [key |-> first_slice_is_idr(unit), led |-> starts_with_parameter_sets(unit)]]
    /\ Sampled(t)
    /\ Goes(t, "send")
    /\ UNCHANGED <<loaded, slot, owns, live, control, idr, reset>>

\* run returns: the flags have no reader left.
Ends(t) ==
    /\ Goes(t, "drop")
    /\ cap' = [cap EXCEPT ![t] = Fresh]
    /\ control' = [control EXCEPT ![t] = <<>>]
    /\ idr' = [idr EXCEPT ![t] = FALSE]
    /\ reset' = [reset EXCEPT ![t] = FALSE]
    /\ ages' = [ages EXCEPT ![t] = LongAgo]

\* fail: a capture that failed is never driven again.  Only the last of its
\* calls, which asks for the next input buffer, fails with none held.
NextFails(t) ==
    /\ at[t] = "sleep" /\ cap[t].wake = 0
    /\ owns' \in {owns, [owns EXCEPT ![t] = @ \ {"held"}]}
    /\ Ends(t)
    /\ UNCHANGED <<loaded, slot, live, frame>>

\* blocking_send: it waits while the channel is full, and fails once the
\* session has dropped the other end.
Sends(t) ==
    /\ at[t] = "send"
    /\ frame' = [frame EXCEPT ![t] = NoFrame]
    /\ \/ live[t] /\ Goes(t, "loop") /\ UNCHANGED <<cap, control, idr, reset, ages>>
       \/ ~live[t] /\ Ends(t)
    /\ UNCHANGED <<loaded, slot, owns, live>>

-----------------------------------------------------------------------------
(* Drop of the capture *)

\* The vendor's things, in the reverse of the order they were acquired in.
Releases(t) ==
    /\ at[t] = "drop" /\ owns[t] \intersect Vendor # {}
    /\ \E i \in 1 .. Len(Stages) :
         /\ Stages[i] \in owns[t]
         /\ \A j \in i + 1 .. Len(Stages) : Stages[j] \notin owns[t]
         /\ owns' = [owns EXCEPT ![t] = @ \ {Stages[i]}]
    /\ UNCHANGED <<loaded, slot, at, cap, live, control, idr, reset, frame, ages>>

\* The slot is given up when the vendor's things are gone, and only then are
\* the fields of the box dropped: the framebuffer is closed last.
Frees(t) ==
    /\ at[t] = "drop" /\ owns[t] \intersect Vendor = {}
    /\ slot' = FALSE
    /\ Goes(t, "close")
    /\ UNCHANGED <<loaded, owns, cap, live, control, idr, reset, frame, ages>>

Closes(t) ==
    /\ at[t] = "close"
    /\ owns' = [owns EXCEPT ![t] = {}]
    /\ Goes(t, "idle")
    /\ UNCHANGED <<loaded, slot, cap, live, control, idr, reset, frame, ages>>

-----------------------------------------------------------------------------
Tick ==
    LET Older(c) == [c EXCEPT !.deadline = Most(@ - 1, -Late), !.wake = Most(@ - 1, 0),
                              !.sinceIdr = Least(@ + 1, MinIdrTicks)]
    IN  /\ cap' = [t \in Threads |-> IF at[t] \in Streaming THEN Older(cap[t]) ELSE cap[t]]
        /\ ages' = [t \in Threads |->
                      [i \in 1 .. 3 |-> Least(ages[t][i] + 1, FrameTicks)]]
        /\ UNCHANGED <<loaded, slot, at, owns, live, control, idr, reset, frame>>

run(t) == \/ open_scaled_ex(t) \/ init(t) \/ LoopTop(t) \/ next(t) \/ NextFails(t)
          \/ Sends(t) \/ Releases(t) \/ Frees(t) \/ Closes(t)

Next ==
    \/ Tick
    \/ \E t \in Threads :
         \/ SessionStarts(t) \/ SessionStops(t)
         \/ \E c \in Controls : forward_control(t, c)
         \/ forward_encoder_control(t)
         \/ run(t)

Spec == Init /\ [][Next]_vars

\* A thread the kernel runs, the forwarding task and the clock go on; sessions
\* and clients may stop.
FairSpec ==
    /\ Spec
    /\ WF_vars(Tick)
    /\ \A t \in Threads : WF_vars(run(t)) /\ WF_vars(forward_encoder_control(t))

-----------------------------------------------------------------------------
(* Properties *)

Inside == {"init", "drop"} \union Streaming

\* capture.rs:261: whoever opens, fails or tears down in whatever order, the
\* slot is taken exactly while one thread is between claiming it and giving
\* it up, no other thread then holds anything of the vendor's, and a thread
\* that has given it up holds nothing but its framebuffer.
SlotIsItsOwners ==
    /\ slot <=> \E t \in Threads : at[t] \in Inside
    /\ \A t, u \in Threads : at[t] \in Inside /\ at[u] \in Inside => t = u
    /\ \A t \in Threads : at[t] \notin Inside => owns[t] \intersect Vendor = {}
    /\ \A t \in Threads : at[t] \in Streaming => owns[t] = ToSet(Stages)

\* capture.rs:579: however long the thread was held up, by the encoder, by a
\* full channel or by a sleep that lasted too long, a backlog is not replayed:
\* four frames in a row are never sampled within less than a frame interval.
NoBurst == 
    [][\A t \in Threads :
         at[t] = "sleep" /\ at'[t] = "send" => ages[t][3] >= FrameTicks]_vars

\* capture.rs:751-765: a client that decodes from what arrives with a keyframe
\* finds the parameter sets ahead of each one, if the encoder ever gave them.
KeyframesDecodable ==
    \A t \in Threads :
      frame[t].key /\ cap[t].sets # <<>> => frame[t].led

\* video.rs:195-207 and main.rs forward_encoder_control: a reset that got into
\* the control channel leads to a frame with number 1, and a client that keeps
\* asking for a keyframe is not put off for ever; unless the stream ends.
RecoveryHeard ==
    \A t \in Threads :
      /\ (\E i \in DOMAIN control[t] : control[t][i] = "Reset")
           ~> ((at[t] = "send" /\ cap[t].number = 1) \/ at[t] \notin Streaming)
      /\ []<>idr[t] => []<>(cap[t].force \/ at[t] \notin Streaming)
=============================================================================
