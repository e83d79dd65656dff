----------------------------- MODULE Bitstream ------------------------------
(***************************************************************************)
(* bitstream.rs and the drain of capture.rs, on access units whose only    *)
(* content is the type of each NAL unit: 1 a slice, 5 an IDR slice, 7 and  *)
(* 8 the parameter sets, 0 for bytes that no start code announces.  A      *)
(* segment is [form, nals], its form "annexb", "avcc", or "torn" when it   *)
(* parses as neither: the end of the ring buffer cuts a NAL unit in two.   *)
(***************************************************************************)
EXTENDS Integers, Sequences

Parses(s) == s.form \in {"annexb", "avcc"}

\* What does not parse leaves out untouched.
append_avcc_as_annexb(out, s) == IF Parses(s) THEN out \o s.nals ELSE out

Slice == {1, 5}

\* The position of the first NAL unit of d of one of these types, 0 for none.
FirstOf(d, types) ==
    LET at == {i \in DOMAIN d : d[i] \in types}
    IN  IF at = {} THEN 0 ELSE CHOOSE i \in at : \A j \in at : i <= j

first_slice_is_idr(d) ==
    LET i == FirstOf(d, Slice) IN i # 0 /\ d[i] = 5

starts_with_parameter_sets(d) ==
    LET i == FirstOf(d, Slice \union {7, 8}) IN i # 0 /\ d[i] \in {7, 8}

\* The NAL units of the avcC record p, as far as it holds them whole.
avcc_record_to_annexb(p) == SubSeq(p.nals, 1, p.whole)

\* What VideoEncGetParameter answers, as parameter sets in Annex-B form.
fetch_sps_pps(p) ==
    CASE p.form = "unavailable" -> <<>>
      [] p.form = "avcC"        -> avcc_record_to_annexb(p)
      [] OTHER                  -> p.nals

\* An output buffer is two segments of the ring whose sizes add up, or one run.
Segment == [form : {"annexb", "avcc", "torn"}, nals : Seq(Nat)]
Buffer == [split : {TRUE}, segs : [1 .. 2 -> Segment]] \union
          [split : {FALSE}, segs : [1 .. 1 -> Segment]]

\* A run is handed on as it is when it does not parse.
Drained(out, b) ==
    IF b.split THEN append_avcc_as_annexb(append_avcc_as_annexb(out, b.segs[1]), b.segs[2])
    ELSE IF Parses(b.segs[1]) THEN append_avcc_as_annexb(out, b.segs[1])
    ELSE Append(out, 0)

\* The buffers of a frame, behind the sets if it is the first.
Drains(first, sets, buffers) ==
    LET out[n \in 0 .. Len(buffers)] ==
          IF n = 0 THEN IF first THEN sets ELSE <<>> ELSE Drained(out[n - 1], buffers[n])
    IN  out[Len(buffers)]

\* Mutant of AccessUnit: only the first frame gets the sets.
AccessUnitBare(first, sets, buffers) == Drains(first, sets, buffers)

\* The access unit of a frame: the sets go ahead of the first frame whatever
\* it holds, and of a later one that turns out to be a bare keyframe.
AccessUnit(first, sets, buffers) ==
    LET out == Drains(first, sets, buffers)
    IN  IF first_slice_is_idr(out) /\ ~starts_with_parameter_sets(out)
        THEN sets \o out ELSE out

=============================================================================
