--------------------------- MODULE MCVideoStream ----------------------------
(* What the encoder may hand out, one case for each way a buffer is read. *)
EXTENDS VideoStream

Run(form, nals) == [split |-> FALSE, segs |-> <<[form |-> form, nals |-> nals]>>]
Ring(form, a, b) ==
    [split |-> TRUE,
     segs |-> <<[form |-> form, nals |-> a], [form |-> form, nals |-> b]>>]

MCOutputs ==
    { <<>>,                                              \* nothing was ready
      <<Run("avcc", <<1>>)>>,
      <<Run("annexb", <<7, 8, 5>>)>>,                    \* sets in-band
      <<Run("torn", <<5>>)>>,                            \* handed on verbatim
      <<Ring("avcc", <<6>>, <<5>>)>>,
      <<Run("avcc", <<6>>), Ring("torn", <<5>>, <<>>)>>, \* the slice is lost
      <<Run("avcc", <<5>>), Run("avcc", <<1>>)>> }

MCRecords ==
    { [form |-> "avcC", nals |-> <<7, 8, 8>>, whole |-> 2],
      [form |-> "verbatim", nals |-> <<7, 8>>, whole |-> 0] }
=============================================================================
