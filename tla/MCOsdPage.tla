----------------------------- MODULE MCOsdPage -----------------------------
(***************************************************************************)
(* The page, the encoding of the pictures that are painted on it, and the  *)
(* scaling of their places.  The three share no state: neither the bytes   *)
(* nor the coordinates matter to OsdPage, and Qoi and Scaling know no      *)
(* threads.  Every behaviour therefore takes one of them and leaves the    *)
(* others at their initial states, which reaches all the states of each    *)
(* part and none of their product.                                         *)
(***************************************************************************)
EXTENDS OsdPage, Qoi, Scaling

\* Colours whose pairs need every kind of chunk: the decoder's first pixel, the
\* table's initial entry, neighbours by a DIFF and by a LUMA (with differences
\* across the byte's wrap), another alpha, and two of the same hash.
MCPixel == {<<0, 0, 0, 255>>, <<0, 0, 0, 0>>, <<2, 255, 0, 255>>,
            <<10, 8, 12, 255>>, <<200, 100, 50, 128>>, <<64, 0, 0, 255>>}

\* The ratios of VDR's displays to 1280 x 720: 720 and 1920 and 3840 columns
\* (9/16, 3/2, 3), 576 lines (4/5), and the page's own size; 1792 columns and 504
\* lines (7/5, 7/10) for doubles that are below the whole number or the half.
MCLengths == {<<32, 18>>, <<32, 48>>, <<32, 96>>, <<40, 32>>, <<32, 32>>,
              <<40, 56>>, <<40, 28>>}

VARIABLE part     \* which of them this behaviour is of
mcvars == <<vars, qvars, svars, part>>

MCInit == /\ Init /\ InitQoi /\ InitScaling
          /\ part = "page" \/ (part \in {"picture", "place"} /\ fast = FALSE)
MCNext == \/ part = "page" /\ Next /\ UNCHANGED <<qvars, svars, part>>
          \/ part = "picture" /\ NextQoi /\ UNCHANGED <<vars, svars, part>>
          \/ part = "place" /\ NextScaling /\ UNCHANGED <<vars, qvars, part>>

MCSpec == /\ MCInit /\ [][MCNext]_mcvars
          /\ \A t \in Thread : SF_vars(part = "page" /\ fault = Null /\ Step(t))
          /\ WF_vars(part = "page" /\ fault = Null /\ (ScaleUpdate \/ Refuse))
          /\ WF_vars(part = "page" /\ fault = Null /\ Seconds)
          /\ SF_vars(part = "page" /\ fault = Null /\ ProcessKey)
=============================================================================
