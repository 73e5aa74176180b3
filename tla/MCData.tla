-------------------------------- MODULE MCData --------------------------------
(***************************************************************************)
(* What goes in is what comes out: JSON documents, their scalars, the      *)
(* merge of options, the frame header, and the blobs of a channel. The     *)
(* inputs of the first four grow step by step, so TLC visits all up to a   *)
(* bound; capacities are small enough that four posts overflow the         *)
(* mailbox. The parts share no state; a behaviour exercises one of them    *)
(* while the others rest in an initial state.                              *)
(***************************************************************************)
EXTENDS JsonText, JsonScalars, Value, BlobFrame, BlobChannel

CONSTANTS d1, h1, h2

MCCapacities == {0, 2}

MCIntMin == -100

MCWords == {<<0, 0, 0, 0>>, <<1, 2, 3, 4>>, <<255, 0, 7, 0>>}
MCLongs == {<<0, 0, 0, 0, 0, 0, 0, 0>>, <<1, 2, 3, 4, 5, 6, 7, 8>>}
MCFrameTypes == [Spectrum |-> {"startFreq", "segment"}, IQ |-> {"startFreq", "sampleRate"},
                 SignalDetect |-> {"startFreq"}, UserDefined |-> {}]

MCInit == TextInit /\ ScalarInit /\ ValueInit /\ FrameInit /\ Init

(* The other parts rest in one initial state each.                         *)
TextRests == TextInit /\ UNCHANGED textVars
ScalarRests == ScalarInit /\ UNCHANGED scalarVars
ValueRests == base.kind = "null" /\ overrides.kind = "null" /\ UNCHANGED valueVars
FrameRests == FrameInit /\ host = "big" /\ UNCHANGED frameVars
ChannelRests == Init /\ UNCHANGED vars

MCNext ==
  \/ TextNext /\ ScalarRests /\ ValueRests /\ FrameRests /\ ChannelRests
  \/ TextRests /\ ScalarNext /\ ValueRests /\ FrameRests /\ ChannelRests
  \/ TextRests /\ ScalarRests /\ ValueNext /\ FrameRests /\ ChannelRests
  \/ TextRests /\ ScalarRests /\ ValueRests /\ FrameNext /\ ChannelRests
  \/ TextRests /\ ScalarRests /\ ValueRests /\ FrameRests /\ Next

MCSpec == MCInit /\ [][MCNext]_<<textVars, scalarVars, valueVars, frameVars, vars>>
=============================================================================
