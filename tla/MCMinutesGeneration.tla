------------------------ MODULE MCMinutesGeneration ------------------------
(* MinutesGeneration with all transcripts of up to three phrases of four    *)
(* kinds: short ones, one that is longer than a chunk may be, in and out of *)
(* order, overlapping or not.                                               *)
EXTENDS MinutesGeneration

MCPhrases == {[start |-> 0, end |-> 1], [start |-> 0, end |-> 3],
              [start |-> 1, end |-> 2], [start |-> 2, end |-> 3]}
MCTranscripts == UNION {[1..n -> MCPhrases] : n \in 0..3}
=============================================================================
