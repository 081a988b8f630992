------------------------- MODULE MCTranscriptReader -------------------------
(* An instance of TranscriptReader for TLC: two prompts, three lines, two  *)
(* attempts, so that a line may be completed between two attempts, and one *)
(* cut of the file.                                                        *)
EXTENDS TranscriptReader
=============================================================================
