--------------------------- MODULE MCLRUKReplacer ---------------------------
(* Model-checking instance of LRUKReplacer: a replacer of 3 frames with    *)
(* k = 2, called on the frame ids a buffer pool of 3 frames uses (0..2),   *)
(* or also on id 3, which RecordAccess accepts because it only rejects      *)
(* frame_id > replacer_size_.                                              *)
EXTENDS LRUKReplacerCalls

MCReplacerSize == 3
MCK == 2
MCPoolFrames == 0..2
MCAllFrames == 0..3
MCMaxAccesses == 7
=============================================================================
