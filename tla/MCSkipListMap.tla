---------------------------- MODULE MCSkipListMap ----------------------------
(* Small instances of the skip list watched against the abstract map.       *)
EXTENDS MCSkipList, SkipListRefinement
=============================================================================
