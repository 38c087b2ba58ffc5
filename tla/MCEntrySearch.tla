--------------------------- MODULE MCEntrySearch ----------------------------
(* Arrays of up to nine entries with gaps, runs of equal keys, and searched *)
(* keys below, among and above them.                                        *)
EXTENDS EntrySearch

MCKeys == 1..4
=============================================================================
