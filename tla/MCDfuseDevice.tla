----------------------------- MODULE MCDfuseDevice -----------------------------
(* Two banks of pages, files of no element, of one that is empty or not, of  *)
(* two that share a page, and images that fit below the secure area or do    *)
(* not.                                                                      *)
EXTENDS DfuseDevice

MCPageBanks == <<[count |-> 2, size |-> 2], [count |-> 1, size |-> 4]>>
MCFiles == {<<>>, <<[at |-> 9, size |-> 0]>>, <<[at |-> 5, size |-> 2]>>, <<[at |-> 4, size |-> 3], [at |-> 7, size |-> 2]>>}
MCImageSizes == {2, 3}

=============================================================================
