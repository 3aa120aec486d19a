---------------------------- MODULE MCDfuBootloader ----------------------------
(* Bounds for DfuBootloader: pages of two words, a bank of three pages.     *)
EXTENDS DfuBootloader

(* One page exactly; one page and a half; just over two; the whole bank.    *)
WholeWordSizes == {8, 12, 20, 24}

(* A last page of one word and two bytes; of two bytes only.                *)
OddSizes == {14, 10}

(* A last page of less than a word.                                         *)
ShortTailSizes == {10}
=============================================================================
