------------------------------ MODULE Selection ------------------------------
(***************************************************************************)
(* The rows of a sequence that are in a set, in their order: what a mask   *)
(* over a batch leaves of it.  SelectSeq says the same, and TLAPS does not *)
(* know its definition.                                                    *)
(***************************************************************************)
EXTENDS Naturals, Sequences

Kept(s, set) ==
  LET kept[i \in 0 .. Len(s)] ==
        IF i = 0 THEN << >>
        ELSE IF s[i] \in set THEN Append(kept[i - 1], s[i]) ELSE kept[i - 1]
  IN kept[Len(s)]
==============================================================================
