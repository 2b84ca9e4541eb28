--------------------------- MODULE KeptSequences ---------------------------
(***************************************************************************)
(* Vec::retain, which the registry of clients and the queue edits use.     *)
(***************************************************************************)
EXTENDS Integers, Sequences

\* The elements of s that are in keep, in their order.
Kept(s, keep) ==
    LET upto[n \in 0..Len(s)] ==
            IF n = 0 THEN << >>
            ELSE IF s[n] \in keep THEN Append(upto[n - 1], s[n]) ELSE upto[n - 1]
    IN  upto[Len(s)]
=============================================================================
