----------------------------- MODULE MCCompact -----------------------------
EXTENDS Compact, SequencesExt

CONSTANTS p1, p2

MCSize == 3

\* An image as another VhdxWriter left it.
Built(bs, fixed, kinds) ==
    LET put(acc, k) ==
          LET kind == kinds[k]
              data == [i \in 1..bs |-> IF kind = "zeros" \/ (kind = "tail" /\ i = 1) THEN Zero ELSE <<"data", k, i>>]
          IN  IF kind \in {"absent", "zero"}
              THEN [acc EXCEPT !.w = IF kind = "zero" THEN write_zero(@, k - 1)
                                     ELSE mark_not_present(@, k - 1)]
              ELSE [w |-> write_buf(acc.w, k - 1),
                    calls |-> acc.calls \o write_payload_buf(slot_of(acc.w, k - 1), data, 0)]
        new == NewWriter(MCSize, bs, fixed)
        last == FoldLeft(put, [w |-> new, calls |-> create(new)], [k \in 1..Len(kinds) |-> k])
        file == FoldLeft(LAMBDA f, call : After(call, f), EmptyFile, last.calls \o finish(last.w))
    IN  file.cells

Shortened(cells) == SubSeq(cells, 1, Len(cells) - 1)

MCInputs ==
    {[diff |-> FALSE, cells |-> Built(2, FALSE, k)] :
        k \in {<<"full", "full">>, <<"zeros", "full">>, <<"absent", "zeros">>, <<"zero", "tail">>}}
    \cup {[diff |-> FALSE, cells |-> Built(2, TRUE, <<"full", "zeros">>)],
          [diff |-> FALSE, cells |-> Shortened(Built(2, FALSE, <<"full", "full">>))],
          [diff |-> TRUE, cells |-> Built(2, FALSE, <<"full", "absent">>)]}

MCOptions == [in_place : BOOLEAN, sparse : BOOLEAN]
=============================================================================
