---------------------------- MODULE MCSlashDriver ----------------------------
(* The kernel module under four workloads .                                *)
EXTENDS SlashDriver, TLC

CONSTANTS b1, b2, b3

MCBoards == {b1, b2, b3}

\* One PF1: queue pairs of one direction, buffers and transfers.
Traffic ==
    [functions |-> {<<b1, QdmaPf>>}, masks |-> {{"h2c"}}, qdma |-> TRUE,
     buffers |-> TRUE, directions |-> {"h2c"}, ops |-> 2]

\* One PF1: queue pairs of both directions, which can fail half way.
Pairs ==
    [Traffic EXCEPT !.masks = {{"h2c", "c2h"}}, !.buffers = FALSE]

\* Both functions of one board and PF2 of another.
Nodes3 ==
    [Traffic EXCEPT !.functions = {<<b1, QdmaPf>>, <<b1, ControlPf>>, <<b2, ControlPf>>},
                    !.qdma = FALSE, !.ops = 3]

\* PF2 of one board more than there are card numbers.
Crowd ==
    [Nodes3 EXCEPT !.functions = {<<b1, ControlPf>>, <<b2, ControlPf>>, <<b3, ControlPf>>},
                   !.ops = 2]

MCWorkloads == {Traffic, Pairs, Nodes3, Crowd}
=============================================================================
