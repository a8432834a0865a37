----------------------------- MODULE SlashBoard -----------------------------
(***************************************************************************)
(* The board slots of the kernel module (slash_chrdev.c): the card number  *)
(* in the names and minors of /dev/slash_qdma_ctl<N> (PF1) and             *)
(* /dev/slash_ctl<N> (PF2).                                                *)
(*                                                                         *)
(* slots is the list slash_board_slots in allocation order.  An entry is   *)
(* the board's PCI location and active_pfs; its number is its place in the *)
(* list, counted from 0.  Entries are only freed when the module exits.    *)
(***************************************************************************)
EXTENDS Naturals, Sequences, FiniteSets

CONSTANTS
    Boards,      \* PCI locations (domain, bus, slot)
    MaxCards     \* SLASH_MAX_CARDS

ASSUME BoardAssumption == MaxCards \in Nat

VARIABLE slots

\* The functions the module binds: SLASH_QDMA_PF and SLASH_PCIE_PF.
QdmaPf == 1

ControlPf == 2

Pfs == {QdmaPf, ControlPf}

\* The entry of a board, 0 when it has none.
SlotOf(b) ==
    IF \E k \in DOMAIN slots : slots[k].board = b
    THEN CHOOSE k \in DOMAIN slots : slots[k].board = b
    ELSE 0

\* A new entry for every binding: a returning board is not recognised.
BoardGetFresh(b, pf) ==
    IF Len(slots) = MaxCards THEN [err |-> TRUE, slots |-> slots, number |-> 0]
    ELSE [err |-> FALSE, slots |-> Append(slots, [board |-> b, pfs |-> {pf}]),
          number |-> Len(slots)]

\* slash_chrdev_board_get: the entry of a known board is reused (-EBUSY when
\* the function is already active); a new board takes the next number
\* (-ENOSPC when all are taken).
BoardGet(b, pf) ==
    LET k == SlotOf(b)
        refused == [err |-> TRUE, slots |-> slots, number |-> 0]
    IN  CASE k # 0 /\ pf \in slots[k].pfs -> refused
          [] k # 0 /\ pf \notin slots[k].pfs ->
                [err |-> FALSE, slots |-> [slots EXCEPT ![k].pfs = @ \cup {pf}],
                 number |-> k - 1]
          [] k = 0 /\ Len(slots) = MaxCards -> refused
          [] OTHER ->
                [err |-> FALSE,
                 slots |-> Append(slots, [board |-> b, pfs |-> {pf}]),
                 number |-> Len(slots)]

\* slash_chrdev_board_put: the function's bit is cleared; the number stays
\* with the board.
BoardPut(b, pf) ==
    LET k == SlotOf(b)
    IN  IF k = 0 THEN slots ELSE [slots EXCEPT ![k].pfs = @ \ {pf}]

\* A probe that fails after slash_chrdev_board_get puts the function back: the
\* board keeps the number it got.
GivenBack(b, pf) ==
    LET got == BoardGet(b, pf)
    IN  [k \in DOMAIN got.slots |->
            IF got.err \/ got.slots[k].board # b THEN got.slots[k]
            ELSE [got.slots[k] EXCEPT !.pfs = @ \ {pf}]]

\* SLASH_QDMA_MINOR and SLASH_CTLDEV_MINOR.
Minor(number, pf) == 2 * number + (IF pf = QdmaPf THEN 2 ELSE 1)
=============================================================================
