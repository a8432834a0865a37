----------------------------- MODULE MCRp1Program -----------------------------
(***************************************************************************)
(* Small queue programs for model checking Rp1Program.                     *)
(***************************************************************************)
EXTENDS Rp1Program

Kernel(id, deps, base, ins, outs) ==
    [kind |-> "kernel", id |-> id, deps |-> deps, base |-> base, image |-> 0,
     ins |-> ins, outs |-> outs]
Work(id, deps, base) == Kernel(id, deps, base, <<>>, <<>>)
Fixed(id, deps, trip, body) ==
    [kind |-> "loop", id |-> id, deps |-> deps, loopKind |-> "fixed", trip |-> trip,
     body |-> body]
While(id, deps, slot, op, value, body) ==
    [kind |-> "loop", id |-> id, deps |-> deps, loopKind |-> "while", slot |-> slot,
     cond_op |-> op, value |-> value, body |-> body]
Cond(id, deps, slot, op, value, then, else) ==
    [kind |-> "cond", id |-> id, deps |-> deps, slot |-> slot, cond_op |-> op,
     value |-> value, then |-> then, else |-> else]

\* Five commands over two buckets, a forwarded scalar and joins across buckets.
Dag == << Kernel("a", {}, 1, <<>>, <<1>>),
          Work("b", {}, 2),
          Kernel("c", {"a", "b"}, 3, <<1>>, <<>>),
          [kind |-> "signal", id |-> "s", deps |-> {"b"}, slot |-> 2, operation |-> "OR",
           value |-> {1}],
          [kind |-> "wait", id |-> "w", deps |-> {"c", "s"}, slot |-> 2,
           cond_op |-> "AND_NZ", value |-> {1}] >>

\* A reconfiguration and a kernel of the image it installs.
Reload == << [kind |-> "reprogram", id |-> "r", deps |-> {}, image |-> 1],
             [Work("k", {"r"}, 1) EXCEPT !.image = 1] >>

\* A body given out of order, with a carried scalar, and work behind the loop.
Twice == << Fixed("l", {}, 2, << Kernel("y", {"x"}, 2, <<1>>, <<1>>), Work("x", {}, 1) >>),
            Work("p", {"l"}, 3) >>
Never == << Fixed("l", {}, 0, << Work("x", {}, 1) >>), Work("p", {"l"}, 3) >>

\* A loop on what its body reads: while the scalar is zero.
Until == << While("l", {}, 1, "EQ", {}, << Kernel("x", {}, 1, <<>>, <<1>>) >>),
            Work("p", {"l"}, 3) >>

\* Two arms, and one arm only.
Branch == << Kernel("a", {}, 1, <<>>, <<1>>),
             Cond("c", {"a"}, 1, "NE", {}, << Work("t", {}, 2) >>, << Work("e", {}, 3) >>),
             Work("p", {"c"}, 2) >>
Maybe  == << Kernel("a", {}, 1, <<>>, <<1>>),
             Cond("c", {"a"}, 1, "LT", {0}, << Work("t", {}, 2), Work("u", {"t"}, 3) >>, <<>>) >>

\* A loop behind a kernel.
After == << Work("pre", {}, 1), Fixed("l", {"pre"}, 1, << Work("x", {}, 2) >>) >>

AllPrograms    == {Dag, Reload, Twice, Never, Until, Branch, Maybe}
AfterPrograms  == {After}

\* A signal to a slot that does not exist, which the submitter must refuse.
Stray == [CHOOSE img \in LoweredImages : TRUE EXCEPT !.nodes =
    << [op |-> "SIGNAL", flags |-> {}, await_bucket |-> 0, await_mask |-> {},
        set_bucket |-> 0, set_mask |-> {}, slot |-> MaxSignals, operation |-> "SET",
        value |-> {}] >>]
Offered        == LoweredImages \cup {Stray}
Words          == {{}, {0}}
NoPeers        == {}

\* What the lowering emits passes the submitter's validation, so every program here runs.
ASSUME LoweredAccepted == \A img \in LoweredImages : HostAcceptsImage(img)
===============================================================================
