------------------------------- MODULE MCVrt -------------------------------
(***************************************************************************)
(* Graphs to compile and run: one CPU, one FPGA.  The shapes are those of  *)
(* the repository's graph examples and device tests, with one or two       *)
(* kernels where those have many.                                          *)
(***************************************************************************)
EXTENDS VrtExec

Buf(s, name) == Token("buffer", s, name, "I32", "n")
Num(s, name) == Token("scalar", s, name, "U64", None)
In(p, t) == Port(p, "in", t)
Out(p, t) == Port(p, "out", t)
Inout(p, t, u) == {Port(p, "ioin", t), Port(p, "ioout", u)}

Kernel(kernel, dev, image, io, after) ==
  [kernel |-> kernel, dev |-> dev, devType |-> IF dev = "cpu" THEN "cpu" ELSE "fpga",
   image |-> image, sig |-> {}, io |-> io, after |-> after]
Image(image, after) == [dev |-> "f", image |-> image, after |-> after]
Loop(trip, cond, ins, outs) ==
  [trip |-> trip, cond |-> cond, ins |-> ins, outs |-> outs, hints |-> {}, after |-> {}]

\* Kernel steps reading buffer b and writing buffer c.
Cpu(kernel, b, c) == Kernel(kernel, "cpu", None, {In("in", b), Out("out", c)}, {})
Fpga(kernel, image, b, c, after) == Kernel(kernel, "f", image, {In("in", b), Out("out", c)}, after)

Board == [cpu |-> [type |-> "cpu", banks |-> {}], f |-> [type |-> "fpga", banks |-> {}]]

Blank == inputScalar(inputBuffer(NewGraph, 0, Buf(0, "raw")), 0, Num(0, "n"))
WithOut == outputBuffer(Blank, 0, Buf(0, "out"))
Buffers(g, s, names) == Chain(LAMBDA h, x : buffer(h, s, Buf(s, x)), g, names)

----------------------------------------------------------------------------

\* 00_multi_image_pipeline: CPU, image A, image B, CPU.
Pipeline ==
  LET g1 == Buffers(WithOut, 0, <<"pre", "a", "b">>)
      g2 == addKernel(g1, 0, Cpu("pre", Buf(0, "raw"), Buf(0, "pre")))
      g3 == addReprogram(g2, 0, Image("A", {}))
      g4 == addKernel(g3, 0, Fpga("fA", "A", Buf(0, "pre"), Buf(0, "a"), {<<"reprogram", 1>>}))
      g5 == addReprogram(g4, 0, Image("B", {<<"reprogram", 1>>}))
      g6 == addKernel(g5, 0, Fpga("fB", "B", Buf(0, "a"), Buf(0, "b"), {<<"reprogram", 3>>}))
  IN  addKernel(g6, 0, Cpu("post", Buf(0, "b"), Buf(0, "out")))

\* The smallest graph: one CPU kernel.
OneKernel == addKernel(WithOut, 0, Cpu("copy", Buf(0, "raw"), Buf(0, "out")))

\* 02_sharpen_loop: the FPGA runs the loop by itself.
FpgaLoop ==
  LET g1 == inputScalar(WithOut, 0, Num(0, "K"))
      g2 == builderAddLoop(g1, 0, Loop({Num(0, "K")}, NoCond, <<In("state", Buf(0, "raw"))>>,
                                       <<Out("state", Buf(0, "out"))>>))
      g3 == addReprogram(g2, 1, Image("A", {}))
  IN  addKernel(g3, 1, Fpga("fA", "A", Buf(1, "loop_in_state"), Buf(1, "loop_out_state"),
                            {<<"reprogram", 2>>}))

\* 01_edge_detection: the scalar one FPGA kernel computes is an argument of the next.
Level ==
  LET g1 == Buffers(outputScalar(WithOut, 0, Num(0, "level")), 0, <<"a">>)
      g2 == addReprogram(g1, 0, Image("A", {}))
      g3 == addKernel(g2, 0, Kernel("measure", "f", "A",
              {In("in", Buf(0, "raw")), Out("out", Buf(0, "a")), Out("level", Num(0, "level"))},
              {<<"reprogram", 0>>}))
  IN  addKernel(g3, 0, Kernel("apply", "f", "A",
        {In("in", Buf(0, "a")), In("level", Num(0, "level")), Out("out", Buf(0, "out"))},
        {<<"reprogram", 0>>}))

\* A loop whose body goes from device first over the FPGA to device last.
SplitLoop(last) ==
  LET g1 == inputScalar(WithOut, 0, Num(0, "K"))
      g2 == builderAddLoop(g1, 0, Loop({Num(0, "K")}, NoCond, <<In("state", Buf(0, "raw"))>>,
                                       <<Out("state", Buf(0, "out"))>>))
      g3 == Buffers(g2, 1, <<"staged", "a">>)
      g4 == addKernel(g3, 1, Cpu("stage", Buf(1, "loop_in_state"), Buf(1, "staged")))
      g5 == addReprogram(g4, 1, Image("A", {}))
      g6 == addKernel(g5, 1, Fpga("fA", "A", Buf(1, "staged"), Buf(1, "a"), {<<"reprogram", 3>>}))
  IN  addKernel(g6, 1, IF last = "cpu" THEN Cpu("fin", Buf(1, "a"), Buf(1, "loop_out_state"))
                       ELSE Fpga("fin", "A", Buf(1, "a"), Buf(1, "loop_out_state"),
                                 {<<"reprogram", 3>>}))

\* A split loop of a CPU kernel that carries the state and an FPGA kernel that stands
\* beside it, takes its result or gives it a value: only in the second is the follower fed.
OneEach(given, taken) ==
  LET g1 == inputScalar(WithOut, 0, Num(0, "K"))
      g2 == builderAddLoop(g1, 0, Loop({Num(0, "K")}, NoCond, <<In("state", Buf(0, "raw"))>>,
                                       <<Out("state", Buf(0, "out"))>>))
      g3 == Buffers(g2, 1, <<"a">>)
      g4 == addReprogram(g3, 1, Image("A", {}))
      g5 == addKernel(g4, 1, Kernel("probe", "f", "A", taken \cup {Out("out", Buf(1, "a"))},
                                    {<<"reprogram", 2>>}))
  IN  addKernel(g5, 1, Kernel("stage", "cpu", None,
        given \cup {In("in", Buf(1, "loop_in_state")), Out("out", Buf(1, "loop_out_state"))}, {}))
Beside == OneEach({}, {})
Taking == OneEach({}, {In("in", Buf(1, "loop_out_state"))})
Giving == OneEach({In("a", Buf(1, "a"))}, {})

\* A conditional on the CPU whose arms are one kernel each.
Choice ==
  LET Arm(kernel, r) == Cpu(kernel, Buf(r, "if_in_in"), Buf(r, "if_out_out"))
      g1 == builderAddConditional(inputScalar(WithOut, 0, Num(0, "K")), 0,
              [cond |-> [operands |-> {Num(0, "K")}, rp1 |-> TRUE],
               ins |-> <<In("in", Buf(0, "raw"))>>, outs |-> <<Out("out", Buf(0, "out"))>>,
               hints |-> {}, after |-> {}])
  IN  addKernel(addKernel(g1, 1, Arm("then", 1)), 2, Arm("else", 2))

\* FpgaControlExecution: a kernel's scalar decides which image RP1 loads and runs.
FpgaChoice ==
  LET Arm(g, r, kernel, image) ==
        addKernel(addReprogram(g, r, Image(image, {})), r,
                  Kernel(kernel, "f", image, {}, {<<"reprogram", 0>>}))
      g1 == scalar(inputScalar(WithOut, 0, Num(0, "K")), 0, Num(0, "p"))
      g2 == addReprogram(g1, 0, Image("A", {}))
      g3 == addKernel(g2, 0, Kernel("probe", "f", "A",
              {In("in", Buf(0, "raw")), In("k", Num(0, "K")), Out("out", Buf(0, "out")),
               Out("p", Num(0, "p"))}, {<<"reprogram", 0>>}))
      g4 == builderAddConditional(g3, 0,
              [cond |-> [operands |-> {Num(0, "p")}, rp1 |-> TRUE],
               ins |-> <<>>, outs |-> <<>>, hints |-> {}, after |-> {}])
  IN  Arm(Arm(g4, 1, "then", "B"), 2, "else", "C")

\* A while loop on the CPU that counts its own iterations.
While ==
  LET cond == [operands |-> {Num(0, "i")}, rp1 |-> FALSE]
      g1 == builderAddLoop(inputScalar(WithOut, 0, Num(0, "i")), 0,
              Loop({}, cond, <<In("state", Buf(0, "raw")), In("i", Num(0, "i"))>>,
                   <<Out("state", Buf(0, "out")), Out("i", Num(0, "i"))>>))
  IN  addKernel(g1, 1, Kernel("step", "cpu", None,
        {In("in", Buf(1, "loop_in_state")), In("i", Num(1, "loop_in_i")),
         Out("out", Buf(1, "loop_out_state")), Out("i", Num(1, "loop_out_i"))}, {}))

\* An FPGA kernel overwrites its input while a CPU kernel still needs it.
InPlace ==
  LET g1 == Buffers(outputBuffer(WithOut, 0, Buf(0, "copy")), 0, <<"pre">>)
      g2 == addKernel(g1, 0, Cpu("pre", Buf(0, "raw"), Buf(0, "pre")))
      g3 == addReprogram(g2, 0, Image("A", {}))
      g4 == addKernel(g3, 0, Kernel("fA", "f", "A", Inout("x", Buf(0, "pre"), Buf(0, "out")),
                                    {<<"reprogram", 1>>}))
  IN  addKernel(g4, 0, Cpu("read", Buf(0, "pre"), Buf(0, "copy")))

----------------------------------------------------------------------------
(* Graphs the compiler refuses, with the code its tests expect.            *)

Copy(g, from, to) == addKernel(g, 0, Cpu("copy", from, to))
Early == {<<"reprogram", 0>>}

Refusals ==
  {<<WithOut, "EmptyGraph">>,
   <<Copy(Buffers(WithOut, 0, <<"missing">>), Buf(0, "missing"), Buf(0, "out")),
     "MissingProducer">>,
   <<addKernel(outputScalar(Blank, 0, Num(0, "result")), 0, Kernel("side", "cpu", None, {}, {})),
     "MissingProducer">>,
   <<Copy(Copy(WithOut, Buf(0, "raw"), Buf(0, "out")), Buf(0, "raw"), Buf(0, "out")),
     "DuplicateProducer">>,
   <<Copy(buffer(createChild(WithOut, 0), 1, Buf(1, "child")), Buf(1, "child"), Buf(0, "out")),
     "InvalidScope">>,
   <<addKernel(WithOut, 0, Kernel("late", "cpu", None, {}, {<<"nobody", 7>>})),
     "UnknownDependency">>,
   <<addKernel(WithOut, 0, [Kernel("broken", "cpu", None, {}, {}) EXCEPT
       !.sig = {[port |-> "in", acc |-> "in", kind |-> "buffer", type |-> "I32"]}]),
     "UnboundPort">>,
   <<addKernel(WithOut, 0, Fpga("fA", "A", Buf(0, "raw"), Buf(0, "out"), {})),
     "ImageSafetyViolation">>,
   <<addKernel(addReprogram(WithOut, 0, Image("B", {})), 0,
               Fpga("fA", "A", Buf(0, "raw"), Buf(0, "out"), Early)), "ImageSafetyViolation">>,
   <<addKernel(Blank, 0, Kernel("gone", "d9", None, {}, {})), "UnknownDevice">>}

ASSUME MalformedRefused == \A r \in Refusals : r[2] \in compile(Board, r[1]).errors

----------------------------------------------------------------------------

n == <<"scalar", 0, "n">>
K == <<"scalar", 0, "K">>
i0 == <<"scalar", 0, "i">>

\* A case: the graph, the values of its input scalars, runs, failing kernels and
\* slow waits per run, and the host threads that call the API.
A(g, scal, runs, fail, slow, callers) ==
  [graph |-> g, scal |-> scal, runs |-> runs, fail |-> fail, slow |-> slow, callers |-> callers]

RECURSIVE CompileAll(_)
CompileAll(cases) ==
  IF cases = <<>> THEN <<>>
  ELSE <<[plan |-> compile(Board, Head(cases).graph)] @@ Head(cases)>> \o CompileAll(Tail(cases))

Counts(S) == {(n :> 4) @@ (K :> k) : k \in S}

Compiled == CompileAll(
  <<A(OneKernel, {n :> 4}, 2, 1, 0, {"t1", "t2"}),
    A(Pipeline, {n :> 4}, 2, 1, 1, {"t1", "t2"}),
    A(SplitLoop("cpu"), Counts(0..2), 2, 1, 1, {"t1"}),
    A(Beside, Counts(0..2), 1, 0, 0, {"t1"}),
    A(Taking, Counts(0..2), 1, 0, 0, {"t1"}),
    A(Giving, Counts(0..2), 1, 0, 0, {"t1"}),
    A(FpgaLoop, Counts(0..2), 2, 1, 1, {"t1"}),
    A(Level, {n :> 4}, 2, 0, 0, {"t1"}),
    A(Choice, Counts({1, 3}), 2, 1, 0, {"t1"}),
    A(FpgaChoice, Counts({0, 1}), 2, 1, 0, {"t1"}),
    A(While, {(n :> 4) @@ (i0 :> k) : k \in 0..2}, 1, 0, 0, {"t1"}),
    A(InPlace, {n :> 4}, 2, 0, 0, {"t1"})>>)
MCCases == Compiled

CompiledCarry == CompileAll(<<A(SplitLoop("f"), Counts(2..2), 1, 0, 0, {"t1"})>>)
MCCarry == CompiledCarry

=============================================================================
