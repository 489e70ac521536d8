----------------------------- MODULE MCPipeline -----------------------------
(***************************************************************************)
(* Instances of Pipeline for TLC: stage lists that keep the shapes of the  *)
(* list main.cpp registers, and the command lines each run considers.      *)
(***************************************************************************)
EXTENDS Pipeline, TLC

S(n, k)  == [name |-> n, kind |-> k, keys |-> {}]
Backend  == [name |-> "c2pancake", kind |-> "backend", keys |-> {"tu", "heap"}]

\* all sorts of stages: those main.cpp registers, with a stage written against
\* the documented interface among them that publishes the key the backend does,
\* and one registered with AddFileStage after the backend
AllStages ==
  0 :> S("casts", "once") @@ 1 :> S("ints", "fixpoint") @@
  2 :> [name |-> "pub", kind |-> "custom", keys |-> {"tu"}] @@
  3 :> S("casts", "fixpoint") @@ 4 :> Backend @@ 5 :> S("filestage", "file")

Opts(maxs, starts, ends, skips, knowns) ==
  [max : maxs, start : starts, end : ends, skip : skips, known : knowns]

\* files the compilation database may not know, and every selection of the
\* passes in front of the backend
FrontNames == {"casts", "ints", NoName}
AllOptions ==
  Opts({1, 2}, {NoName}, {NoName, "pub"}, {{"pub"}, {"c2pancake"}, {}},
       SUBSET (1..NFiles))
  \cup Opts(0..2, FrontNames, FrontNames,
            {{"pub"}, {"pub", "casts"}, {"pub", "ints"}}, {1..NFiles})

\* --end at a pass that has more to rewrite than --max-pass-retries allows
EndOptions == Opts({1, 2}, {NoName}, {"ints"}, {{"pub"}}, {1..NFiles})
=============================================================================
