---------------------------- MODULE MCWorkGraph ----------------------------
(* All pipelines of a given shape, each one an initial state.               *)
EXTENDS WorkGraph

CONSTANTS a, b, c, x, root

WorksWith(afters, manuals) == [after : afters, manual : manuals]

\* Every stage whose works are some of the names N.
StagesOf(N, W) == UNION {[M -> W] : M \in SUBSET N}

\* Two stages that use the same two names, with manual works, and lists that
\* repeat a work, name root or an unknown work.
TwoStages ==
  LET S == StagesOf({a, b}, WorksWith({<<>>, <<b>>, <<a, b>>, <<a>>}, BOOLEAN))
  IN  {<<s, t>> : s, t \in S}

\* One stage of three works.
OneStage ==
  {<<s>> : s \in StagesOf({a, b, c},
     WorksWith({<<>>, <<a>>, <<b>>, <<c>>, <<a, b>>, <<b, c>>, <<b, b>>,
                <<root>>, <<c, root>>, <<x>>}, {FALSE}))}

Shapes == TwoStages \cup OneStage

\* Two stages of one work each.
OneEach ==
  LET S == StagesOf({a}, WorksWith({<<>>, <<b>>}, {FALSE}))
      T == StagesOf({b}, WorksWith({<<>>, <<a>>}, {FALSE}))
  IN  {<<s, t>> : s \in S, t \in T}
=============================================================================
