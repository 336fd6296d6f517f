----------------------------- MODULE MCEnvNames -----------------------------
(***************************************************************************)
(* Three environments and an unknown name, with up to MaxItems include     *)
(* items between them: cycles, diamonds, self-includes, dangling items.    *)
(***************************************************************************)
EXTENDS EnvNames

CONSTANT MaxItems   \* bound: kind='env' items

MCGraphs ==
  {g \in [Known -> SUBSET Names] :
     Cardinality({i \in Known \X Names : i[2] \in g[i[1]]}) <= MaxItems}
=============================================================================
