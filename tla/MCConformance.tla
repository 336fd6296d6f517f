--------------------------- MODULE MCConformance ---------------------------
(***************************************************************************)
(* Three corpus files, one of them not attempted; every kind of matcher,   *)
(* switch, declaration and binding among the cases of a few corpora.       *)
(***************************************************************************)
EXTENDS Conformance

Case(name, needs) ==
  [section |-> "s", name |-> name, needs |-> needs,
   disable_check |-> FALSE, check_only |-> FALSE, disable_macros |-> FALSE,
   decls |-> "good", bindings |-> "values", matcher |-> "value", want |-> "other", type |-> "none"]

Plain == Case("a", "nothing")
Nul == Case("b", "nul")
Descriptors == Case("a", "descriptors")
Error == [Plain EXCEPT !.matcher = "eval_error", !.want = "none", !.name = "b"]
Typed == [Plain EXCEPT !.matcher = "typed_result", !.type = "int"]
Deduced == [Typed EXCEPT !.check_only = TRUE, !.want = "none"]
ErrorOnly == [Error EXCEPT !.check_only = TRUE]
Unchecked == [Typed EXCEPT !.disable_check = TRUE]
Default == [Plain EXCEPT !.matcher = "default", !.want = "none", !.disable_check = TRUE]

MCFileNames == {"basic", "macros2", "proto2"}
Corpus(basic, macros2, proto2) ==
  [files |-> <<"basic", "macros2", "proto2">>,
   tests |-> [f \in MCFileNames |->
     CASE f = "basic" -> basic [] f = "macros2" -> macros2 [] f = "proto2" -> proto2]]

\* Every kind of case, each run once with nobody interfering.
Kinds ==
  {Corpus(<<Plain, Nul>>, <<Error>>, <<Descriptors, Nul>>),
   Corpus(<<Descriptors, Error>>, <<Deduced>>, <<Descriptors>>),
   Corpus(<<Typed>>, <<ErrorOnly, Nul>>, <<>>),
   Corpus(<<Unchecked, Default>>, <<>>, <<Descriptors>>),
   Corpus(<<[Error EXCEPT !.bindings = "error_or_unknown"], [Plain EXCEPT !.bindings = "bad"]>>, <<Plain>>, <<>>),
   Corpus(<<[Plain EXCEPT !.decls = "bad"]>>, <<[Unchecked EXCEPT !.decls = "bad"], [Plain EXCEPT !.disable_macros = TRUE]>>, <<>>),
   Corpus(<<[Plain EXCEPT !.matcher = "unknown"]>>, <<[Plain EXCEPT !.want = "message"]>>, <<Nul>>)}

\* Two commits of the corpus: the second lost two files, and in the first file
\* it gave the name of a skipped case to one that can run, and the other way round.
Commits ==
  {Corpus(<<Nul, Plain>>, <<>>, <<Descriptors>>),
   [Corpus(<<Descriptors, Error>>, <<>>, <<>>) EXCEPT !.files = <<"basic">>]}

MCScenarios ==
  {[corpora |-> {c}, runs |-> 1, mishaps |-> 0] : c \in Kinds}
    \cup {[corpora |-> Commits, runs |-> 2, mishaps |-> 2]}

MCFileEnvs == [f \in {"macros2"} |-> {"standard", "two_var_comprehensions"}]
MCEnvs == {"standard", "two_var_comprehensions"}

Exported == [environ |-> [k \in {"DATABASE_URL", "CEL_EXPR_DIR"} |-> "set"], root |-> TRUE,
             file |-> "unreadable", lines |-> <<>>, testdata |-> TRUE]
Assign(keys) == [i \in DOMAIN keys |-> [key |-> keys[i], value |-> "set"]]
Written == [environ |-> [k \in {"DATABASE_URL"} |-> ""], root |-> TRUE, file |-> "read",
            lines |-> Assign(PostgresKeys) \o Assign(<<"CEL_EXPR_DIR">>), testdata |-> TRUE]
MCConfigurations ==
  {Written, [Written EXCEPT !.lines = Tail(@)], [Exported EXCEPT !.testdata = FALSE]}

MCInstallations == {Stages, {"parse", "check"}, {}}
=============================================================================
