------------------------------ MODULE MCRuleEdit ------------------------------
(* An instance of RuleEdit: two packages, the line shapes of the syntax.    *)
EXTENDS RuleEdit

MCWords == {"a", "b", "T", "0", "1"}
MCSpecs == {"0", "1"}
MCPkgNames == {<<"a">>, <<"b">>, <<"b", "=", "b">>}
MCThreads == {<<"T">>}

Noted(tokens) == [t |-> tokens, c |-> TRUE]

MCLines ==
  {Text(<<"a", "=", "0">>), Text(<<"a", "=", "0", "{">>), Text(<<"a", "{">>), Text(<<"a">>),
   Text(<<"{">>), Text(<<"}">>), Text(<<"T", "=", "0">>), Text(<<"T", "=", "0", "}">>),
   Text(<<"a", "{", "T", "}", "=", "0">>), Text(<<"a", "{", "T", "}", "=", "0", "{">>),
   Text(<<"b", "=", "0">>), Noted(<<"T", "=", "0">>)}

\* With a comment behind a package rule.
MCCommentedLines == {Text(<<"a", "=", "0">>), Noted(<<"a", "=", "0">>), Text(<<"b", "=", "0">>)}
==============================================================================
