----------------------------- MODULE MCCodegen ------------------------------
(* Codegen on a small program space: one variable, one function name, an    *)
(* enum whose member E#A has fields and whose member E#N has none.          *)
EXTENDS Codegen

MCNames == {"x", "f"}
MCBuiltinTypes == {"i32", "void"}
MCTypeNames == MCBuiltinTypes \cup {"bool", "E", "E#A", "E#N", "f"}

Param(n, t) == [n |-> n, type |-> t]
Let(n, t, uses) == [k |-> "let", n |-> n, type |-> t, uses |-> uses]
Expr(uses) == [k |-> "expr", uses |-> uses]
Reads(uses) == [uses |-> uses, aborts |-> FALSE]
Asserts == [uses |-> <<"f">>, aborts |-> TRUE]

MCFnNodes == { [n |-> "f", params |-> <<Param("x", "i32")>>, ret |-> "void"],
               [n |-> "f", params |-> <<Param("x", "i32"), Param("x", "i32")>>,
                ret |-> "void"],
               [n |-> "f", params |-> <<>>, ret |-> "bool"] }
MCExternNodes == { [n |-> "f", params |-> <<>>, ret |-> "i32"] }
MCTypeNodes == { [fields |-> {"i32"}, entered |-> {"E#A", "E"}],
                 [fields |-> {"bool"}, entered |-> {"E#A", "E"}] }
MCSimpleNodes == { Let("x", "i32", <<>>), [k |-> "return", uses |-> <<>>],
                   Expr(<<"x">>) }
MCCondNodes == { Reads(<<"f">>), Asserts }
MCArrowParams == { <<>>, <<Param("x", "E#A")>> }
For1(end) == [init |-> Let("x", "i32", <<>>), cond |-> <<"x">>, end |-> end]
MCForNodes == { For1(<<"x">>), For1(<<"E#N">>) }
MCSwitchNodes == { Reads(<<"f">>), Asserts }
CaseOf(default, arrow, params) ==
  [default |-> default, arrow |-> arrow, params |-> params]
MCCaseNodes == { CaseOf(TRUE, FALSE, <<>>), CaseOf(FALSE, FALSE, <<>>),
                 CaseOf(FALSE, TRUE, <<Param("x", "E#A")>>) }

MCStructured == {Rules}
MCRuleSets == {{}, Rules}
=============================================================================
