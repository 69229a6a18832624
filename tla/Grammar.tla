------------------------------ MODULE Grammar -------------------------------
(***************************************************************************)
(* The parse functions of class AstGen (ast2/AstGen.cpp, ast2/ast/) as     *)
(* data.  A function is the sequence of what it does to the token cursor,  *)
(* under the name it has in the source; module Parser runs them.           *)
(*                                                                         *)
(* A token is its TokenType, written as it is spelt: "x" is an identifier, *)
(* "1" and "text" are the two kinds of literal.  `namespace` is left out:  *)
(* TokenType (lexer/token.h) has no such keyword.                          *)
(***************************************************************************)
EXTENDS Integers, SequencesExt

-----------------------------------------------------------------------------
(* What a parse function is made of.                                        *)

Expect(ts) == <<"expect", ts>>            \* consume one of ts, or an error
Call(f) == <<"call", f>>                  \* f's error is passed on
Attempt(f) == <<"attempt", f>>            \* f's error is dropped
Attempted == <<"attempted">>              \* where it is dropped
Until(ts, body) == <<"until", ts, body>>  \* while( peek() is none of ts )
While(ts, body) == <<"while", ts, body>>  \* while( peek() is one of ts )
Switch(arms, default) == <<"switch", arms, default>>  \* on peek()
On(ts, then) == <<ts, then>>              \* an arm: at one of ts
BinOp(precedence) == <<"binop", precedence>>
Climb(precedence, op) == <<"climb", precedence, op>>
Build(node) == <<"build", node>>          \* a node of the tree, operands first
Slip(what) == <<"slip", what>>            \* history: a defect was met here

Fail == Expect({})
At(ts, then, else) == Switch(<<On(ts, then)>>, else)
Opt(t) == At({t}, <<Expect({t})>>, <<>>)  \* consume_if_expected

-----------------------------------------------------------------------------
(* bin_op.cpp                                                               *)

init_bin_op_lookup ==
  [t \in {"!=", "==", "||", "&", "<=", ">=", "<", ">", "+", "-", "/", "*"} |->
     CASE t \in {"/", "*"} -> 40 [] t \in {"+", "-"} -> 20 [] OTHER -> 10]

\* -1 for a token that is no BinOp, among them the `&&` parse_bin_op consumes.
get_token_precedence(t) ==
  IF t \in DOMAIN init_bin_op_lookup THEN init_bin_op_lookup[t] ELSE -1

BinOpTokens ==
  {"+", "*", "/", "-", ">", ">=", "<", "<=", "&&", "||", "==", "!="}

-----------------------------------------------------------------------------
(* Names, types and literals                                                *)

parse_name_parts ==
  <<Expect({"x"}), While({"::"}, <<Expect({"::"}), Expect({"x"})>>)>>

parse_identifier == <<Call("parse_name_parts")>>

parse_literal == <<Expect({"1", "text"})>>

ArrayLength ==
  <<Expect({"["}), At({"text"}, <<Call("parse_literal"), Fail>>,
                                <<Call("parse_literal")>>),
    Expect({"]"})>>

TypeDecl(allow_empty) ==
  <<At({"x"}, <<Call("parse_name_parts"), While({"*"}, <<Expect({"*"})>>),
                At({"["}, ArrayLength, <<>>)>>,
              IF allow_empty THEN <<>> ELSE <<Fail>>)>>

parse_type_decl == TypeDecl(FALSE)
parse_type_decl_or_empty == TypeDecl(TRUE)

-----------------------------------------------------------------------------
(* Expressions                                                              *)

parse_const_expr ==
  <<Switch(<<On({"1", "text"}, <<Call("parse_literal")>>),
             On({"x"}, <<Call("parse_identifier")>>)>>,
           <<Fail>>)>>

parse_deref == <<Expect({"*"}), Call("parse_expr")>>
parse_addressof == <<Expect({"&"}), Call("parse_expr")>>

\* A token no expression starts with is an empty expression, not an error; it is
\* not recorded.
parse_simple_expr ==
  <<Switch(<<On({"1", "text"}, <<Call("parse_literal"), Build("x")>>),
             On({"x"}, <<Call("parse_identifier"), Build("x")>>),
             On({"("}, <<Expect({"("}), Call("parse_expr"), Expect({")"})>>),
             On({"&"}, <<Call("parse_addressof")>>),
             On({"*"}, <<Call("parse_deref")>>)>>,
           <<>>)>>

parse_member_reference == <<Expect({"."}), Call("parse_identifier")>>
parse_indirect_member_reference == <<Expect({"->"}), Call("parse_identifier")>>
parse_array_access == <<Expect({"["}), Call("parse_expr"), Expect({"]"})>>

\* No token has to be consumed before the next turn of the loop.
parse_value_list == <<Until({")"}, <<Call("parse_expr"), Opt(",")>>)>>

\* Mutant: the closing parenthesis is left to the caller.
parse_call_unclosed == <<Expect({"("}), Call("parse_value_list")>>

parse_call == <<Expect({"("}), Call("parse_value_list"), Expect({")"})>>

parse_postfix_expr ==
  <<Call("parse_simple_expr"),
    While({".", "->", "(", "["},
          <<Switch(<<On({"."}, <<Call("parse_member_reference")>>),
                     On({"->"}, <<Call("parse_indirect_member_reference")>>),
                     On({"("}, <<Call("parse_call")>>)>>,
                   <<Call("parse_array_access")>>)>>)>>

\* A list that is empty or ends in a comma is left at its closing brace: the
\* test after the loop consumes one only where there is none.
parse_designators ==
  <<At({"}"}, <<Slip("initializer")>>,
       <<Expect({"."}), Expect({"x"}), Expect({"="}), Call("parse_expr"),
         At({"}"}, <<Expect({"}"})>>,
            <<Expect({","}), Call("parse_designators")>>)>>)>>

parse_initializer == <<Expect({"{"}), Call("parse_designators")>>

parse_expr ==
  <<Call("parse_postfix_expr"), BinOp(0),
    Switch(<<On({"is"}, <<Expect({"is"}), Call("parse_type_decl")>>),
             On({"{"}, <<Call("parse_initializer")>>)>>,
           <<>>)>>

AssignTokens == {"+=", "-=", "*=", "/=", "="}

parse_assign == <<Expect(AssignTokens), Call("parse_expr")>>

parse_expr_statement ==
  <<Call("parse_expr"), At(AssignTokens, <<Call("parse_assign")>>, <<>>)>>

-----------------------------------------------------------------------------
(* Statements                                                               *)

parse_let ==
  <<Expect({"let"}), Call("parse_identifier"),
    At({":"}, <<Expect({":"}), Call("parse_type_decl_or_empty"),
                At({"="}, <<Expect({"="}), Call("parse_expr")>>, <<>>)>>,
              <<Expect({"="}), Call("parse_expr")>>)>>

parse_block ==
  <<Expect({"{"}), Until({"}"}, <<Call("parse_statement")>>), Expect({"}"})>>

\* The parentheses around a condition are optional, both or none.
Condition ==
  At({"("}, <<Expect({"("}), Call("parse_expr"), Expect({")"})>>,
            <<Call("parse_expr")>>)

parse_while == <<Expect({"while"}), Condition, Call("parse_statement")>>

parse_switch ==
  <<Expect({"switch"}), Expect({"("}), Call("parse_expr"), Expect({")"}),
    Call("parse_block")>>

parse_if_arrow ==
  <<Expect({"=>"}), Expect({"("}), Call("parse_function_parameter_list"),
    Expect({")"}), Call("parse_block")>>

parse_if_block ==
  <<At({"=>"}, <<Call("parse_if_arrow")>>, <<Call("parse_statement")>>)>>

parse_case ==
  <<Expect({"case"}), Call("parse_const_expr"), Opt(":"), Call("parse_if_block")>>

parse_default == <<Expect({"default"}), Opt(":"), Call("parse_statement")>>

parse_else == <<Expect({"else"}), Call("parse_statement")>>

\* then_block is not asked whether it is ok before it is unwrapped.
parse_if ==
  <<Expect({"if"}), Condition, Attempt("parse_if_block"),
    At({"else"}, <<Call("parse_else")>>, <<>>)>>

parse_for ==
  <<Expect({"for"}), Expect({"("}), Call("parse_statement"), Call("parse_expr"),
    Expect({";"}), Call("parse_expr_statement"), Expect({")"}),
    Call("parse_statement")>>

\* Mutant: a semicolon may be missing.
StatementEndOptional == Opt(";")

StatementEnd == Expect({";"})

parse_statement ==
  <<Switch(<<On({"return"}, <<Expect({"return"}), Call("parse_expr"), StatementEnd>>),
             On({"while"}, <<Call("parse_while")>>),
             On({"let"}, <<Call("parse_let"), StatementEnd>>),
             On({"switch"}, <<Call("parse_switch")>>),
             On({"default"}, <<Call("parse_default")>>),
             On({"case"}, <<Call("parse_case")>>),
             On({"if"}, <<Call("parse_if")>>),
             On({"for"}, <<Call("parse_for")>>),
             On({"{"}, <<Call("parse_block")>>)>>,
           <<Call("parse_expr_statement"), StatementEnd>>)>>

-----------------------------------------------------------------------------
(* Declarations                                                             *)

parse_fn_param ==
  <<At({"..."}, <<Expect({"..."})>>, <<Call("parse_non_var_arg_fn_param")>>)>>

parse_non_var_arg_fn_param ==
  <<Call("parse_identifier"), Expect({":"}), Call("parse_type_decl")>>

parse_function_parameter_list ==
  <<Until({")"}, <<Call("parse_fn_param"), Opt(",")>>)>>

parse_function_proto ==
  <<Call("parse_identifier"), Expect({"("}),
    Call("parse_function_parameter_list"), Expect({")"}),
    At({":"}, <<Expect({":"}), Call("parse_type_decl")>>, <<>>)>>

\* The test for a missing return type never fails: without one the prototype
\* is built with its last two arguments swapped and has one.
parse_extern_function ==
  <<Expect({"extern"}), Expect({"fn"}), Call("parse_function_proto"),
    Expect({";"})>>

parse_function ==
  <<Expect({"fn"}), Call("parse_function_proto"), Call("parse_block")>>

\* The last member may end with the closing brace of the body.
parse_struct_members ==
  <<At({"}"}, <<Expect({"}"})>>,
       <<Expect({"x"}), Expect({":"}), Call("parse_type_decl"),
         At({"}"}, <<Expect({"}"})>>,
            <<Expect({";"}), Call("parse_struct_members")>>)>>)>>

parse_struct_body == <<Expect({"{"}), Call("parse_struct_members")>>

parse_struct == <<Expect({"struct"}), Expect({"x"}), Call("parse_struct_body")>>

parse_union ==
  <<Expect({"union"}), Expect({"x"}), Expect({"{"}),
    Until({"}"}, <<Expect({"x"}), Expect({":"}), Call("parse_type_decl"),
                   Expect({";"})>>),
    Expect({"}"})>>

parse_enum ==
  <<Expect({"enum"}), Expect({"x"}), Expect({"{"}),
    Until({"}"}, <<Expect({"x"}),
                   At({","}, <<Expect({","})>>, <<Call("parse_struct_body")>>)>>),
    Expect({"}"})>>

parse_module_top_level_item ==
  <<Switch(<<On({"extern"}, <<Call("parse_extern_function")>>),
             On({"fn"}, <<Call("parse_function")>>),
             On({"struct"}, <<Call("parse_struct")>>),
             On({"union"}, <<Call("parse_union")>>),
             On({"enum"}, <<Call("parse_enum")>>)>>,
           <<Fail>>)>>

parse == <<Until({"eof"}, <<Call("parse_module_top_level_item")>>)>>

-----------------------------------------------------------------------------
Functions ==
  [parse |-> parse, parse_module_top_level_item |-> parse_module_top_level_item,
   parse_let |-> parse_let, parse_block |-> parse_block,
   parse_union |-> parse_union, parse_type_decl |-> parse_type_decl,
   parse_type_decl_or_empty |-> parse_type_decl_or_empty,
   parse_assign |-> parse_assign, parse_expr_statement |-> parse_expr_statement,
   parse_while |-> parse_while, parse_switch |-> parse_switch,
   parse_case |-> parse_case, parse_default |-> parse_default,
   parse_statement |-> parse_statement, parse_if |-> parse_if,
   parse_if_block |-> parse_if_block, parse_if_arrow |-> parse_if_arrow,
   parse_else |-> parse_else, parse_for |-> parse_for,
   parse_literal |-> parse_literal, parse_identifier |-> parse_identifier,
   parse_name_parts |-> parse_name_parts, parse_const_expr |-> parse_const_expr,
   parse_initializer |-> parse_initializer,
   parse_designators |-> parse_designators,
   parse_value_list |-> parse_value_list, parse_call |-> parse_call,
   parse_member_reference |-> parse_member_reference,
   parse_indirect_member_reference |-> parse_indirect_member_reference,
   parse_array_access |-> parse_array_access, parse_deref |-> parse_deref,
   parse_addressof |-> parse_addressof, parse_simple_expr |-> parse_simple_expr,
   parse_postfix_expr |-> parse_postfix_expr, parse_expr |-> parse_expr,
   parse_fn_param |-> parse_fn_param,
   parse_non_var_arg_fn_param |-> parse_non_var_arg_fn_param,
   parse_function_parameter_list |-> parse_function_parameter_list,
   parse_function_proto |-> parse_function_proto,
   parse_extern_function |-> parse_extern_function,
   parse_function |-> parse_function, parse_struct |-> parse_struct,
   parse_struct_body |-> parse_struct_body,
   parse_struct_members |-> parse_struct_members, parse_enum |-> parse_enum]

\* The loops of parse_initializer and parse_struct_body: no functions of the
\* source, they start inside the brace that their caller has consumed.
InnerLoops == {"parse_designators", "parse_struct_members"}
=============================================================================
