# A verification project for the Sushi compiler

Sushi is a small compiler: `sushi file` lexes and parses one file, checks it,
generates LLVM code for it and writes an object file. It is one thread and one
pass per phase. Nothing here is concurrent or persistent, so what is hard about
this code is not interleaving. It is the state that its recursive handlers
save, change and put back by hand (a current scope, an expected return type, a
switch context, a merge block, a switch instruction, an insertion point, a map
of names) while they nest in each other in every order a program can ask for,
and the agreement of two phases that keep that state separately.

The models are of the second generation (`ast2`, `sema2`, `codegen2`, `lexer`,
`main.cpp`), the one `src/CMakeLists.txt` builds.

## Inventory

| Part | State | Operations | Correct when |
|---|---|---|---|
| Scope table (`Scope.cpp`, `Sema2.cpp:9-89`) | `scopes`, a vector reserved for 100; `current_scope`, a raw pointer into it; in each scope a parent pointer, names, types, an expected return type, `is_in_scope` | push, pop, add a value or a type, set or clear the expected return, three lookups along the parents | it is a lexical environment; no pointer outlives the scope it points to |
| Types (`Types.cpp`, `Type.cpp`, `TypeInstance.*`) | the map of types by name; types point to each other | define, compare, classify, point to | what was checked against a type stays true of it |
| Semantic handlers (`SemaGen.cpp`) | the table, the types, `switch_context_`; the C++ stack | one per declaration, statement and expression | each returns with the state its caller relies on; names have types; no program aborts it |
| IR and lowering (`IR.h`, `Sema2.cpp:147-850`, `lower_for.cpp`) | the tree handed over | builders; the block around a `for` | what is generated is what was checked |
| Code generator, control flow and names (`Codegen.cpp`, `codegen_while/switch/function.cpp`, `cg_discriminations.cpp`) | basic blocks, the insertion point, `merge_block_`, `switch_info_`, the map `values` | one per declaration and statement | each block is attached once and ended once; code after a statement is reached; names mean what was checked |
| Code generator, calling convention (`codegen_call/return/fn_sig_info.cpp`, `LLVMFnSigInfo*`) | the signature of each function | promote a struct result to a hidden argument, copy a struct argument | caller and callee agree on where things are; neither writes what is the other's |
| Code generator, values (`codegen_binop/assign/initializer/member_access/array_access/is/deref/addressof.cpp`, `cg_division.cpp`, `operand.cpp`) | memory of the program it generates | one per expression and assignment | what the code leaves in memory is what the statement means |
| Parser (`AstGen.cpp`, `ast/parse_*.cpp`) | the cursor, the nodes | recursive descent, precedence climbing | every program of the grammar has its tree; every loop consumes |
| Lexer and cursor (`Lexer.cpp`, `TokenCursor.cpp`) | the offset, the tokens | one per lexeme class; peek, consume | tokens cover the text; nothing is read past the end |
| Driver (`main.cpp`) | none | the phases in order | an error stops the pipeline |

How they interact: `main` calls lexer, parser, `sema_module`, `codegen_module`
in turn, each with the previous result. A handler of `SemaGen.cpp` calls the
scope table and the types, recurses into its children and calls a builder of
`Sema2.cpp`; a handler of `Codegen` recurses over what was built and calls
LLVM. IR nodes carry *names*; the second phase resolves them again, in a copied
`std::map` with `insert_or_assign` where the first has parent-linked scopes
with `emplace`. There are no callbacks and no messages.

Hard behaviours: a vector that moves under pointers to its elements; early
returns that skip what would have been put back; blocks shared between handlers
through an optional that says who owns them; assertions that rest on a check
made in the other phase; values read late and results written in place; going
on after an error. `PROJECT.json` lists each as
a hazard, with its line and the properties that are about it.

## Modules

    LexicalEnv                      what a scope table promises
       ^ refined by
    ScopeOps <-- Scopes <-- ScopesProofs
       ^  ^-- ScopeOpsProofs
       |
    Sema  --> TypeRules             the semantic phase, by statement
       ^  ^-- SemaProofs
       |
    Compile --> Codegen             both phases on one program
       ^           ^-- CodegenProofs
    CompileProofs

    TypeRules <-- ExprTypes         the semantic phase, by expression
                     ^
    Ints <------- ValueCode         what the generated code computes
     ^               ^
    IntegerProofs ValueMeaning      what the source means
                     ^
                  Values            one beside the other

    Grammar <-- Parser <-- ParserProofs
    Lexer <-- LexerProofs           what comes before: the parser, the lexer

`ScopeOps` holds the scope table's operations as operators on the vector; a
scope is an index, `Freed` a parent pointer into an array that has been given
back and `UB` the result of a walk that meets one. `PushScope` is
`push_scope`, the move of the vector included: once it holds more than
`Reserve` scopes every scope in it, the new one too, was copied from the old
array and points into it.

`Scopes` drives that table by an arbitrary caller, and proves to be
(`ImplementsLexicalEnv`) the environment of `LexicalEnv`: a stack of maps in
which a scope starts as a copy of the one around it and a declaration reaches
the innermost map only. `open` is a history variable, the scopes pushed and not
popped.

`TypeRules` is `Types`, `Type` and `TypeInstance` as far as a handler decides
by them, the comparisons that do not look at an array's length included. Of a
type's members it has a function's parameters and what `set_enum_members` adds.

`Sema` has, for each statement or declaration handler of `SemaGen.cpp`, one
action for what it does before its first child and a part of `Exit` for what it
does after the last one; the C++ stack is the variable `stack`. Where a handler
calls `sema_block` the block's push and pop belong to the handler's action.
The program is not an input: at each point every node of the node sets may come
next, so a run covers *all* programs of up to `MaxNodes` nodes. `out` is `error`
once a handler has returned a `SemaError` and `abort` after a failed assertion
or the read of an empty optional; nothing follows either. The declaration a
name came from (`site`) is history.

`Codegen` is built the same way from the handlers of `codegen2`. A basic block
is how often it was attached to the function and the sequence of terminators
the builder appended to it; instructions are left out. An expression is the
sequence of names it reads. A value is known by the declaration its address
was made for. The variable `rules` is the bound on programs, chosen at the start
and kept: `{}` for any program, `Rules` for the structured ones some properties
are about. One run has both.

`Compile` runs both on one program: each action of `Sema` also appends what the
builders of `Sema2.cpp` keep of the node to `ir`, the hand-over is
`main.cpp:124-131`, and then each item of `ir` is given to its action of
`Codegen`. An item carries the names its expressions read together with the
declaration `Sema` found for each.

`ExprTypes` is `sema_expr` and what it calls on nested expressions: names,
literals, operators, calls, members, elements, addresses, dereferences, `is` and
initializers, each with its type or its refusal. `Sema` has the statements and
expressions one operator deep, `ExprTypes` the expressions at any depth.

`ValueCode` is `codegen_expr`, `codegen_assign`, `codegen_let`, `codegen_return`,
`codegen_call` and the handlers of each expression, under their own names. The
code of a body is straight but for one `if`, so each instruction runs when its
handler emits it: the operators take the machine and give it back with the
`CGExpr`. Memory is a map from addresses to cells; an address is the number of
an alloca and the indices of the GEPs after it, an integer cell a bit pattern
and its width, a value the cells below its address. So a struct copied, returned
through a hidden argument or passed as a pointer to a copy is what it is in the
code. `out` is `error` (a `CGError`), `abort` (an assertion, in the handlers or
in LLVM's casts), `illtyped` (an instruction LLVM does not allow) or `ub`.
`Ints` has LLVM's integers of a fixed width.

`ValueMeaning` is what the same statements mean, written without regard to the
code: variables are objects, integers are numbers that are converted by the
types of the places they come from and go to, arguments and initializers are
values made before anything is written. It knows nothing of addresses in
registers, of hidden arguments or of the order in which LLVM loads. What it
takes from the code are the names, the types `ExprTypes` finds and the numbers
of members. Two choices are the language's and not stated anywhere: an operation
is done in the wider of the two types, and it is signed when its left operand is.

`Values` runs both. `main` starts with the declarations of `Prologue` and goes
on with any of `Statements` that the semantic phase accepts. The code is known to
get some constructs wrong; each has a name in `slips`, which is entered when the
construct is met *with values for which it matters*, and the history ends there,
since source and code have different variables from then on:

| Slip | |
|---|---|
| `sign` | an operand is widened by the sign of another type (`codegen_binop.cpp`, `codegen_assign.cpp`) and is from the half range on |
| `unsigned` | unsigned operands are compared as signed, and it matters |
| `division` | the operands of a division reach `CreateSDiv` in the wrong order |
| `compound` | `x op= e` stores `e` |
| `late` | an operand is read after the other one has changed it |
| `alias` | an initializer of a variable that names the variable itself |
| `storage` | a variable of an enum's member type and its enum's storage are taken for each other |
| `deref` | a dereference gives the pointer |
| `pun` | a member of a union is read that was not the last written: not the code's fault, the meaning has no value for it |

Names are declared once (a repeated name is `Compile`'s subject), a field that
an initializer leaves out has no value in the source, a function's body is
generated when it is called, and functions do not recurse.

`Grammar` and `Parser` are `AstGen`. `Grammar` writes each parse function, under
its own name, as the sequence of what it does to the cursor: consume one of
these tokens or fail, call, loop until or while a token is ahead, branch on the
token ahead. `Parser` runs them: `todo` is what the C++ stack still has to do,
`tok` the token ahead, and each kind of item is an action. The file is not an
input either: whenever a token is consumed any token of the family may be next.
`parse_bin_op` decides by numbers and has actions of its own. An error empties
the stack, or unwinds to `Attempted`, the one place (`parse_if`) that drops it.
The unclosed brackets, the tokens read and the tree in postfix order are history,
and so is `slips`, which remembers the two known defects that let a bracket go.

`Lexer` has an action for each case of the loop in `lex()`, over a text chosen at
the start; a character stands for its class. A token has its span and its line.
The eof token has no line: its constructor leaves the number uninitialised
(`Lexer.cpp:95`, `token.h:109`), although `ParseError::print` indexes the lines with
it for an error at the end of the file. The model has `Unset` there and no
property says anything of it.
A comment or string that nothing ends makes the scan pass the NUL: `overrun`.

Operators under the comment "Mutant:" are not part of a specification: they are
the plausible bugs that `PROJECT.json` substitutes to see a property fail.

## Runs

The properties are safety properties but for `EndsOrStalls` of the parser, whose
loops end when a token turns up. It assumes weak fairness of `Next`: the parser
is one thread that never waits, so as long as the process runs it takes its next
step. The later phases are recursions over a finite tree and state no fairness.
`CHECK_DEADLOCK FALSE` is set throughout because every run does end: the program
is complete, or an error is on its way out.

| Run | Distinct states | What it shows |
|---|---|---|
| `scopes` | 326,892 | The table is a lexical environment, current scope and parents are the history of pushes, first declarations stay, closed scopes are never written, nothing dangles: while no more than `Reserve` scopes were ever pushed. |
| `sema` | 146,847 | Every handler returns with the scope and the switch context it was entered with; a `return` is checked against its own function and a `case` against its innermost switch; every name has a type that exists; a type keeps its class and return type and its parameters their place and type, and only an enum with its name adds others. |
| `codegen` | 306,268 | In every program blocks are attached exactly once and merge block, switch and names are put back. In structured programs no block is abandoned without a terminator, code after a terminator is code after a `return`, each statement has one way out and what comes after it is reached. |
| `values` | 41,551 | Up to three statements after the prologue, in a module with one of four versions of a function that takes and returns a struct: until a slip is met the variables hold what the source says, a statement writes only the variables it names as destination or takes the address of, memory keeps its types even after a slip, and a statement in the part of the language the generator can do is generated without an assertion or an ill-typed instruction. |
| `compile` | 147,936 | In programs with hygienic declarations each name the generator resolves is the declaration that was checked; a `case` never meets the generator outside a switch. |
| `parser` | 1,204,824 | Whatever the file is the parser ends, or turns for ever in `parse_value_list` at a token no argument starts with (it does: `f(;`). Brackets pair unless one of two defects was met on the way. An accepted expression has the tree its precedences ask for. The cursor stays inside the file. |
| `lexer` | 864,077 | Tokens cover the file in order and once, each is the longest there is, the line numbers of those that were scanned are right, newlines in string literals not counted, and only an unfinished comment or string reads past the end. |
| `codegen_terminators` | violation | a function that runs off its end |
| `values_compound` | violation | a compound assignment |
| `compile_shadow` | violation | a name declared twice in a scope |
| `parser_operators` | violation | an operator that is consumed and dropped |
| `sema_asserts` | violation | a function with the name of an enum |

Bounds, and why they are enough:

- `Reserve = 3`, `MaxScopes = 4` in `scopes` stand for 100: the vector moves
  once, with scopes open and closed at every depth before it. The proofs are
  for every `Reserve`.
- `MaxNodes = 6`: a function, three nested statements and a sibling at two of
  the levels, or two declarations and a body of four. Each handler's state is
  saved by the handler itself, so a failure needs a handler, one inside it and
  one after it. `compile` was also run with 7.
- `MaxDepth = 6` never cuts a program off before `MaxNodes` does.
- One value name and one function name in `sema` and `codegen`, two and one in
  `compile`: a clash needs one name, a capture two.
- The node sets give each handler a node that succeeds and one that fails. The
  enum has a member with fields and (in `sema`) one without: for the latter
  `sema_id` finds a type where a value was meant.
- `MCInputs` in `parser`: eight families of files and parts of files of 6 to 10
  tokens, each with the tokens of the functions it is about, so that each loop
  turns twice or is entered inside another; expressions of four operands with
  two levels of precedence, and three operands with three levels or parentheses.
  The shortest expression that tells right from wrong grouping has four.
- `MCAlphabets` in `lexer`: all texts of up to six characters (five over the
  seven operator characters); the longest lexeme has three, a string or comment
  with something before and after it fits.
- `Rules` in `codegen` are four rules for programs; each excludes one construct
  whose control flow the generator gets wrong: only cases are statements of a switch's block; a case is
  nowhere else; a default's statements do not branch; the body of a brace-less
  loop in a branch of an `if` is not itself a brace-less `if`.
- `MCHalf` in `values`: integers of two, three and four bits stand for those of
  8, 16 and 32. Each has values below and from the half range on, sums that wrap
  and values that a narrower one cuts off; `IntegerProofs` says that what happens at
  the half range does not depend on the width.
- `MaxStatements = 3` in `values`: one statement to bring a variable into the
  state that matters, one to bring a second, one to go wrong. `values_compound`
  needs one. The prologue and the 38 statements have each expression and
  statement form, with operands of equal and of different widths and signs,
  structs in structs, in calls and in enums.
- `Hygienic` in `compile`: a declaration is of a name that nothing visible has,
  or it hides one from further out directly in a function or block, and it does
  not read that name in its initializer. The parameters of a function have
  different names. The step of a `for` reads no name that has no value yet: TLC
  found that with a struct `x` the semantic phase takes the `x` of `let x = x` for
  the type and the generator for the new variable.

## What the violation runs show

1. `codegen_terminators`. `codegen_function_body` adds no terminator after the
   body, so a function that does not end in a `return` (a `void` function that
   just ends, or an `if` as the last statement) leaves its last block open.
   `codegen_while.cpp:22`: "Every block must end with a terminator instruction".
2. `values_compound`. `codegen_assign` computes `x op e` and stores `e`: after
   `a -= c` the variable `a` is `c`. The tests named "+=" and "-=" assign `0 += 5`
   and `10 -= 5`, which give 5 either way.
3. `compile_shadow`. In `fn f(x: E) { let x = 5; let y = x; }` the second `x`
   is an `E` to the semantic phase, whose `emplace` kept the parameter, and the
   `i32` of the `let` to the generator. The same happens to a loop variable
   after its loop (`sema_for` opens no scope, the lowered IR does) and to the
   parameters of an arrow. Two parameters of a function that have one name end the
   generator instead: only the first gets an entry in `named_args_info_inds`, and
   `codegen_function.cpp:78` asserts that each has one. `designv3.md:41` asks for
   the two phases to look names up in the same way.
4. `sema_asserts`. `Types::define_type` returns the type that has the name
   already; a function named like an enum has no return type and `sema_fn`
   asserts that it has one. The other way round nothing stops: an enum named like
   a function gives that function's type its members (`SemaGen.cpp:1600`), which
   go behind the parameters, and from then on a call needs as many arguments more.
   `DefinitionsStick` says what stays; that this does not is no run of its own.
5. `parser_operators`. `parse_bin_op` consumes an operator and then compares its
   precedence. When that of the call it is in is higher the operator is lost:
   `x - x * x - x;` is refused at the last `x`. So whatever falls back from a
   higher precedence after rising to it needs parentheses; what *is* accepted is
   grouped rightly. (`&&` is consumed too and has no precedence at all, so it is
   always lost; and `*p + 1` is `*(p + 1)`, for `parse_deref` parses a whole
   expression.)

What the rule "default" of `codegen` leaves out: the branch at the end of a
default is put by `codegen_switch` into the block the default *began* with. If
the default's statement was an `if`, a loop or a switch, the block it ended in
stays open, and the first one has two terminators.

## Proofs

The runs check instances of a handful of nodes; the theorems are about every
value of the constants. They are in eight modules:

| Module | About |
|---|---|
| `IntegerProofs` | `Ints`; with lemmas on recursive functions, folds and walks, for the others |
| `ScopeOpsProofs` | lemmas on each operator of `ScopeOps`, for the next and for `SemaProofs` |
| `ScopesProofs` | `Scopes`, its refinement of `LexicalEnv` included |
| `SemaProofs` | `Sema` |
| `CodegenProofs` | `Codegen` |
| `CompileProofs` | `Compile`, with the lemmas of `CodegenProofs` and `SemaProofs` |
| `ParserProofs` | `Parser`, with the functions of `Grammar` |
| `LexerProofs` | `Lexer` |

Where a property is not inductive by itself the invariant that carries it is
named below, with what it adds and why.

### Recursion

`ScopeOps` looks names up by recursive functions along the parents, and `Sema`
and `Codegen` fold over parameter lists. TLA+ defines such a function as a
CHOOSE, so before anything is proved of one it has to be shown to exist.
`IntegerProofs` does that without an induction rule: a set of naturals that
is not empty has a least element (`LeastNat`), so a claim that fails somewhere
fails somewhere first, and at its first failure it can be repaired from what
holds before. `WalkExists` and `FoldExists` are about walks down the indices and
folds over a sequence, `FoldInduct` carries a fact through a fold.
`ScopeOpsProofs` uses them to show that where every parent has a smaller index
than its child each lookup is what its definition says.

### The scope table

`ScopesProofs`, for all sets of names, types, values and return types and for
every `Reserve` and `MaxScopes`:

| Theorem | |
|---|---|
| `InvariantHolds` | `IInv`, below |
| `TypeCorrect` | `TypeOK` |
| `ChainHolds` | `ChainIsPushOrder` |
| `FirstDeclarationStays` | `FirstDeclarationWins`, the moves of the vector included |
| `ClosedScopesStay` | `ClosedScopesFrozen` |
| `LookupsAreSound` | `LInv`, below |
| `NoLookupDangles` | `NoDanglingWithinReserve` |
| `ScopesImplementLexicalEnv` | `ImplementsLexicalEnv`, the refinement |

`ChainIsPushOrder` by itself is not inductive: it is conditional on the vector
not having moved, and says nothing of the parents of closed scopes, to which a
push could otherwise add a freed one. The invariant is
`IInv == TypeOK /\ Linked /\ Flagged /\ Unmoved`: `Linked` says the open scopes
are increasing indices and the innermost one is `current` *unless* it is
`Freed`; `Flagged` that before the move the flags tell exactly the open scopes;
`Unmoved` that before the move no parent is `Freed` and the chain is whole.
`LInv` adds that every parent comes before its child, so that the walks end and
no lookup has met a freed pointer. The refinement follows step by step: what
each operation does to the views of the open scopes, a view being what the
recursive lookups give from there.

### The semantic phase

`SemaProofs`, for every set of nodes and every bound:

| Theorem | |
|---|---|
| `ContextsHold` | `ContextInv`: the context every open handler has on record, and the current one, are those of the innermost switch around |
| `CaseSeesItsSwitch` | `SwitchContextIsInnermost` |
| `WalksAreGood` | `WalkInv`, below |
| `SemaTypes` | `pos < 100 => TypeOK` |
| `ReachableNamesAreKnown` | `pos < 100 => NamesHaveKnownTypes` |
| `ReturnsSeeTheirFunction` | `pos < 100 => ExpectedReturnIsEnclosing` |
| `HandlersPutBack` | `HandlersRestore`, when `MaxNodes < 100` |
| `TypesAreKept` | `DefinitionsStick`, when `MaxNodes < 100` |

What `sema_switch` puts back comes from its frame, so `SwitchContextIsInnermost`
is inductive only with the same said of every frame. For the rest `WalkInv`
joins three structures that the handlers keep in step by hand: each value in a
scope has a type that the types map has and that is not the placeholder of
inference; a parent has a smaller index than its child; the current scope is the
one the innermost open handler pushed, the expected return type that of the
function at the bottom of the stack; and no frame of the stack refers to a scope
that is not there.

The last part of the module is about names. The *view* from a scope is where each
name that can be read from there was declared (`ViewWalk`: in the scope itself or
in what is seen from its parent). `FnShows`, `ExternShows`, `TypesShow`,
`SimpleShows`, `BlockShows`, `HeadsShow`, `ForShows`, `ArrowShows`, `CaseShows` and
`ExitShows` say for each handler what it does to the views and to the stack of open
handlers. `CompileProofs` builds on them.

The hundred is the code's: `Sema2.cpp:11` reserves room for 100 scopes, a node
pushes at most one, so a walk that has visited fewer than 100 nodes has not moved
the vector. Beyond that the code reads freed parents, and nothing could be
claimed. The runs visit at most six nodes, well within.

`TypesAreKept` does not say that the parameters of a function stay as they are,
because they do not: `sema_enum` gives its members to whatever `define_type`
returned, and when that is a function of the same name they end up behind its
parameters. What is proved is that those that were there keep their place and
type, and that no other statement adds any. `MembersAreAdded` is the lemma about
`set_enum_members`.

### The code generator

`CodegenProofs`, for every set of nodes, names and types, every `RuleSets` and
both bounds:

| Theorem | |
|---|---|
| `HandlersNestAlways` | `NestInv`, below |
| `HandlersRestoreAlways` | `HandlersRestore` |
| `TypesHold` | `TypeInv`: `TypeOK`, and the blocks that frames and the switch refer to are there |
| `CodegenTypes` | `TypeOK` |
| `BlocksAccountedFor` | `BlocksInv`, below |
| `AttachedOnceAlways` | `AttachedOnce` |
| `BlocksEnd` | `EndInv`, below |
| `OnlyInsertPointOpenAlways` | `OnlyInsertPointOpen` |
| `OnlyReturnsEndEarlyAlways` | `OnlyReturnsEndEarly` |
| `ControlFlows` | `FlowInv`, below |
| `StatementsAreSingleExitAlways` | `StatementsAreSingleExit` |
| `CodeAfterIsReachedAlways` | `CodeAfterIsReached` |

`HandlersRestore` speaks of the handler that returns, and what it returns with
depends on what its last child left. `NestInv` relates every open handler to the
one around it: `InsideMerge(f)` is what `merge_block_` is while the statements
inside a handler with frame `f` are generated, the next frame has just that on
record as what it found, and the last one says what is current. For an `if` one
more fact is needed, `OwnOrJoined`: it made its merge block because there was
none, or goes on in the one it found. `PushNests` and `PopNests` are the lemmas
for entering and leaving any handler; the rest is one step per action.

`AttachedOnce` is not inductive: a handler could attach a block that another one
still means to attach. `BlocksInv` adds whose business a block is: what two open
handlers await is disjoint, a handler's own two blocks are different, and all
are blocks of the function. `AttachedMore(bs, bs2, P)` says what the
instructions of a handler come to (the blocks `P` attached once more), with a
lemma for each of LLVM's operations; `PushAccounts`, `PopAccounts` and
`ReplaceAccounts` say that a handler may enter with new blocks, leave when it
has attached all it awaits, and go on when it has attached some.

`EndInv` is about structured programs, those that keep all four `Rules`. `Ended`
is what the two properties say of all blocks. It is not inductive, for a handler
that is about to branch from the insertion point has to find it open: `Here` says
that nothing but a return has ended it, unless the code is between the cases of
a switch, whose block `codegen_switch` has ended already, and that no open
handler awaits it, unless it is the block of a default, which the switch ends
itself. `Placed` says where that can be: a case is directly inside a switch, the
default the switch's frame awaits is the one its `switch_info_` has, and inside
a default there are only blocks. Each of the four rules is used, by name, in the
proof that the invariant goes through.

`FlowInv` is about structured programs too, and about the edges between blocks. A
statement's *region* is the blocks its handler has made and what it put into the
block it began in. `Stands` says of each open statement that its region has one
way out (`OneWay`), that the branches lead to the block code is inserted at
(`Leads`) and that this block is in the region. That is not inductive: the blocks
that an inner handler made before it generated its children are branched to
later. `Holds` says of any two open statements, one inside the other, that the
blocks the inner one goes on in are in the outer one or are where that goes on
itself; `Reaches`, that the blocks come to from the inner one's beginning (a loop's
body, an arm, a default) are led to within the outer one; `Quiet`, that blocks
not come to lead nowhere yet, so that moving there adds no way out. For a
switch, `Rooms` says that the `switch_info_` its cases find is the instruction it
has put into the block it was entered in; the dispatch to a case is added to that
instruction later (`codegen_case`), at a block the case's own region does not
have. Blocks and edges only ever get more, so a handler's step is summed up in
`Extends(bs, bs2, f, E)`: statement `f` has the edges `E` more. `PushRooms`,
`MoveRooms` and the lemmas by handler carry the invariant through. `Leads`
quantifies over the sets closed under the edges, which needs no recursion;
that `Reached`, a recursive function with as many rounds as there are blocks, comes
to a closed set is an argument by counting (each round that is not the last adds
a block), the lemma `LedToIsReached`.

### Both phases

`CompileProofs`, for every program:

| Theorem | |
|---|---|
| `HandlersMatchItems` | `IRInv`, below |
| `CaseFindsSwitchAlways` | `CaseFindsSwitch` |
| `PhasesAgree` | `AgreesOrReports`, when `Hygienic /\ MaxNodes < 100` |

`codegen_switch.cpp:68` asserts that there is a switch; what it rests on is a
check in the other phase (`switch_context_` in `sema_case`). Between the two is
the IR. A *shape* says of each open handler whether it is a switch. `IRInv` says
that there is a sequence of shapes, one before each item of the IR and one after
the last, that each is what the item makes of the one before, that the stack of
the semantic phase has the last shape, and that of the code generator the shape
before the item it is at; and in each phase a context or a switch is set as the
shape says. `SemaHandlers` and `GenHandlers` are the two lemmas, each over all
handlers of a phase, that a handler does to its stack what `After` says; a
handler that reports an error may not, but no item is handled after that. A
switch that is set is a record and not `None` only if its fields are numbers, so
`IRInv` also has the generator's `TypeInv`, on items that are what the semantic
phase makes (`ItemsAreTyped`).

`AgreesOrReports` compares two symbol tables that are never there at the same
time: when the code generator looks a name up, the scopes that the semantic phase
found it in are gone. What both are compared with is a *resolver*, which reads
nothing but the items of the IR. It knows where each name that can be read was
declared (`env`), and for each open handler what was known when its first child
began (`saved`) and what is read when it ends (`end`, the step of a `for`).
`Resolved(item, r)` is the resolver after an item, `Fits(item, r)` says that the
references the item records are what the resolver finds, and that what it declares
is new as `Hygienic` has it. `Layered` is what makes that worth something: only a
function and a block hide names, so inside any other handler all that was known
before it still is what it was (`Under`).

- `GenAt(r)`: the generator's map has no address but what the resolver knows, at
  the top level all of it, and the map each frame saved is within the resolver's.
  It may lack a name, for `codegen_if` and the others put their map back where
  the semantic phase goes on with the same scope; then looking it up is the
  error that the property lets it report. `GenResolves` is one lemma for every
  item.
- `SemaAt(r)`: the view from the current scope is the resolver's `env`, and the
  view from the scope that a function or a block returns to is what the resolver
  saved for it. `Compile` records what the step of a `for` reads when its init
  has been processed; `LookupsJoin` and `UnreadSeen` say that the condition and
  the step find the same there as where the code generator looks. Handler by
  handler (`SemaFn`, `SemaTypes`, `SemaSimples`, `SemaConds`, `SemaArms`,
  `SemaFor`, `SemaExit`) what is appended to the IR fits.
- `AgreeInv`: there is a resolver for each item of the IR, the last of them the
  one `SemaAt` speaks of, and the one at the item that the generator has come to
  the one `GenAt` speaks of. The semantic phase adds one at the end
  (`TrailGrows`), the code generator moves on by one.

Both hypotheses are needed. Without `Hygienic` the property is false:
`compile_shadow` has the counterexample. With 100 nodes or more the scope vector
may have moved, and a view from a scope may go through a freed parent. That the
walk of `Compile` is the one `SemaProofs` is about (`SameSema`) has to be shown,
for `Compile` instantiates `Sema` itself.

### The lexer

`LexerProofs`, for every file over every alphabet:

| Theorem | |
|---|---|
| `FileIsLexed` | `LexInv`, below |
| `LexerTypes` | `TypeOK` |
| `TokensTileTheFile` | `TokensTile` |
| `LinesAreRight` | `LinesRight` |
| `MatchesAreLongest` | `LongestMatch` |

`LexInv` is what `lex()` has achieved up to the cursor. What the properties leave
out, and their proofs need, is that no token goes past the cursor and none
overlaps the next: without it a newline could be counted and belong to a string
literal as well. Of line numbers it speaks only where one was set: that of the eof
token is left open. `EndOfScan` is the lemma under all of them: the loops that skip
characters of a class end, at the NUL at the latest.

### The parser

`ParserProofs`, for every set of tokens, files of every length, and every
function that parsing may start at:

| Theorem | |
|---|---|
| `BracketsAlwaysMatch` | a bracket consumed as a closing one closes the innermost open one, and a program that is accepted leaves none open, unless a slip was met |
| `CallsKeepFitting` | the invariant `ParserInv` |
| `GroupsByPrecedence` | a statement that is accepted and is a well-formed expression has the tree that its operators' precedences ask for |
| `ParserTypes` | `TypeOK`, the cursor within the file included |

Parsing may start at every function but the two inner loops
(`InputsAssumption`): these two close a brace that was opened before they begin,
so on their own they close one too many. `BracketsMatch` speaks of the list of
open brackets only. It is not inductive, because whether the next closing token
is the right one is up to what is on the C++ call stack. `ParserInv` says that
the two fit: run from here on, the rest of each function on the stack closes
exactly the brackets that are open, the innermost first, and nothing is left when
the last function has returned. Fitting is defined on the statements of a
function (`Path`): what follows a call finds the brackets as they were, the arms
of a branch fit alike, a loop's body leaves what it finds. Bodies are nested
three deep at most, so `Path0` to `Path3` need no recursion. Most of the module
is then `FunctionsFit`: every function of the grammar leaves the brackets as it
finds them, each with a lemma; and one lemma for each action keeps `ParserInv`.

`GroupsByPrecedence` compares two algorithms: `parse_bin_op`, which climbs
precedences by recursion and a loop, and the reference `Shifted`, which keeps a
stack of the operators that wait. Where the parser is in an expression is a
*place*: what it has just read, and the operators and opening parentheses that
wait for their right-hand side, which are those on its C++ call stack. `Agrees`
says of each place what the reference has then: after an operand the stack of the
reference is the one of the place; after a subexpression it has more on it, all
of which the tree has been given already (`Standing`) and all of which binds at
least as tightly as an operator that comes next. The invariant `GroupInv` is that
what is left to do leads (`Way`) from such a place to the end of the statement,
or that the reference has refused a token. The second part is needed because the parser
takes more than the reference does: calls, members, an expression without an operand,
an operator that is consumed and then dropped (`OperatorsKept`). Once such a token has been
consumed, a semicolon is still to come, so what has been read before it
is not well-formed. As with the brackets the lemmas are the functions of the
expression one by one (`FunctionsLead`), the reference token by token (`OpenShift`
to `DropShift`), and the actions. The fold of the reference is shown to read a
sequence token by token with `FoldInduct` of `IntegerProofs` (`ShiftedNext`).

### Integers

`IntegerProofs`, for every pair of widths:

| Theorem | |
|---|---|
| `WideningKeepsValue` | widened by the sign of its own type an integer keeps its value |
| `WrongSignMatters` | widened by the other sign it does exactly when it is below the half range |
| `SignedComparisonOfUnsigned` | a signed comparison of unsigned operands is right exactly when both or neither are below the half range |

The last two are why the slips `sign` and `unsigned` of `ValueCode` hide nothing
but what is wrong.

### Assumptions

Each is named in the module that declares the constants, and evaluated by the
runs:

| Assumption | Why the code justifies it |
|---|---|
| `ScopeOps`: `ReserveAssumption`, `NoneAssumption`, `UBAssumption`, `BuiltinsAssumption`; `Scopes`: `MaxScopesAssumption` | `None`, `UB` and `Freed` are marks and no values; builtin types have names; the vector is reallocated once at most within the bound |
| `Sema`: `DeclarationsAssumption` | what the parser makes of a declaration: a parameter's type is written out (`AstGen.cpp:1342-1363`) and a function's type has the function's name |
| `Sema`: `StatementsAssumption` | the statements are of the kinds that `Sema` has handlers for |
| `Sema`: `MarksAssumption` | `None` and `UB` are no types; `@_infer`, the name of the placeholder, is no identifier of the lexer |
| `Codegen`: `DeclarationsAssumption`, `StatementsAssumption`, `BuiltinTypesAssumption` | what the builders of `Sema2.cpp` put into a node; for programs that came through `Sema` this is proved (`ItemsAreTyped`) |
| `Compile`: `ProgramsAssumption` | the ones of `Sema`; names are strings; the step of a `for` is an expression or an assignment, and only the arrow of a case that is not the default has parameters (`parse_for`, `parse_case`, `parse_default`); `std::nullopt` is no `SwitchInfo` and no address |
| `BoundsAssumption` | the bounds are numbers |
| `Parser`: `InputsAssumption`, `TraceAssumption` | parsing does not start inside a brace that its function has not consumed; the tokens and the tree are recorded, for `GroupedByPrecedence`, where a statement is parsed |
| `Lexer`: `AlphabetsAssumption` | a file is a sequence of characters, of bounded length |

### Only model-checked

- The properties of `Values`: `ExprTypes`, `ValueCode` and `ValueMeaning` are
  recursive over expressions, by RECURSIVE operators.
- `EndsOrStalls` of `Parser`: liveness is out of the prover's reach.

## Not modelled

String literals, `size_of` and variable arguments; a function used as a value;
recursion of functions in `Values`; the driver's I/O and how it prints errors
and goes on; the nodes the parser makes, except for the grouping of operators;
`std::stoi` on a literal that does not fit. `cg_copy` and `cg_fixdown` are called
by nothing. `parse_namespace` is left out because `token.h` has no such token
type, and `parse_is` because nothing calls it. Types the generator has no LLVM
type for (`bool`, `i64`, `u64`) are modelled as what they are: a "Missing Type!"
error, or an abort where the result is unwrapped. What LLVM does with a module
after it is printed (emission, the target machine) is LLVM's.
`Name.cpp`, `Lookup.cpp`, the first generation (`ast`, `parser`, `sema`,
`codegen`) and the formatter are not in the CMake target: more than a quarter of
the lines under `src/src`, and not what the program is built from.

## Plan

Modelled, in the order of the plan: the scope table, the two phases' statement
handlers, their composition, the parser, the lexer, expressions, values and the
calling convention. What is left:

1. `Driver`: `main.cpp` with the results it unwraps after an error.
2. Strings and variable arguments in `ExprTypes` and `ValueCode`.
3. Loops inside the functions of `Values`, from the blocks of `Codegen`.
