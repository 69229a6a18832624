-------------------------------- MODULE Ints --------------------------------
(***************************************************************************)
(* LLVM's integers of fixed width, as codegen_binop.cpp, codegen_assign.cpp *)
(* and cg_division.cpp use them.  A width is given by its half range h: the *)
(* type has the bit patterns 0..2h - 1, and a signed reading of a pattern   *)
(* from h on is negative.  An i1 has h = 1, an i8 has h = 128.              *)
(***************************************************************************)
EXTENDS Integers

Patterns(h) == 0..2 * h - 1
SignedRange(h) == -h..h - 1

\* What a pattern stands for in a type of each sign.
Signed(n, h) == IF n < h THEN n ELSE n - 2 * h
Decode(n, h, signed) == IF signed THEN Signed(n, h) ELSE n

\* The pattern of an integer: CreateTrunc, and the wrapping of an operation.
Wrap(i, h) == i % (2 * h)

\* CreateSExt and CreateZExt from width h to width g.
SExt(n, h, g) == IF n < h THEN n ELSE n + 2 * g - 2 * h
ZExt(n, h, g) == n

\* CreateSExtOrTrunc and CreateZExtOrTrunc.
ExtOrTrunc(n, h, g, signed) ==
  IF g < h THEN Wrap(n, g) ELSE IF signed THEN SExt(n, h, g) ELSE ZExt(n, h, g)

\* Division rounds towards zero.
Magnitude(i) == IF i < 0 THEN -i ELSE i
Quotient(i, j) ==
  IF (i < 0) = (j < 0) THEN Magnitude(i) \div Magnitude(j)
                       ELSE -(Magnitude(i) \div Magnitude(j))

Divide(n, m, h, signed) ==
  Wrap(Quotient(Decode(n, h, signed), Decode(m, h, signed)), h)
=============================================================================
