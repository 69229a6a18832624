--------------------------- MODULE CodegenProofs ---------------------------
(***************************************************************************)
(* Proofs about module Codegen, for every set of nodes and names and every *)
(* bound.                                                                  *)
(*                                                                         *)
(* 1. A handler returns with the merge block and the switch that it was    *)
(* entered with.  The property speaks of one handler; what makes it true   *)
(* is a relation between all that are open.  A frame says what             *)
(* merge_block_ is while the statements inside it are generated; the frame *)
(* above was entered with just that, and the last frame says what          *)
(* merge_block_ is now.                                                    *)
(*                                                                         *)
(* 2. The generator keeps its type: TypeOK is inductive once the blocks    *)
(* that frames and the switch refer to are known to be there.              *)
(*                                                                         *)
(* 3. Each basic block is given to its function exactly once.  What has to *)
(* be added to AttachedOnce is whose business a block is: handlers that    *)
(* are open never share one they have not come to yet, and one handler's   *)
(* two blocks are different.                                               *)
(*                                                                         *)
(* 4. In structured programs each block is ended, by the handler that      *)
(* leaves it or by a return before that.  What has to be added is what the *)
(* block is like that code is inserted at: nothing but a return has ended  *)
(* it, except between the cases of a switch, and nobody else awaits it,    *)
(* except in a default.                                                    *)
(*                                                                         *)
(* 5. In structured programs a statement has one way out, and what comes   *)
(* after it is reached.  Blocks and edges only ever get more, so both are  *)
(* kept up for all open statements while their code grows.  What has to be *)
(* added: the blocks an inner statement branches to are inside the outer   *)
(* one, or where that goes on itself; a block that has been made and not   *)
(* come to is already led to and still leads nowhere; the instruction of a *)
(* switch is where its cases look for it, also when the switch is the      *)
(* first of a statement's instructions or is in a block that has been      *)
(* terminated before.                                                      *)
(***************************************************************************)
EXTENDS Codegen, SequenceTheorems, FiniteSetTheorems, IntegerProofs, TLAPS

\* A frame has the fields that say what the handlers inside it find.
IsFrame(f) ==
  {"k", "kids", "next", "alt", "own", "merge", "switch"} \subseteq DOMAIN f

\* The merge block inside a statement.
InsideMerge(f) ==
  IF f.k = "if" THEN f.next
  ELSE IF f.k \in {"else", "while", "case"} THEN f.merge
  ELSE None

\* An `if` makes its own merge block when there is none to join.
OwnOrJoined(f) ==
  f.k = "if" => IF f.own THEN f.merge = None ELSE f.next = f.merge

\* Frame f is that of a handler entered with merge block m and switch sw.
EnteredWith(f, m, sw) == f.merge = m /\ f.switch = sw

\* What merge_block_ and switch_info_ are inside f.
Inside(f, m, sw) == m = InsideMerge(f) /\ (f.k # "switch" => sw = f.switch)

Frames(s) == \A i \in 1..Len(s) : IsFrame(s[i]) /\ OwnOrJoined(s[i])

Nested(s) ==
  \A i \in 1..Len(s) : i > 1 => Inside(s[i - 1], s[i].merge, s[i].switch)

Innermost(s, m, sw) == Len(s) > 0 => Inside(s[Len(s)], m, sw)

HandlersNest(s, m, sw) ==
  (\E S : s \in Seq(S)) /\ Frames(s) /\ Nested(s) /\ Innermost(s, m, sw)

NestInv == HandlersNest(stack, merge, switch)

-----------------------------------------------------------------------------
(* Lemmas on the C++ stack.                                                 *)

LEMMA PushShape ==
  ASSUME NEW S, NEW s \in Seq(S), NEW f
  PROVE  /\ Append(s, f) \in Seq(S \cup {f})
         /\ Len(Append(s, f)) = Len(s) + 1
         /\ \A i \in 1..Len(s) : Append(s, f)[i] = s[i]
         /\ Append(s, f)[Len(s) + 1] = f
<1>1. s \in Seq(S \cup {f})
  OBVIOUS
<1>. QED  BY <1>1

LEMMA PopShape ==
  ASSUME NEW S, NEW s \in Seq(S), Len(s) > 0
  PROVE  /\ SubSeq(s, 1, Len(s) - 1) \in Seq(S)
         /\ Len(SubSeq(s, 1, Len(s) - 1)) = Len(s) - 1
         /\ \A i \in 1..(Len(s) - 1) : SubSeq(s, 1, Len(s) - 1)[i] = s[i]
<1>1. Len(s) \in Nat
  OBVIOUS
<1>. DEFINE n == Len(s) - 1
<1>2. n \in Int /\ 1 \in Int /\ n >= 0
  BY <1>1
<1>3. \A i \in 1..n : s[i] \in S
  BY <1>1
<1>. HIDE DEF n
<1>4. /\ SubSeq(s, 1, n) \in Seq(S)
      /\ Len(SubSeq(s, 1, n)) = IF 1 <= n THEN n - 1 + 1 ELSE 0
      /\ \A i \in 1..(n - 1 + 1) : SubSeq(s, 1, n)[i] = s[1 + i - 1]
  BY <1>2, <1>3, SubSeqProperties
<1>5. n - 1 + 1 = n /\ (~(1 <= n) => n = 0) /\ \A i \in 1..n : 1 + i - 1 = i
  BY <1>2
<1>6. Len(SubSeq(s, 1, n)) = n /\ \A i \in 1..n : SubSeq(s, 1, n)[i] = s[i]
  BY <1>2, <1>4, <1>5
<1>. QED  BY <1>4, <1>6 DEF n

(***************************************************************************)
(* Entering a handler keeps the nesting, when its frame has on record what *)
(* is current and what it makes current is what the frame says.            *)
(***************************************************************************)
LEMMA PushNests ==
  ASSUME NEW s, NEW m, NEW sw, HandlersNest(s, m, sw),
         NEW f, IsFrame(f), OwnOrJoined(f), Len(s) > 0 => EnteredWith(f, m, sw),
         NEW m2, NEW sw2, Inside(f, m2, sw2)
  PROVE  /\ HandlersNest(Append(s, f), m2, sw2)
         /\ Len(Append(s, f)) = Len(s) + 1
<1>. DEFINE t == Append(s, f)
<1>1. PICK S : s \in Seq(S)
  BY DEF HandlersNest
<1>2. /\ t \in Seq(S \cup {f})
      /\ Len(t) = Len(s) + 1
      /\ \A i \in 1..Len(s) : t[i] = s[i]
      /\ t[Len(s) + 1] = f
  BY <1>1, PushShape
<1>3. Len(s) \in Nat
  BY <1>1
<1>. HIDE DEF t
<1>4. Frames(t)
  BY <1>2, <1>3 DEF HandlersNest, Frames
<1>5. Nested(t)
  <2>. SUFFICES ASSUME NEW i \in 1..Len(t), i > 1
                PROVE  Inside(t[i - 1], t[i].merge, t[i].switch)
    BY DEF Nested
  <2>1. CASE i <= Len(s)
    BY <2>1, <1>2, <1>3 DEF HandlersNest, Nested
  <2>2. CASE i = Len(s) + 1
    <3>1. t[i - 1] = s[Len(s)] /\ t[i] = f /\ Len(s) > 0
      BY <2>2, <1>2, <1>3
    <3>. QED  BY <3>1 DEF HandlersNest, Innermost, EnteredWith
  <2>. QED  BY <2>1, <2>2, <1>2, <1>3
<1>6. Innermost(t, m2, sw2)
  BY <1>2, <1>3 DEF Innermost
<1>. QED  BY <1>2, <1>4, <1>5, <1>6 DEF HandlersNest, t

(***************************************************************************)
(* Leaving one keeps it, when what the frame has on record is current.     *)
(***************************************************************************)
LEMMA PopNests ==
  ASSUME NEW s, NEW m, NEW sw, HandlersNest(s, m, sw), s # <<>>
  PROVE  HandlersNest(SubSeq(s, 1, Len(s) - 1), s[Len(s)].merge, s[Len(s)].switch)
<1>. DEFINE t == SubSeq(s, 1, Len(s) - 1)
<1>1. PICK S : s \in Seq(S)
  BY DEF HandlersNest
<1>2. Len(s) \in Nat /\ Len(s) > 0
  BY <1>1
<1>3. /\ t \in Seq(S)
      /\ Len(t) = Len(s) - 1
      /\ \A i \in 1..(Len(s) - 1) : t[i] = s[i]
  BY <1>1, <1>2, PopShape
<1>. HIDE DEF t
<1>4. Frames(t)
  BY <1>2, <1>3 DEF HandlersNest, Frames
<1>5. Nested(t)
  <2>. SUFFICES ASSUME NEW i \in 1..Len(t), i > 1
                PROVE  Inside(t[i - 1], t[i].merge, t[i].switch)
    BY DEF Nested
  <2>1. t[i - 1] = s[i - 1] /\ t[i] = s[i] /\ i \in 1..Len(s)
    BY <1>2, <1>3
  <2>. QED  BY <2>1 DEF HandlersNest, Nested
<1>6. Innermost(t, s[Len(s)].merge, s[Len(s)].switch)
  <2>. SUFFICES ASSUME Len(t) > 0
                PROVE  Inside(t[Len(t)], s[Len(s)].merge, s[Len(s)].switch)
    BY DEF Innermost
  <2>1. t[Len(t)] = s[Len(s) - 1]
    BY <1>2, <1>3
  <2>. QED  BY <2>1, <1>2, <1>3 DEF HandlersNest, Nested
<1>. QED  BY <1>3, <1>4, <1>5, <1>6 DEF HandlersNest, t

(***************************************************************************)
(* A child more changes nothing a frame says.                              *)
(***************************************************************************)
LEMMA BegunNests ==
  ASSUME NestInv
  PROVE  HandlersNest(Begun, merge, switch) /\ Len(Begun) = Len(stack)
<1>1. PICK S : stack \in Seq(S)
  BY DEF NestInv, HandlersNest
<1>2. CASE stack = <<>> \/ Top.k \in ListKinds
  BY <1>2 DEF Begun, NestInv
<1>3. CASE ~(stack = <<>> \/ Top.k \in ListKinds)
  <2>. DEFINE f == [Top EXCEPT !.kids = @ + 1]
  <2>1. Len(stack) \in Nat /\ Len(stack) > 0
    BY <1>1, <1>3
  <2>2. IsFrame(Top) /\ OwnOrJoined(Top)
    BY <2>1 DEF NestInv, HandlersNest, Frames, Top
  <2>3. /\ IsFrame(f)
        /\ f.k = Top.k /\ f.next = Top.next /\ f.own = Top.own
        /\ f.merge = Top.merge /\ f.switch = Top.switch
    BY <2>2 DEF IsFrame
  <2>4. IsFrame(f) /\ OwnOrJoined(f)
    BY <2>2, <2>3 DEF OwnOrJoined
  <2>5. EnteredWith(f, Top.merge, Top.switch)
    BY <2>3 DEF EnteredWith
  <2>6. Inside(f, merge, switch)
    <3>1. Inside(Top, merge, switch)
      BY <2>1 DEF NestInv, HandlersNest, Innermost, Top
    <3>. QED  BY <3>1, <2>3 DEF Inside, InsideMerge
  <2>7. HandlersNest(Below, Top.merge, Top.switch)
    BY <1>3, PopNests DEF NestInv, Below, Top
  <2>8. Len(Below) = Len(stack) - 1
    BY <1>1, <2>1, PopShape DEF Below
  <2>9. HandlersNest(Append(Below, f), merge, switch) /\ Len(Append(Below, f)) = Len(Below) + 1
    <3>. HIDE DEF f
    <3>. QED  BY <2>4, <2>5, <2>6, <2>7, PushNests
  <2>10. Begun = Append(Below, f)
    BY <1>3 DEF Begun
  <2>. QED  BY <2>1, <2>8, <2>9, <2>10
<1>. QED  BY <1>2, <1>3

-----------------------------------------------------------------------------
(* Steps.  `Restored` is what HandlersRestore says of a handler that        *)
(* returns, `Goes` that a step keeps the invariant and does not shrink the  *)
(* stack unless it does that.                                               *)

Restored ==
  /\ merge' = Top.merge
  /\ switch' = Top.switch
  /\ Top.k \in ListKinds \cup {"for"} => values' = Top.values

Goes == NestInv' /\ (Len(stack') < Len(stack) => Restored)

\* An error changes none of the state the handlers share.
LEMMA StopGoes ==
  ASSUME NestInv, NEW how, Stop(how)
  PROVE  Goes
<1>1. stack' = stack /\ merge' = merge /\ switch' = switch
  BY DEF Stop
<1>2. Len(stack) \in Nat
  BY DEF NestInv, HandlersNest
<1>. QED  BY <1>1, <1>2 DEF Goes, NestInv

\* A statement without children.
LEMMA StayGoes ==
  ASSUME NestInv, stack' = stack \/ stack' = Begun, UNCHANGED <<merge, switch>>
  PROVE  Goes
<1>1. Len(stack) \in Nat
  BY DEF NestInv, HandlersNest
<1>. QED  BY <1>1, BegunNests DEF Goes, NestInv

\* What a handler does before it recurses.
LEMMA EnterGoes ==
  ASSUME NestInv,
         NEW f, IsFrame(f), OwnOrJoined(f), EnteredWith(f, merge, switch),
         stack' = Append(Begun, f), Inside(f, merge', switch')
  PROVE  Goes
<1>1. HandlersNest(Begun, merge, switch) /\ Len(Begun) = Len(stack)
  BY BegunNests
<1>2. HandlersNest(stack', merge', switch') /\ Len(stack') = Len(stack) + 1
  BY <1>1, PushNests
<1>3. Len(stack) \in Nat
  BY DEF NestInv, HandlersNest
<1>. QED  BY <1>2, <1>3 DEF Goes, NestInv

\* What it does when it returns.
LEMMA LeaveGoes ==
  ASSUME NestInv, stack # <<>>, stack' = Below, Restored
  PROVE  Goes
<1>1. HandlersNest(Below, Top.merge, Top.switch)
  BY PopNests DEF NestInv, Below, Top
<1>. QED  BY <1>1 DEF Goes, NestInv, Restored

\* The frame of the statement that is open says what is current.
LEMMA TopInside ==
  ASSUME NestInv, stack # <<>>
  PROVE  Inside(Top, merge, switch) /\ IsFrame(Top) /\ OwnOrJoined(Top)
<1>1. Len(stack) \in Nat /\ Len(stack) > 0
  BY DEF NestInv, HandlersNest
<1>. QED  BY <1>1 DEF NestInv, HandlersNest, Innermost, Frames, Top

LEMMA EnteringGoes ==
  ASSUME NestInv
  PROVE  /\ Block => Goes
         /\ \A node : If(node) => Goes
         /\ \A params : Arrow(params) => Goes
         /\ Else => Goes
         /\ \A node : While(node) => Goes
         /\ \A node : For(node) => Goes
         /\ \A node : Switch(node) => Goes
         /\ \A node : Case(node) => Goes
<1>1. ASSUME Block PROVE Goes
  <2>. DEFINE f == Enter("block")
  <2>1. IsFrame(f) /\ OwnOrJoined(f) /\ EnteredWith(f, merge, switch)
    BY DEF Enter, IsFrame, OwnOrJoined, EnteredWith
  <2>2. Inside(f, merge', switch') /\ stack' = Append(Begun, f)
    BY <1>1 DEF Block, Enter, Inside, InsideMerge
  <2>. QED  BY <2>1, <2>2, EnterGoes
<1>2. ASSUME NEW node, If(node) PROVE Goes
  <2>1. CASE \E how : Stop(how)
    BY <2>1, StopGoes
  <2>2. CASE ~\E how : Stop(how)
    <3>. DEFINE own == merge = None
                next == IF own THEN Len(bbs) + 3 ELSE merge
                f == [Enter("if") EXCEPT !.next = next, !.alt = Len(bbs) + 2, !.own = own]
    <3>1. merge' = next /\ switch' = switch /\ stack' = Append(Begun, f)
      BY <1>2, <2>2 DEF If
    <3>2. IsFrame(f) /\ EnteredWith(f, merge, switch)
      BY DEF Enter, IsFrame, EnteredWith
    <3>3. OwnOrJoined(f)
      BY DEF Enter, OwnOrJoined
    <3>4. Inside(f, merge', switch')
      BY <3>1 DEF Enter, Inside, InsideMerge
    <3>. QED  BY <3>1, <3>2, <3>3, <3>4, EnterGoes
  <2>. QED  BY <2>1, <2>2
<1>3. ASSUME NEW params, Arrow(params) PROVE Goes
  <2>1. CASE \E how : Stop(how)
    BY <2>1, StopGoes
  <2>2. CASE ~\E how : Stop(how)
    <3>. DEFINE f == [Enter("arrow") EXCEPT !.values = values']
    <3>1. merge' = None /\ switch' = switch /\ stack' = Append(Begun, f)
      BY <1>3, <2>2 DEF Arrow, Inject
    <3>2. IsFrame(f) /\ OwnOrJoined(f) /\ EnteredWith(f, merge, switch)
      BY DEF Enter, IsFrame, OwnOrJoined, EnteredWith
    <3>3. Inside(f, merge', switch')
      BY <3>1 DEF Enter, Inside, InsideMerge
    <3>. QED  BY <3>1, <3>2, <3>3, EnterGoes
  <2>. QED  BY <2>1, <2>2
<1>4. ASSUME Else PROVE Goes
  <2>. DEFINE f == [Enter("else") EXCEPT !.entry = Top.alt, !.terms = 0]
  <2>1. merge' = merge /\ switch' = switch /\ stack' = Append(Begun, f)
    BY <1>4 DEF Else
  <2>2. IsFrame(f) /\ OwnOrJoined(f) /\ EnteredWith(f, merge, switch)
    BY DEF Enter, IsFrame, OwnOrJoined, EnteredWith
  <2>3. Inside(f, merge', switch')
    BY <2>1 DEF Enter, Inside, InsideMerge
  <2>. QED  BY <2>1, <2>2, <2>3, EnterGoes
<1>5. ASSUME NEW node, While(node) PROVE Goes
  <2>1. CASE \E how : Stop(how)
    BY <2>1, StopGoes
  <2>2. CASE ~\E how : Stop(how)
    <3>. DEFINE f == [Enter("while") EXCEPT !.alt = Len(bbs) + 1, !.next = Len(bbs) + 3]
    <3>1. merge' = merge /\ switch' = switch /\ stack' = Append(Begun, f)
      BY <1>5, <2>2 DEF While, Loop
    <3>2. IsFrame(f) /\ OwnOrJoined(f) /\ EnteredWith(f, merge, switch)
      BY DEF Enter, IsFrame, OwnOrJoined, EnteredWith
    <3>3. Inside(f, merge', switch')
      BY <3>1 DEF Enter, Inside, InsideMerge
    <3>. QED  BY <3>1, <3>2, <3>3, EnterGoes
  <2>. QED  BY <2>1, <2>2
<1>6. ASSUME NEW node, For(node) PROVE Goes
  <2>1. CASE \E how : Stop(how)
    BY <2>1, StopGoes
  <2>2. CASE ~\E how : Stop(how)
    <3>. DEFINE f == [Enter("for") EXCEPT !.end = node.end,
                        !.alt = Len(bbs) + 1, !.next = Len(bbs) + 3]
    <3>1. merge' = None /\ switch' = switch /\ stack' = Append(Begun, f)
      BY <1>6, <2>2 DEF For, Loop, Enter
    <3>2. IsFrame(f) /\ OwnOrJoined(f) /\ EnteredWith(f, merge, switch)
      BY DEF Enter, IsFrame, OwnOrJoined, EnteredWith
    <3>3. Inside(f, merge', switch')
      BY <3>1 DEF Enter, Inside, InsideMerge
    <3>. QED  BY <3>1, <3>2, <3>3, EnterGoes
  <2>. QED  BY <2>1, <2>2
<1>7. ASSUME NEW node, Switch(node) PROVE Goes
  <2>1. CASE \E how : Stop(how)
    BY <2>1, StopGoes
  <2>2. CASE ~\E how : Stop(how)
    <3>. DEFINE f == [Enter("switch") EXCEPT !.next = Len(bbs) + 1, !.alt = Len(bbs) + 2]
    <3>1. merge' = None /\ stack' = Append(Begun, f)
      BY <1>7, <2>2 DEF Switch
    <3>2. IsFrame(f) /\ OwnOrJoined(f) /\ EnteredWith(f, merge, switch)
      BY DEF Enter, IsFrame, OwnOrJoined, EnteredWith
    <3>3. Inside(f, merge', switch')
      BY <3>1 DEF Enter, Inside, InsideMerge
    <3>. QED  BY <3>1, <3>2, <3>3, EnterGoes
  <2>. QED  BY <2>1, <2>2
<1>8. ASSUME NEW node, Case(node) PROVE Goes
  <2>1. CASE \E how : Stop(how)
    BY <2>1, StopGoes
  <2>2. CASE ~\E how : Stop(how)
    <3>. DEFINE kind == IF node.arrow THEN "case_arrow" ELSE "case"
                entered == [Enter(kind) EXCEPT !.next = switch.merge, !.default = node.default]
                f == [entered EXCEPT !.values = values']
    <3>1. /\ merge' = IF node.arrow THEN None ELSE merge
          /\ switch' = switch
          /\ stack' = Append(Begun, f)
      BY <1>8, <2>2 DEF Case, Inject
    <3>2. f.k = kind /\ IsFrame(f) /\ EnteredWith(f, merge, switch)
      BY DEF Enter, IsFrame, EnteredWith
    <3>3. kind \in {"case", "case_arrow"} /\ (kind = "case" <=> ~node.arrow)
      OBVIOUS
    <3>4. OwnOrJoined(f)
      BY <3>2, <3>3 DEF OwnOrJoined
    <3>5. Inside(f, merge', switch')
      BY <3>1, <3>2, <3>3 DEF EnteredWith, Inside, InsideMerge
    <3>. QED  BY <3>1, <3>2, <3>4, <3>5, EnterGoes
  <2>. QED  BY <2>1, <2>2
<1>. QED  BY <1>1, <1>2, <1>3, <1>4, <1>5, <1>6, <1>7, <1>8

LEMMA LeavingGoes ==
  ASSUME NestInv, Exit
  PROVE  Goes
<1>1. CASE ExitFor /\ Stop("error")
  BY <1>1, StopGoes
<1>2. CASE ~(ExitFor /\ Stop("error"))
  <2>1. stack # <<>> /\ stack' = Below
    BY <1>2 DEF Exit, ExitBlock, ExitElse, ExitIf, ExitWhile, ExitFor, ExitSwitch,
                ExitCase, Leaving
  <2>2. Inside(Top, merge, switch) /\ OwnOrJoined(Top)
    BY <2>1, TopInside
  <2>. USE DEF Inside, InsideMerge, Restored, ListKinds, Leaving
  <2>3. ASSUME ExitBlock PROVE Restored
    BY <2>2, <2>3 DEF ExitBlock
  <2>4. ASSUME ExitElse PROVE Restored
    BY <2>2, <2>4 DEF ExitElse
  <2>5. ASSUME ExitIf PROVE Restored
    BY <2>2, <2>5 DEF ExitIf, OwnOrJoined
  <2>6. ASSUME ExitWhile PROVE Restored
    BY <2>2, <2>6 DEF ExitWhile
  <2>7. ASSUME ExitFor PROVE Restored
    BY <1>2, <2>2, <2>7 DEF ExitFor
  <2>8. ASSUME ExitSwitch PROVE Restored
    BY <2>2, <2>8 DEF ExitSwitch
  <2>9. ASSUME ExitCase PROVE Restored
    BY <2>2, <2>9 DEF ExitCase
  <2>10. Restored
    BY <2>3, <2>4, <2>5, <2>6, <2>7, <2>8, <2>9 DEF Exit
  <2>. QED  BY <2>1, <2>10, LeaveGoes
<1>. QED  BY <1>1, <1>2

LEMMA TopLevelGoes ==
  ASSUME NestInv
  PROVE  /\ \A node : Fn(node) => Goes
         /\ \A node : ExternFn(node) => Goes
         /\ \A node : TypeDecl(node) => Goes
<1>1. ASSUME NEW node, Fn(node) PROVE Goes
  <2>1. CASE \E how : Stop(how)
    BY <2>1, StopGoes
  <2>2. CASE ~\E how : Stop(how)
    <3>. DEFINE f == [Enter("fn") EXCEPT !.merge = None, !.switch = None,
                        !.values = Added(node), !.first = 1, !.entry = 1, !.terms = 0]
    <3>1. merge' = None /\ switch' = None /\ stack = <<>> /\ stack' = <<f>>
      BY <1>1, <2>2 DEF Fn
    <3>2. IsFrame(f) /\ OwnOrJoined(f)
      BY DEF Enter, IsFrame, OwnOrJoined
    <3>3. Inside(f, merge', switch')
      BY <3>1 DEF Enter, Inside, InsideMerge
    <3>4. stack' = Append(stack, f) /\ Len(stack) = 0
      BY <3>1
    <3>5. HandlersNest(stack', merge', switch') /\ Len(stack') = Len(stack) + 1
      <4>. HIDE DEF f
      <4>1. Len(stack) > 0 => EnteredWith(f, merge, switch)
        BY <3>4
      <4>. QED  BY <3>2, <3>3, <3>4, <4>1, PushNests DEF NestInv
    <3>. QED  BY <3>4, <3>5 DEF Goes, NestInv
  <2>. QED  BY <2>1, <2>2
<1>2. ASSUME NEW node, ExternFn(node) PROVE Goes
  <2>1. CASE \E how : Stop(how)
    BY <2>1, StopGoes
  <2>2. CASE ~\E how : Stop(how)
    BY <1>2, <2>2, StayGoes DEF ExternFn
  <2>. QED  BY <2>1, <2>2
<1>3. ASSUME NEW node, TypeDecl(node) PROVE Goes
  <2>1. CASE \E how : Stop(how)
    BY <2>1, StopGoes
  <2>2. CASE ~\E how : Stop(how)
    BY <1>3, <2>2, StayGoes DEF TypeDecl
  <2>. QED  BY <2>1, <2>2
<1>. QED  BY <1>1, <1>2, <1>3

LEMMA StepGoes ==
  ASSUME NestInv, [Next]_vars
  PROVE  Goes
<1>1. CASE UNCHANGED vars
  BY <1>1, StayGoes DEF vars
<1>2. ASSUME NEW node, Simple(node) PROVE Goes
  <2>1. CASE Stop("error")
    BY <2>1, StopGoes
  <2>2. CASE ~Stop("error")
    BY <1>2, <2>2, StayGoes DEF Simple
  <2>. QED  BY <2>1, <2>2
<1>. QED  BY <1>1, <1>2, EnteringGoes, LeavingGoes, TopLevelGoes DEF Next

THEOREM HandlersNestAlways == Spec => []NestInv
<1>1. Init => NestInv
  <2>. SUFFICES ASSUME Init PROVE NestInv
    OBVIOUS
  <2>1. stack = <<>> /\ stack \in Seq({}) /\ Len(stack) = 0
    BY DEF Init
  <2>. QED  BY <2>1 DEF NestInv, HandlersNest, Frames, Nested, Innermost
<1>2. NestInv /\ [Next]_vars => NestInv'
  BY StepGoes DEF Goes
<1>. QED  BY <1>1, <1>2, PTL DEF Spec

(***************************************************************************)
(* Whatever statements are nested in a handler, when it returns            *)
(* LLVMFnInfo::merge_block_ and switch_info_ are those it was entered with *)
(* and the handlers that make a scope have put back the names.             *)
(***************************************************************************)
THEOREM HandlersRestoreAlways == Spec => HandlersRestore
<1>1. NestInv /\ [Next]_vars =>
        [out' = "run" /\ Len(stack') < Len(stack) =>
           /\ merge' = Top.merge
           /\ switch' = Top.switch
           /\ Top.k \in ListKinds \cup {"for"} => values' = Top.values]_vars
  BY StepGoes DEF Goes, Restored
<1>. QED  BY <1>1, HandlersNestAlways, PTL DEF Spec, HandlersRestore

-----------------------------------------------------------------------------
(* Types.  The blocks a frame or the switch refers to are blocks of the     *)
(* function, of which there are n: those a handler found when it was        *)
(* entered and those it goes on in.                                         *)

RefersSwitch(sw, n) == sw # None => sw.merge \in 0..n /\ sw.default \in 1..n

Found(f, n) == f.merge \in 0..n \cup {None} /\ RefersSwitch(f.switch, n)

GoesOn(f, n) ==
  /\ f.next \in 0..n /\ f.alt \in 0..n
  /\ f.k \in {"if", "switch"} => f.alt # 0
  /\ f.k \in {"while", "for", "switch"} \/ f.own => f.next # 0

Refers(f, n) == Found(f, n) /\ GoesOn(f, n)

FramesOK(s, n) ==
  s \in Seq(Frame) /\ Len(s) <= MaxDepth /\ \A i \in 1..Len(s) : Refers(s[i], n)

\* There is a block to insert at while a function is generated.
Inserting == stack # <<>> => ip # 0

TypeInv ==
  /\ TypeOK /\ FramesOK(stack, Len(bbs)) /\ RefersSwitch(switch, Len(bbs))
  /\ Inserting

\* A block is replaced.
With(bs, at, e) == [bs EXCEPT ![at] = e]

\* It is by a block, or there is none to replace.
LEMMA BlockTyped ==
  ASSUME NEW bs \in Seq(BB), NEW at, NEW e, at \in 1..Len(bs) => e \in BB
  PROVE  With(bs, at, e) \in Seq(BB) /\ Len(With(bs, at, e)) = Len(bs)
<1>. USE DEF With
<1>1. CASE at \in 1..Len(bs)
  BY <1>1, ExceptSeq
<1>2. CASE at \notin 1..Len(bs)
  <2>1. DOMAIN bs = 1..Len(bs)
    OBVIOUS
  <2>2. [bs EXCEPT ![at] = e] = bs
    BY <1>2, <2>1
  <2>. QED  BY <2>2
<1>. QED  BY <1>1, <1>2

LEMMA TerminatedTyped ==
  ASSUME NEW bs \in Seq(BB), NEW at, NEW to \in SUBSET Nat,
         NEW k \in {"br", "condbr", "switch", "ret"}
  PROVE  /\ With(bs, at, Terminated(bs[at], k, to)) \in Seq(BB)
         /\ Len(With(bs, at, Terminated(bs[at], k, to))) = Len(bs)
<1>. DEFINE e == Terminated(bs[at], k, to)
<1>1. ASSUME at \in 1..Len(bs) PROVE e \in BB
  <2>1. bs[at] \in BB
    BY <1>1
  <2>2. [k |-> k, to |-> to] \in Term
    BY DEF Term
  <2>3. Append(bs[at].terms, [k |-> k, to |-> to]) \in Seq(Term)
    BY <2>1, <2>2 DEF BB
  <2>. QED  BY <2>1, <2>3 DEF Terminated, BB
<1>. HIDE DEF e
<1>. QED  BY <1>1, BlockTyped DEF e

\* A br to a block that is not made (0 is none) names it all the same.
LEMMA BrTyped ==
  ASSUME NEW bs \in Seq(BB), NEW at, NEW to \in Nat
  PROVE  Br(bs, at, to) \in Seq(BB) /\ Len(Br(bs, at, to)) = Len(bs)
<1>. DEFINE k == "br"
            t == {to}
<1>1. t \in SUBSET Nat /\ k \in {"br", "condbr", "switch", "ret"}
  OBVIOUS
<1>2. Br(bs, at, to) = With(bs, at, Terminated(bs[at], k, t))
  BY DEF Br, With
<1>. HIDE DEF k, t
<1>3. /\ With(bs, at, Terminated(bs[at], k, t)) \in Seq(BB)
      /\ Len(With(bs, at, Terminated(bs[at], k, t))) = Len(bs)
  BY <1>1, TerminatedTyped
<1>. QED  BY <1>2, <1>3

LEMMA CondBrTyped ==
  ASSUME NEW bs \in Seq(BB), NEW at, NEW to \in SUBSET Nat
  PROVE  CondBr(bs, at, to) \in Seq(BB) /\ Len(CondBr(bs, at, to)) = Len(bs)
<1>. DEFINE k == "condbr"
<1>1. k \in {"br", "condbr", "switch", "ret"}
  OBVIOUS
<1>2. CondBr(bs, at, to) = With(bs, at, Terminated(bs[at], k, to))
  BY DEF CondBr, With
<1>. HIDE DEF k
<1>3. /\ With(bs, at, Terminated(bs[at], k, to)) \in Seq(BB)
      /\ Len(With(bs, at, Terminated(bs[at], k, to))) = Len(bs)
  BY <1>1, TerminatedTyped
<1>. QED  BY <1>2, <1>3

LEMMA AttachTyped ==
  ASSUME NEW bs \in Seq(BB), NEW b
  PROVE  Attach(bs, b) \in Seq(BB) /\ Len(Attach(bs, b)) = Len(bs)
<1>. DEFINE e == [bs[b] EXCEPT !.attached = @ + 1]
<1>1. ASSUME b \in 1..Len(bs) PROVE e \in BB
  <2>. DEFINE bb == bs[b]
  <2>1. bb \in BB
    BY <1>1
  <2>2. e = [bb EXCEPT !.attached = bb.attached + 1]
    OBVIOUS
  <2>. HIDE DEF bb
  <2>. QED  BY <2>1, <2>2 DEF BB
<1>2. Attach(bs, b) = With(bs, b, e)
  BY DEF Attach, With
<1>. HIDE DEF e
<1>. QED  BY <1>1, <1>2, BlockTyped

LEMMA AddCaseTyped ==
  ASSUME NEW bs \in Seq(BB), NEW b \in Nat
  PROVE  AddCase(bs, b) \in Seq(BB) /\ Len(AddCase(bs, b)) = Len(bs)
<1>. DEFINE e == WithCase(bs[switch.at], switch.term, b)
<1>1. ASSUME switch.at \in 1..Len(bs) PROVE e \in BB
  <2>. DEFINE old == bs[switch.at].terms
              t == switch.term
              u == [old[t] EXCEPT !.to = @ \cup {b}]
  <2>0. bs[switch.at] \in BB
    BY <1>1
  <2>1. bs[switch.at] \in BB /\ old \in Seq(Term)
    BY <2>0 DEF BB
  <2>2. [old EXCEPT ![t] = u] \in Seq(Term)
    <3>1. CASE t \in 1..Len(old)
      <4>1. old[t] \in Term
        BY <2>1, <3>1
      <4>2. u \in Term
        BY <4>1 DEF Term
      <4>. HIDE DEF u, old, t
      <4>. QED  BY <2>1, <3>1, <4>2, ExceptSeq
    <3>2. CASE t \notin 1..Len(old)
      <4>. HIDE DEF u, old, t
      <4>1. DOMAIN old = 1..Len(old)
        BY <2>1
      <4>2. [old EXCEPT ![t] = u] = old
        BY <2>1, <3>2, <4>1
      <4>. QED  BY <2>1, <4>2
    <3>. QED  BY <3>1, <3>2
  <2>3. e = [bs[switch.at] EXCEPT !.terms = [old EXCEPT ![t] = u]]
    BY DEF WithCase
  <2>. HIDE DEF u
  <2>. QED  BY <2>1, <2>2, <2>3 DEF BB
<1>2. AddCase(bs, b) = With(bs, switch.at, e)
  BY DEF AddCase, With
<1>. HIDE DEF e
<1>. QED  BY <1>1, <1>2, BlockTyped

LEMMA BlocksTyped ==
  ASSUME NEW bs \in Seq(BB), NEW new \in Seq({0, 1})
  PROVE  bs \o Blocks(new) \in Seq(BB) /\ Len(bs \o Blocks(new)) = Len(bs) + Len(new)
<1>1. Len(new) \in Nat /\ \A i \in 1..Len(new) : new[i] \in {0, 1}
  OBVIOUS
<1>2. <<>> \in Seq(Term)
  OBVIOUS
<1>3. \A i \in 1..Len(new) : [attached |-> new[i], terms |-> <<>>] \in BB
  BY <1>1, <1>2 DEF BB
<1>4. Blocks(new) \in Seq(BB) /\ Len(Blocks(new)) = Len(new)
  BY <1>1, <1>3 DEF Blocks
<1>. HIDE DEF Blocks
<1>. QED  BY <1>4

-----------------------------------------------------------------------------
(* Frames.                                                                  *)

LEMMA RefersMore ==
  ASSUME NEW f, NEW n \in Nat, NEW m \in Nat, n <= m, Refers(f, n)
  PROVE  Refers(f, m)
  BY DEF Refers, Found, GoesOn, RefersSwitch

LEMMA FramesGrow ==
  ASSUME NEW s, NEW n \in Nat, NEW m \in Nat, n <= m, FramesOK(s, n)
  PROVE  FramesOK(s, m)
  BY RefersMore DEF FramesOK

LEMMA FramesPush ==
  ASSUME NEW s, NEW n \in Nat, FramesOK(s, n), Len(s) < MaxDepth,
         NEW f \in Frame, Refers(f, n)
  PROVE  FramesOK(Append(s, f), n)
<1>1. s \in Seq(Frame) /\ Len(s) \in Nat
  BY DEF FramesOK
<1>2. /\ Append(s, f) \in Seq(Frame)
      /\ Len(Append(s, f)) = Len(s) + 1
      /\ \A i \in 1..Len(s) : Append(s, f)[i] = s[i]
      /\ Append(s, f)[Len(s) + 1] = f
  <2>1. Frame \cup {f} = Frame
    OBVIOUS
  <2>. QED  BY <1>1, <2>1, PushShape
<1>3. ASSUME NEW i \in 1..Len(Append(s, f)) PROVE Refers(Append(s, f)[i], n)
  <2>1. i \in 1..Len(s) \/ i = Len(s) + 1
    BY <1>1, <1>2
  <2>. QED  BY <1>2, <2>1 DEF FramesOK
<1>. QED  BY <1>1, <1>2, <1>3, BoundsAssumption DEF FramesOK

LEMMA FramesPop ==
  ASSUME NEW s, NEW n, FramesOK(s, n), s # <<>>
  PROVE  LET t == SubSeq(s, 1, Len(s) - 1)
         IN FramesOK(t, n) /\ Len(t) = Len(s) - 1 /\ Len(t) < MaxDepth
<1>. DEFINE t == SubSeq(s, 1, Len(s) - 1)
<1>1. s \in Seq(Frame) /\ Len(s) \in Nat /\ Len(s) > 0
  BY DEF FramesOK
<1>2. t \in Seq(Frame) /\ Len(t) = Len(s) - 1 /\ \A i \in 1..(Len(s) - 1) : t[i] = s[i]
  BY <1>1, PopShape
<1>. HIDE DEF t
<1>3. \A i \in 1..Len(t) : t[i] = s[i] /\ i \in 1..Len(s)
  BY <1>1, <1>2
<1>4. Len(t) < MaxDepth /\ Len(t) <= MaxDepth
  BY <1>1, <1>2, BoundsAssumption DEF FramesOK
<1>. QED  BY <1>2, <1>3, <1>4 DEF FramesOK, t

LEMMA TopTyped ==
  ASSUME TypeInv, stack # <<>>
  PROVE  Top \in Frame /\ Refers(Top, Len(bbs))
<1>1. stack \in Seq(Frame) /\ Len(stack) \in 1..Len(stack)
  BY DEF TypeInv, FramesOK
<1>. QED  BY <1>1 DEF TypeInv, FramesOK, Top

\* What statements begin with: the handler around them, one child further.
LEMMA BegunTyped ==
  ASSUME TypeInv, stack = <<>> \/ Top.k \in ListKinds \/ Top.kids \in {0, 1}
  PROVE  FramesOK(Begun, Len(bbs)) /\ Len(Begun) = Len(stack)
<1>1. CASE stack = <<>> \/ Top.k \in ListKinds
  BY <1>1 DEF Begun, TypeInv
<1>2. CASE ~(stack = <<>> \/ Top.k \in ListKinds)
  <2>. DEFINE f == Top
              g == [f EXCEPT !.kids = @ + 1]
  <2>1. f \in Frame /\ Refers(f, Len(bbs)) /\ f.kids \in {0, 1}
    BY <1>2, TopTyped
  <2>. HIDE DEF f
  <2>2. f.kids + 1 \in 0..2
    BY <2>1
  <2>3. g \in Frame
    BY <2>1, <2>2 DEF Frame
  <2>4. /\ g.k = f.k /\ g.own = f.own /\ g.next = f.next /\ g.alt = f.alt
        /\ g.merge = f.merge /\ g.switch = f.switch
    BY <2>1 DEF Frame
  <2>5. Refers(g, Len(bbs))
    <3>. HIDE DEF g
    <3>. QED  BY <2>1, <2>4 DEF Refers, Found, GoesOn
  <2>6. Begun = Append(Below, g)
    BY <1>2 DEF Begun, f
  <2>. HIDE DEF g
  <2>7. FramesOK(Below, Len(bbs)) /\ Len(Below) = Len(stack) - 1 /\ Len(Below) < MaxDepth
    BY <1>2, FramesPop DEF TypeInv, Below
  <2>8. Len(bbs) \in Nat /\ Len(stack) \in Nat
    BY DEF TypeInv, TypeOK
  <2>9. FramesOK(Append(Below, g), Len(bbs))
    BY <2>3, <2>5, <2>7, <2>8, FramesPush
  <2>10. Len(Append(Below, g)) = Len(Below) + 1
    BY <2>7 DEF FramesOK
  <2>. QED  BY <2>6, <2>7, <2>8, <2>9, <2>10
<1>. QED  BY <1>1, <1>2

\* A handler's frame on entry.
LEMMA EnterTyped ==
  ASSUME TypeInv, NEW k \in ListKinds \cup SingleKinds
  PROVE  /\ Enter(k) \in Frame /\ Found(Enter(k), Len(bbs))
         /\ Enter(k).k = k /\ Enter(k).next = 0 /\ Enter(k).alt = 0 /\ ~Enter(k).own
<1>. DEFINE done == IF ip = 0 THEN 0 ELSE Len(bbs[ip].terms)
<1>1. /\ bbs \in Seq(BB) /\ Len(bbs) \in Nat /\ ip \in 0..Len(bbs)
      /\ merge \in 0..Len(bbs) \cup {None} /\ switch \in SwitchInfo \cup {None}
      /\ values \in [Names -> Site \cup {None}]
      /\ RefersSwitch(switch, Len(bbs))
  BY DEF TypeInv, TypeOK
<1>2. done \in Nat
  <2>1. CASE ip = 0
    BY <2>1
  <2>2. CASE ip # 0
    <3>1. bbs[ip] \in BB
      BY <1>1, <2>2
    <3>. QED  BY <2>2, <3>1 DEF BB
  <2>. QED  BY <2>1, <2>2
<1>3. <<>> \in Seq(STRING) /\ Len(bbs) + 1 \in Nat /\ ip \in Nat /\ merge \in Nat \cup {None}
  BY <1>1
<1>4. Enter(k) = [k |-> k, kids |-> 0, next |-> 0, alt |-> 0, own |-> FALSE,
                  default |-> FALSE, end |-> <<>>,
                  merge |-> merge, switch |-> switch, values |-> values,
                  first |-> Len(bbs) + 1, entry |-> ip, terms |-> done]
  BY DEF Enter
<1>. HIDE DEF done
<1>5. Enter(k) \in Frame
  BY <1>1, <1>2, <1>3, <1>4 DEF Frame
<1>6. /\ Found(Enter(k), Len(bbs))
      /\ Enter(k).k = k /\ Enter(k).next = 0 /\ Enter(k).alt = 0 /\ ~Enter(k).own
  BY <1>1, <1>4 DEF Found
<1>. QED  BY <1>5, <1>6

-----------------------------------------------------------------------------
(* Names.                                                                   *)

Vals == [Names -> Site \cup {None}]

LEMMA LetTyped ==
  ASSUME NEW vals \in Vals, NEW node, pos \in Nat
  PROVE  LetValues(vals, node) \in Vals
<1>1. <<pos, 0>> \in Site
  BY DEF Site
<1>. QED  BY <1>1 DEF LetValues, Vals

LEMMA AddedTyped ==
  ASSUME values \in Vals, NEW node, pos \in Nat
  PROVE  Added(node) \in Vals
<1>1. <<pos, 0>> \in Site
  BY DEF Site
<1>. QED  BY <1>1 DEF Added, Vals

\* The parameters are named one after the other: it[s] is what the names stand
\* for after those in s.
LEMMA ParamsIterate ==
  ASSUME NEW vals \in Vals, NEW params \in Params, pos \in Nat
  PROVE  \E it :
           /\ WithParams(vals, params) = it[1..Len(params)]
           /\ it[{}] = vals
           /\ \A s \in SUBSET (1..Len(params)) :
                /\ it[s] \in Vals
                /\ s # {} =>
                     it[s] = [it[s \ {Max(s)}] EXCEPT ![params[Max(s)].n] = <<pos, Max(s)>>]
<1>. DEFINE n == Len(params)
            idx == [i \in DOMAIN params |-> i]
            Op(acc, i) == [acc EXCEPT ![params[i].n] = <<pos, i>>]
            step == [x \in Vals \X (1..n) |-> Op(x[1], x[2])]
            FoldStep(f, s) == IF s = {} THEN vals ELSE Op(f[s \ {Max(s)}], idx[Max(s)])
            iter == CHOOSE f : f = [s \in SUBSET DOMAIN idx |-> FoldStep(f, s)]
<1>1. n \in Nat /\ DOMAIN params = 1..n /\ DOMAIN idx = 1..n
  BY DEF Params
<1>2. ASSUME NEW a \in Vals, NEW i \in 1..n
      PROVE  Op(a, i) \in Vals
  <2>1. <<pos, i>> \in Site
    BY DEF Site
  <2>. QED  BY <2>1 DEF Vals
<1>3. \A a \in Vals, i \in 1..n : step[<<a, i>>] = Op(a, i)
  OBVIOUS
<1>4. WithParams(vals, params) = iter[DOMAIN idx]
  BY DEF WithParams, FoldLeftDomain, FoldLeft, MapThenFoldSet
<1>5. \A s \in SUBSET (1..n) : s # {} => Max(s) \in 1..n /\ idx[Max(s)] = Max(s)
  BY <1>1, MaxOfIndices
<1>6. \A s : s \in SUBSET (1..n) => s \ {Max(s)} \in SUBSET (1..n)
  OBVIOUS
<1>. HIDE DEF Op, step, n, idx
<1>7. \E f : f = [s \in SUBSET DOMAIN idx |-> FoldStep(f, s)]
  <2>1. PICK f : IsFold(f, n, vals, step)
    BY <1>1, FoldExists
  <2>2. \A s \in SUBSET (1..n) :
          f[s] = IF s = {} THEN vals ELSE step[<<f[s \ {Max(s)}], Max(s)>>]
    BY <2>1 DEF IsFold
  <2>3. \A s \in SUBSET (1..n) : f[s] \in Vals
    <3>1. f[{}] \in Vals
      BY <2>2
    <3>2. ASSUME NEW s \in SUBSET (1..n), s # {}, f[s \ {Max(s)}] \in Vals
          PROVE  f[s] \in Vals
      <4>1. f[s] = step[<<f[s \ {Max(s)}], Max(s)>>] /\ Max(s) \in 1..n
        BY <1>5, <2>2, <3>2
      <4>2. f[s] = Op(f[s \ {Max(s)}], Max(s))
        BY <1>3, <3>2, <4>1
      <4>. QED  BY <1>2, <3>2, <4>1, <4>2
    <3>. QED  BY <1>1, <3>1, <3>2, FoldInduct
  <2>4. \A s \in SUBSET (1..n) : f[s] = FoldStep(f, s)
    BY <1>3, <1>5, <1>6, <2>2, <2>3
  <2>5. f = [s \in SUBSET (1..n) |-> f[s]]
    BY <2>1 DEF IsFold
  <2>. HIDE DEF FoldStep
  <2>6. f = [s \in SUBSET DOMAIN idx |-> FoldStep(f, s)]
    BY <1>1, <2>4, <2>5
  <2>. QED  BY <2>6
<1>8. iter = [s \in SUBSET DOMAIN idx |-> FoldStep(iter, s)]
  <2>. HIDE DEF FoldStep
  <2>. QED  BY <1>7
<1>. HIDE DEF iter
<1>9. \A s \in SUBSET (1..n) : iter[s] = FoldStep(iter, s)
  <2>. HIDE DEF FoldStep
  <2>. QED  BY <1>1, <1>8
<1>10. \A s \in SUBSET (1..n) : iter[s] \in Vals
  <2>1. iter[{}] \in Vals
    BY <1>9
  <2>2. \A s \in SUBSET (1..n) : s # {} /\ iter[s \ {Max(s)}] \in Vals => iter[s] \in Vals
    BY <1>2, <1>5, <1>9
  <2>. QED  BY <1>1, <2>1, <2>2, FoldInduct
<1>11. \A s \in SUBSET (1..n) : s # {} =>
         iter[s] = [iter[s \ {Max(s)}] EXCEPT ![params[Max(s)].n] = <<pos, Max(s)>>]
  <2>. USE DEF Op
  <2>. QED  BY <1>5, <1>9
<1>12. iter[{}] = vals
  BY <1>9
<1>. WITNESS iter
<1>. QED  BY <1>1, <1>4, <1>10, <1>11, <1>12 DEF n

LEMMA ParamsTyped ==
  ASSUME NEW vals \in Vals, NEW params \in Params, pos \in Nat
  PROVE  WithParams(vals, params) \in Vals
<1>. DEFINE n == Len(params)
<1>1. PICK it : /\ WithParams(vals, params) = it[1..n]
                /\ \A s \in SUBSET (1..n) : it[s] \in Vals
  BY ParamsIterate
<1>. HIDE DEF n
<1>2. 1..n \in SUBSET (1..n)
  OBVIOUS
<1>. QED  BY <1>1, <1>2

\* Parameters with names of their own: each name stands for its parameter.
LEMMA ParamsGiven ==
  ASSUME NEW vals \in Vals, NEW params \in Params, pos \in Nat,
         \A i, j \in 1..Len(params) : i # j => params[i].n # params[j].n,
         NEW m \in Names
  PROVE  /\ \A i \in 1..Len(params) : params[i].n = m => WithParams(vals, params)[m] = <<pos, i>>
         /\ (\A i \in 1..Len(params) : params[i].n # m) => WithParams(vals, params)[m] = vals[m]
<1>. DEFINE n == Len(params)
            Holds(f, s) == /\ \A i \in s : params[i].n = m => f[m] = <<pos, i>>
                           /\ (\A i \in s : params[i].n # m) => f[m] = vals[m]
<1>1. PICK it : /\ WithParams(vals, params) = it[1..n]
                /\ it[{}] = vals
                /\ \A s \in SUBSET (1..n) :
                     /\ it[s] \in Vals
                     /\ s # {} =>
                          it[s] = [it[s \ {Max(s)}] EXCEPT ![params[Max(s)].n] = <<pos, Max(s)>>]
  BY ParamsIterate
<1>2. n \in Nat
  BY DEF Params
<1>. HIDE DEF n
<1>. DEFINE good == [s \in SUBSET (1..n) |-> Holds(it[s], s)]
            yes == {TRUE}
<1>3. Holds(it[{}], {})
  BY <1>1
<1>4. ASSUME NEW s \in SUBSET (1..n), s # {}, Holds(it[s \ {Max(s)}], s \ {Max(s)})
      PROVE  Holds(it[s], s)
  <2>. DEFINE k == Max(s)
              f == it[s \ {k}]
  <2>1. k \in s
    BY <1>2, <1>4, MaxOfIndices
  <2>2. f \in Vals /\ it[s] = [f EXCEPT ![params[k].n] = <<pos, k>>]
    BY <1>1, <1>4
  <2>3. Holds(f, s \ {k})
    BY <1>4
  <2>. HIDE DEF k, f
  <2>4. \A x \in Names : it[s][x] = IF x = params[k].n THEN <<pos, k>> ELSE f[x]
    BY <2>2 DEF Vals
  <2>5. \A i \in s : i # k => params[i].n # params[k].n
    BY <2>1 DEF n
  <2>. QED  BY <2>1, <2>3, <2>4, <2>5
<1>. HIDE DEF Holds
<1>5. \A s \in SUBSET (1..n) : good[s] = TRUE <=> Holds(it[s], s)
  OBVIOUS
<1>6. good[{}] \in yes
  BY <1>3, <1>5
<1>7. \A s \in SUBSET (1..n) : s # {} /\ good[s \ {Max(s)}] \in yes => good[s] \in yes
  <2>1. \A s \in SUBSET (1..n) : s \ {Max(s)} \in SUBSET (1..n)
    OBVIOUS
  <2>. HIDE DEF good
  <2>. QED  BY <1>4, <1>5, <2>1
<1>. HIDE DEF good, yes
<1>8. \A s \in SUBSET (1..n) : good[s] \in yes
  BY <1>2, <1>6, <1>7, FoldInduct
<1>9. Holds(it[1..n], 1..n)
  <2>1. 1..n \in SUBSET (1..n)
    OBVIOUS
  <2>. USE DEF yes
  <2>. QED  BY <1>5, <1>8, <2>1
<1>. QED  BY <1>1, <1>9 DEF Holds, n

-----------------------------------------------------------------------------
(* Steps.                                                                   *)

\* What holds of the blocks, the insert point and the switch.
CodeOK(bs, at, m, sw) ==
  /\ bs \in Seq(BB) /\ at \in 0..Len(bs) /\ m \in 0..Len(bs) \cup {None}
  /\ sw \in SwitchInfo \cup {None} /\ RefersSwitch(sw, Len(bs))

\* What the builders put into the nodes that declare names.
IsProto(node) == node.n \in TypeNames /\ node.params \in Params
IsCase(node) == node.params \in Params /\ node.default \in BOOLEAN

LEMMA NodesAreTyped ==
  /\ \A node \in FnNodes \cup ExternNodes : IsProto(node)
  /\ \A node \in TypeNodes : node.entered \subseteq TypeNames
  /\ ArrowParams \subseteq Params
  /\ \A node \in ForNodes : node.end \in Seq(STRING)
  /\ \A node \in CaseNodes : IsCase(node)
BY DeclarationsAssumption, StatementsAssumption DEF IsProto, IsCase

\* A handler that succeeds.
Goods ==
  /\ CodeOK(bbs', ip', merge', switch')
  /\ values' \in Vals /\ lltypes' \subseteq TypeNames
  /\ FramesOK(stack', Len(bbs')) /\ Inserting' /\ out' = "run"

LEMMA TypedNow ==
  ASSUME TypeInv
  PROVE  /\ CodeOK(bbs, ip, merge, switch) /\ values \in Vals
         /\ FramesOK(stack, Len(bbs)) /\ lltypes \subseteq TypeNames
         /\ pos \in Nat /\ Len(bbs) \in Nat /\ Len(stack) \in Nat
         /\ Inserting
  BY DEF TypeInv, TypeOK, CodeOK, Vals

LEMMA VisitTyped ==
  ASSUME TypeInv, Visiting, Goods \/ \E how \in {"error", "abort"} : Stop(how)
  PROVE  TypeInv'
<1>1. rules' \subseteq Rules /\ pos' \in 0..MaxNodes
  BY BoundsAssumption DEF Visiting, TypeInv, TypeOK
<1>2. CASE Goods
  BY <1>1, <1>2 DEF Goods, CodeOK, TypeInv, TypeOK, FramesOK, Vals
<1>3. CASE \E how \in {"error", "abort"} : Stop(how)
  BY <1>1, <1>3 DEF Stop, TypeInv, TypeOK, FramesOK, Inserting
<1>. QED  BY <1>2, <1>3

LEMMA LeaveTyped ==
  ASSUME TypeInv, UNCHANGED <<rules, pos>>, Goods \/ \E how \in {"error", "abort"} : Stop(how)
  PROVE  TypeInv'
<1>1. rules' \subseteq Rules /\ pos' \in 0..MaxNodes
  BY DEF TypeInv, TypeOK
<1>2. CASE Goods
  BY <1>1, <1>2 DEF Goods, CodeOK, TypeInv, TypeOK, FramesOK, Vals
<1>3. CASE \E how \in {"error", "abort"} : Stop(how)
  BY <1>1, <1>3 DEF Stop, TypeInv, TypeOK, FramesOK, Inserting
<1>. QED  BY <1>2, <1>3

\* What a handler does before it recurses: its frame goes on top.
LEMMA PushTyped ==
  ASSUME TypeInv, stack = <<>> \/ Top.k \in ListKinds \/ Top.kids \in {0, 1},
         Len(stack) < MaxDepth, NEW n \in Nat, Len(bbs) <= n,
         NEW f \in Frame, Refers(f, n)
  PROVE  FramesOK(Append(Begun, f), n)
<1>1. FramesOK(Begun, Len(bbs)) /\ Len(Begun) < MaxDepth /\ Len(bbs) \in Nat
  BY BegunTyped, TypedNow
<1>2. FramesOK(Begun, n)
  BY <1>1, FramesGrow
<1>. QED  BY <1>1, <1>2, FramesPush

LEMMA RetTyped ==
  ASSUME NEW bs \in Seq(BB), NEW at
  PROVE  /\ [bs EXCEPT ![at] = Terminated(@, "ret", {})] \in Seq(BB)
         /\ Len([bs EXCEPT ![at] = Terminated(@, "ret", {})]) = Len(bs)
<1>. DEFINE k == "ret"
            t == {}
<1>1. t \in SUBSET Nat /\ k \in {"br", "condbr", "switch", "ret"}
  OBVIOUS
<1>2. [bs EXCEPT ![at] = Terminated(bs[at], k, t)] = With(bs, at, Terminated(bs[at], k, t))
  BY DEF With
<1>. HIDE DEF k, t
<1>3. /\ With(bs, at, Terminated(bs[at], k, t)) \in Seq(BB)
      /\ Len(With(bs, at, Terminated(bs[at], k, t))) = Len(bs)
  BY <1>1, TerminatedTyped
<1>. QED  BY <1>2, <1>3 DEF k, t

LEMMA SwitchTyped ==
  ASSUME NEW bs \in Seq(BB), NEW at, NEW to \in Nat
  PROVE  /\ [bs EXCEPT ![at] = Terminated(@, "switch", {to})] \in Seq(BB)
         /\ Len([bs EXCEPT ![at] = Terminated(@, "switch", {to})]) = Len(bs)
<1>. DEFINE k == "switch"
            t == {to}
<1>1. t \in SUBSET Nat /\ k \in {"br", "condbr", "switch", "ret"}
  OBVIOUS
<1>2. [bs EXCEPT ![at] = Terminated(bs[at], k, t)] = With(bs, at, Terminated(bs[at], k, t))
  BY DEF With
<1>. HIDE DEF k, t
<1>3. /\ With(bs, at, Terminated(bs[at], k, t)) \in Seq(BB)
      /\ Len(With(bs, at, Terminated(bs[at], k, t))) = Len(bs)
  BY <1>1, TerminatedTyped
<1>. QED  BY <1>2, <1>3 DEF k, t

\* The frame of a handler that makes no blocks.
LEMMA IdleFrame ==
  ASSUME TypeInv, NEW k \in {"block", "arrow", "else", "case", "case_arrow", "fn"}
  PROVE  /\ Enter(k) \in Frame /\ Found(Enter(k), Len(bbs))
         /\ Refers(Enter(k), Len(bbs))
         /\ Enter(k).k = k /\ ~Enter(k).own
  BY EnterTyped, TypedNow DEF ListKinds, SingleKinds, Refers, GoesOn

\* Where a statement may begin.
LEMMA PlaceTyped ==
  ASSUME StmtExpected
  PROVE  stack = <<>> \/ Top.k \in ListKinds \/ Top.kids \in {0, 1}
  BY DEF StmtExpected

LEMMA SimpleTyped ==
  ASSUME TypeInv, NEW node, Simple(node)
  PROVE  TypeInv'
<1>1. CASE Stop("error")
  BY <1>1, VisitTyped DEF Simple
<1>2. CASE ~Stop("error")
  <2>1. /\ Visiting /\ StmtExpected /\ out = "run"
        /\ values' = LetValues(values, node)
        /\ bbs' = IF node.k = "return"
                  THEN [bbs EXCEPT ![ip] = Terminated(@, "ret", {})] ELSE bbs
        /\ stack' = Begun
        /\ UNCHANGED <<ip, merge, switch, lltypes, out>>
    BY <1>2 DEF Simple, Visiting
  <2>2. bbs' \in Seq(BB) /\ Len(bbs') = Len(bbs)
    BY <2>1, TypedNow, RetTyped DEF CodeOK
  <2>3. CodeOK(bbs', ip', merge', switch')
    BY <2>1, <2>2, TypedNow DEF CodeOK
  <2>4. FramesOK(stack', Len(bbs'))
    BY <2>1, <2>2, BegunTyped, PlaceTyped
  <2>5. values' \in Vals
    BY <2>1, LetTyped, TypedNow
  <2>6. Goods
    BY <2>1, <2>3, <2>4, <2>5, TypedNow DEF Goods, Inserting, StmtExpected
  <2>. QED  BY <2>1, <2>6, VisitTyped
<1>. QED  BY <1>1, <1>2

LEMMA BlockTypes ==
  ASSUME TypeInv
  PROVE  /\ Block => TypeInv'
         /\ \A params \in Params : Arrow(params) => TypeInv'
<1>1. ASSUME Block PROVE TypeInv'
  <2>1. /\ Visiting /\ StmtExpected /\ out = "run" /\ Len(stack) < MaxDepth
        /\ merge' = None
        /\ stack' = Append(Begun, Enter("block"))
        /\ UNCHANGED <<bbs, ip, switch, values, lltypes, out>>
    BY <1>1 DEF Block, Entering, Visiting
  <2>2. Enter("block") \in Frame /\ Refers(Enter("block"), Len(bbs))
    BY IdleFrame
  <2>3. FramesOK(stack', Len(bbs'))
    <3>. DEFINE f == Enter("block")
    <3>. HIDE DEF f
    <3>1. Len(bbs) \in Nat /\ Len(bbs) <= Len(bbs)
      BY TypedNow
    <3>2. f \in Frame /\ Refers(f, Len(bbs))
      BY <2>2 DEF f
    <3>3. FramesOK(Append(Begun, f), Len(bbs))
      BY <2>1, <3>1, <3>2, PushTyped, PlaceTyped
    <3>. QED  BY <2>1, <3>3 DEF f
  <2>4. CodeOK(bbs', ip', merge', switch')
    BY <2>1, TypedNow DEF CodeOK
  <2>5. Goods
    BY <2>1, <2>3, <2>4, TypedNow DEF Goods, Inserting, StmtExpected
  <2>. QED  BY <2>1, <2>5, VisitTyped
<1>2. ASSUME NEW params \in Params, Arrow(params) PROVE TypeInv'
  <2>1. CASE Stop("abort")
    BY <1>2, <2>1, VisitTyped DEF Arrow, Entering
  <2>2. CASE ~Stop("abort")
    <3>. DEFINE e == Enter("arrow")
                f == [e EXCEPT !.values = values']
    <3>1. /\ Visiting /\ out = "run" /\ Len(stack) < MaxDepth
          /\ stack # <<>> /\ Top.kids = 0
          /\ merge' = None
          /\ values' = WithParams(values, params)
          /\ stack' = Append(Begun, f)
          /\ UNCHANGED <<bbs, ip, switch, lltypes, out>>
      BY <1>2, <2>2 DEF Arrow, Entering, Visiting, Inject
    <3>2. values' \in Vals
      BY <3>1, ParamsTyped, TypedNow
    <3>3. e \in Frame /\ Refers(e, Len(bbs))
      BY IdleFrame
    <3>. HIDE DEF e
    <3>4. f \in Frame /\ Refers(f, Len(bbs))
      BY <3>2, <3>3 DEF Frame, Refers, Found, GoesOn, Vals
    <3>. HIDE DEF f
    <3>5. Len(bbs) \in Nat /\ Len(bbs) <= Len(bbs)
      BY TypedNow
    <3>6. FramesOK(stack', Len(bbs'))
      BY <3>1, <3>4, <3>5, PushTyped
    <3>7. CodeOK(bbs', ip', merge', switch')
      BY <3>1, TypedNow DEF CodeOK
    <3>8. Goods
      BY <3>1, <3>2, <3>6, <3>7, TypedNow DEF Goods, Inserting
    <3>. QED  BY <3>1, <3>8, VisitTyped
  <2>. QED  BY <2>1, <2>2
<1>. QED  BY <1>1, <1>2

LEMMA IfTyped ==
  ASSUME TypeInv, NEW node, If(node)
  PROVE  TypeInv'
<1>1. CASE \E how \in {"error", "abort"} : Stop(how)
  BY <1>1, VisitTyped DEF If, Entering
<1>2. CASE ~\E how \in {"error", "abort"} : Stop(how)
  <2>. DEFINE own == merge = None
              n == Len(bbs)
              bs == CondBr(bbs, ip, {n + 1, n + 2})
              new == IF own THEN <<1, 0, 0>> ELSE <<1, 0>>
              e == Enter("if")
              f == [e EXCEPT !.next = merge', !.alt = n + 2, !.own = own]
  <2>1. /\ Visiting /\ StmtExpected /\ out = "run" /\ Len(stack) < MaxDepth
        /\ bbs' = bs \o Blocks(new)
        /\ ip' = n + 1
        /\ merge' = IF own THEN n + 3 ELSE merge
        /\ stack' = Append(Begun, f)
        /\ UNCHANGED <<switch, values, lltypes, out>>
    BY <1>2 DEF If, Entering, Visiting, IfBlocks
  <2>2. bs \in Seq(BB) /\ Len(bs) = n /\ n \in Nat
    BY TypedNow, CondBrTyped DEF CodeOK
  <2>3. new \in Seq({0, 1}) /\ Len(new) = IF own THEN 3 ELSE 2
    <3>1. CASE own
      BY <3>1
    <3>2. CASE ~own
      BY <3>2
    <3>. QED  BY <3>1, <3>2
  <2>4. e \in Frame /\ Found(e, n) /\ e.k = "if"
    BY EnterTyped DEF SingleKinds
  <2>. HIDE DEF bs, new, e
  <2>5. bbs' \in Seq(BB) /\ Len(bbs') = IF own THEN n + 3 ELSE n + 2
    BY <2>1, <2>2, <2>3, BlocksTyped
  <2>6. merge' \in 0..Len(bbs') /\ merge' \in Nat
    BY <2>1, <2>2, <2>5, TypedNow DEF CodeOK
  <2>7. f \in Frame
    <3>1. own \in BOOLEAN /\ n + 2 \in Nat
      BY <2>2
    <3>. HIDE DEF own, n
    <3>. QED  BY <2>4, <2>6, <3>1 DEF Frame
  <2>8. Refers(f, Len(bbs'))
    <3>1. Found(e, Len(bbs'))
      BY <2>2, <2>4, <2>5 DEF Found, RefersSwitch
    <3>2. /\ f.k = "if" /\ f.next = merge' /\ f.alt = n + 2 /\ (f.own => own)
          /\ f.merge = e.merge /\ f.switch = e.switch
      BY <2>4 DEF Frame
    <3>3. n + 2 \in 0..Len(bbs') /\ n + 2 # 0
      BY <2>2, <2>5
    <3>4. own => merge' # 0
      BY <2>1, <2>2
    <3>. HIDE DEF f, own
    <3>5. f.own => f.next # 0
      BY <3>2, <3>4
    <3>. QED  BY <2>6, <3>1, <3>2, <3>3, <3>5 DEF Refers, Found, GoesOn
  <2>. HIDE DEF f
  <2>9. FramesOK(stack', Len(bbs'))
    <3>1. Len(bbs') \in Nat /\ Len(bbs) <= Len(bbs')
      BY <2>2, <2>5
    <3>. QED  BY <2>1, <2>7, <2>8, <3>1, PushTyped, PlaceTyped
  <2>10. CodeOK(bbs', ip', merge', switch')
    BY <2>1, <2>2, <2>5, <2>6, TypedNow DEF CodeOK, RefersSwitch
  <2>11. Goods
    BY <2>1, <2>2, <2>9, <2>10, TypedNow DEF Goods, Inserting
  <2>. QED  BY <2>1, <2>11, VisitTyped
<1>. QED  BY <1>1, <1>2

\* The end of a branch of an `if`, and the beginning of the other.
LEMMA ElseBegunTyped ==
  ASSUME TypeInv, stack # <<>>
  PROVE  ElseBegun(bbs, Top) \in Seq(BB) /\ Len(ElseBegun(bbs, Top)) = Len(bbs)
<1>1. Top.next \in Nat
  BY TopTyped, TypedNow DEF Refers, GoesOn
<1>2. Br(bbs, ip, Top.next) \in Seq(BB) /\ Len(Br(bbs, ip, Top.next)) = Len(bbs)
  BY <1>1, BrTyped, TypedNow DEF CodeOK
<1>. QED  BY <1>2, AttachTyped DEF ElseBegun

LEMMA ElseTyped ==
  ASSUME TypeInv, Else
  PROVE  TypeInv'
<1>. DEFINE e == Enter("else")
            f == [e EXCEPT !.entry = Top.alt, !.terms = 0]
<1>1. /\ Visiting /\ out = "run" /\ Len(stack) < MaxDepth
      /\ stack # <<>> /\ Top.k = "if" /\ Top.kids = 1
      /\ bbs' = ElseBegun(bbs, Top)
      /\ ip' = Top.alt
      /\ stack' = Append(Begun, f)
      /\ UNCHANGED <<merge, switch, values, lltypes, out>>
  BY DEF Else, Entering, Visiting
<1>2. bbs' \in Seq(BB) /\ Len(bbs') = Len(bbs)
  BY <1>1, ElseBegunTyped
<1>3. Len(bbs) \in Nat /\ Top.alt \in 0..Len(bbs) /\ Top.alt \in Nat /\ Top.alt # 0
  BY <1>1, TopTyped, TypedNow DEF Refers, GoesOn
<1>4. e \in Frame /\ Refers(e, Len(bbs))
  BY IdleFrame
<1>. HIDE DEF e
<1>5. f \in Frame /\ Refers(f, Len(bbs))
  BY <1>3, <1>4 DEF Frame, Refers, Found, GoesOn
<1>. HIDE DEF f
<1>6. FramesOK(stack', Len(bbs'))
  BY <1>1, <1>2, <1>3, <1>5, PushTyped
<1>7. CodeOK(bbs', ip', merge', switch')
  BY <1>1, <1>2, <1>3, TypedNow DEF CodeOK
<1>8. Goods
  BY <1>1, <1>3, <1>6, <1>7, TypedNow DEF Goods, Inserting
<1>. QED  BY <1>1, <1>8, VisitTyped

LEMMA LoopTyped ==
  ASSUME TypeInv, StmtExpected, Len(stack) < MaxDepth,
         NEW f0 \in Frame, Found(f0, Len(bbs)), f0.k \in {"while", "for"}, ~f0.own,
         Loop(f0)
  PROVE  /\ bbs' \in Seq(BB) /\ Len(bbs') = Len(bbs) + 3
         /\ ip' \in 0..Len(bbs') /\ ip' # 0
         /\ FramesOK(stack', Len(bbs'))
<1>. DEFINE n == Len(bbs)
            bs == Br(bbs, ip, n + 1)
            new == <<1, 1, 0>>
            f == [f0 EXCEPT !.alt = n + 1, !.next = n + 3]
<1>1. /\ bbs' = CondBr(bs \o Blocks(new), n + 1, {n + 2, n + 3})
      /\ ip' = n + 2
      /\ stack' = Append(Begun, f)
  BY DEF Loop, LoopBlocks
<1>2. n \in Nat
  BY TypedNow
<1>3. bs \in Seq(BB) /\ Len(bs) = n
  BY <1>2, TypedNow, BrTyped DEF CodeOK
<1>4. new \in Seq({0, 1}) /\ Len(new) = 3
  OBVIOUS
<1>. HIDE DEF bs, new
<1>5. bs \o Blocks(new) \in Seq(BB) /\ Len(bs \o Blocks(new)) = n + 3
  BY <1>2, <1>3, <1>4, BlocksTyped
<1>6. {n + 2, n + 3} \in SUBSET Nat
  BY <1>2
<1>7. bbs' \in Seq(BB) /\ Len(bbs') = n + 3
  BY <1>1, <1>5, <1>6, CondBrTyped
<1>8. f \in Frame
  <2>. DEFINE a == n + 1
              b == n + 3
  <2>1. a \in Nat /\ b \in Nat
    BY <1>2
  <2>2. f = [f0 EXCEPT !.alt = a, !.next = b]
    OBVIOUS
  <2>. HIDE DEF a, b, f
  <2>. QED  BY <2>1, <2>2 DEF Frame
<1>9. Refers(f, n + 3)
  <2>1. Found(f0, n + 3)
    BY <1>2 DEF Found, RefersSwitch
  <2>2. /\ f.k = f0.k /\ f.next = n + 3 /\ f.alt = n + 1
        /\ f.merge = f0.merge /\ f.switch = f0.switch
    BY DEF Frame
  <2>3. n + 3 \in 0..n + 3 /\ n + 1 \in 0..n + 3 /\ n + 3 # 0 /\ n + 1 # 0
    BY <1>2
  <2>. HIDE DEF f, n
  <2>. QED  BY <2>1, <2>2, <2>3 DEF Refers, Found, GoesOn
<1>. HIDE DEF f
<1>10. FramesOK(stack', n + 3)
  <2>1. n + 3 \in Nat /\ Len(bbs) <= n + 3
    BY <1>2
  <2>. QED  BY <1>1, <1>8, <1>9, <2>1, PushTyped, PlaceTyped
<1>. QED  BY <1>1, <1>2, <1>7, <1>10

LEMMA WhileTyped ==
  ASSUME TypeInv, NEW node, While(node)
  PROVE  TypeInv'
<1>1. CASE \E how \in {"error", "abort"} : Stop(how)
  BY <1>1, VisitTyped DEF While, Entering
<1>2. CASE ~\E how \in {"error", "abort"} : Stop(how)
  <2>. DEFINE f == Enter("while")
  <2>1. /\ Visiting /\ StmtExpected /\ out = "run" /\ Len(stack) < MaxDepth
        /\ Loop(f)
        /\ UNCHANGED <<merge, switch, values, lltypes, out>>
    BY <1>2 DEF While, Entering, Visiting
  <2>2. f \in Frame /\ Found(f, Len(bbs)) /\ f.k \in {"while", "for"} /\ ~f.own
    BY EnterTyped DEF SingleKinds
  <2>. HIDE DEF f
  <2>3. /\ bbs' \in Seq(BB) /\ Len(bbs') = Len(bbs) + 3
        /\ ip' \in 0..Len(bbs') /\ ip' # 0
        /\ FramesOK(stack', Len(bbs'))
    BY <2>1, <2>2, LoopTyped
  <2>4. CodeOK(bbs', ip', merge', switch')
    BY <2>1, <2>3, TypedNow DEF CodeOK, RefersSwitch
  <2>5. Goods
    BY <2>1, <2>3, <2>4, TypedNow DEF Goods, Inserting
  <2>. QED  BY <2>1, <2>5, VisitTyped
<1>. QED  BY <1>1, <1>2

LEMMA ForTyped ==
  ASSUME TypeInv, NEW node, node.end \in Seq(STRING), For(node)
  PROVE  TypeInv'
<1>1. CASE \E how \in {"error", "abort"} : Stop(how)
  BY <1>1, VisitTyped DEF For, Entering
<1>2. CASE ~\E how \in {"error", "abort"} : Stop(how)
  <2>. DEFINE e == Enter("for")
              f == [e EXCEPT !.end = node.end]
  <2>1. /\ Visiting /\ StmtExpected /\ out = "run" /\ Len(stack) < MaxDepth
        /\ Loop(f)
        /\ values' = LetValues(values, node.init)
        /\ merge' = None
        /\ UNCHANGED <<switch, lltypes, out>>
    BY <1>2 DEF For, Entering, Visiting
  <2>2. e \in Frame /\ Found(e, Len(bbs)) /\ e.k = "for" /\ ~e.own
    BY EnterTyped DEF SingleKinds
  <2>. HIDE DEF e
  <2>3. f \in Frame /\ Found(f, Len(bbs)) /\ f.k \in {"while", "for"} /\ ~f.own
    <3>. DEFINE x == node.end
    <3>1. x \in Seq(STRING)
      OBVIOUS
    <3>2. f = [e EXCEPT !.end = x]
      OBVIOUS
    <3>. HIDE DEF x, f
    <3>. QED  BY <2>2, <3>1, <3>2 DEF Frame, Found
  <2>. HIDE DEF f
  <2>4. /\ bbs' \in Seq(BB) /\ Len(bbs') = Len(bbs) + 3
        /\ ip' \in 0..Len(bbs') /\ ip' # 0
        /\ FramesOK(stack', Len(bbs'))
    BY <2>1, <2>3, LoopTyped
  <2>5. CodeOK(bbs', ip', merge', switch')
    BY <2>1, <2>4, TypedNow DEF CodeOK, RefersSwitch
  <2>6. values' \in Vals
    BY <2>1, LetTyped, TypedNow
  <2>7. Goods
    BY <2>1, <2>4, <2>5, <2>6, TypedNow DEF Goods, Inserting
  <2>. QED  BY <2>1, <2>7, VisitTyped
<1>. QED  BY <1>1, <1>2

LEMMA SwitchTypes ==
  ASSUME TypeInv, NEW node, Switch(node)
  PROVE  TypeInv'
<1>1. CASE \E how \in {"error", "abort"} : Stop(how)
  BY <1>1, VisitTyped DEF Switch, Entering
<1>2. CASE ~\E how \in {"error", "abort"} : Stop(how)
  <2>. DEFINE n == Len(bbs)
              bs == [bbs EXCEPT ![ip] = Terminated(@, "switch", {n + 2})]
              new == <<0, 0>>
              e == Enter("switch")
              f == [e EXCEPT !.next = n + 1, !.alt = n + 2]
              sw == [merge |-> n + 1, default |-> n + 2,
                     at |-> ip, term |-> Len(bbs[ip].terms) + 1]
  <2>1. /\ Visiting /\ StmtExpected /\ out = "run" /\ Len(stack) < MaxDepth
        /\ bbs' = bs \o Blocks(new)
        /\ merge' = None /\ switch' = sw
        /\ stack' = Append(Begun, f)
        /\ UNCHANGED <<ip, values, lltypes, out>>
    BY <1>2 DEF Switch, Entering, Visiting
  <2>2. n \in Nat /\ ip \in 1..n /\ bbs \in Seq(BB)
    BY <2>1, TypedNow DEF CodeOK, Inserting, StmtExpected
  <2>3. bs \in Seq(BB) /\ Len(bs) = n
    <3>1. n + 2 \in Nat
      BY <2>2
    <3>. QED  BY <2>2, <3>1, SwitchTyped
  <2>4. new \in Seq({0, 1}) /\ Len(new) = 2
    OBVIOUS
  <2>5. e \in Frame /\ Found(e, n) /\ e.k = "switch" /\ ~e.own
    BY EnterTyped DEF ListKinds
  <2>6. sw \in SwitchInfo
    <3>1. bbs[ip] \in BB
      BY <2>2
    <3>2. Len(bbs[ip].terms) + 1 \in Nat
      BY <3>1 DEF BB
    <3>. QED  BY <2>2, <3>2 DEF SwitchInfo
  <2>. HIDE DEF bs, new, e
  <2>7. bbs' \in Seq(BB) /\ Len(bbs') = n + 2
    BY <2>1, <2>2, <2>3, <2>4, BlocksTyped
  <2>8. f \in Frame /\ Refers(f, n + 2)
    <3>. DEFINE a == n + 1
                b == n + 2
    <3>1. a \in Nat /\ b \in Nat /\ a \in 0..b /\ a # 0 /\ b # 0 /\ n <= b
      BY <2>2
    <3>2. f = [e EXCEPT !.next = a, !.alt = b]
      OBVIOUS
    <3>. HIDE DEF a, f
    <3>3. f \in Frame
      BY <2>5, <3>1, <3>2 DEF Frame
    <3>4. /\ f.k = "switch" /\ f.next = a /\ f.alt = b
          /\ f.merge = e.merge /\ f.switch = e.switch
      BY <2>5, <3>2 DEF Frame
    <3>5. Found(e, b)
      BY <2>2, <2>5, <3>1 DEF Found, RefersSwitch
    <3>. QED  BY <3>1, <3>3, <3>4, <3>5 DEF Refers, Found, GoesOn
  <2>. HIDE DEF f
  <2>9. FramesOK(stack', Len(bbs'))
    <3>1. n + 2 \in Nat /\ Len(bbs) <= n + 2
      BY <2>2
    <3>. QED  BY <2>1, <2>7, <2>8, <3>1, PushTyped, PlaceTyped
  <2>10. RefersSwitch(switch', Len(bbs'))
    BY <2>1, <2>2, <2>7 DEF RefersSwitch
  <2>. HIDE DEF sw
  <2>11. CodeOK(bbs', ip', merge', switch')
    BY <2>1, <2>2, <2>6, <2>7, <2>10 DEF CodeOK
  <2>12. Goods
    BY <2>1, <2>2, <2>9, <2>11, TypedNow DEF Goods, Inserting
  <2>. QED  BY <2>1, <2>12, VisitTyped
<1>. QED  BY <1>1, <1>2

LEMMA CaseTyped ==
  ASSUME TypeInv, NEW node, IsCase(node), Case(node)
  PROVE  TypeInv'
<1>1. CASE \E how \in {"error", "abort"} : Stop(how)
  BY <1>1, VisitTyped DEF Case, Entering
<1>2. CASE ~\E how \in {"error", "abort"} : Stop(how)
  <2>. DEFINE n == Len(bbs)
              kind == IF node.arrow THEN "case_arrow" ELSE "case"
              e == Enter(kind)
              entered == [e EXCEPT !.next = switch.merge, !.default = node.default]
              f == [entered EXCEPT !.values = values']
              new == <<1>>
              bs == IF node.default THEN bbs ELSE bbs \o Blocks(new)
  <2>1. /\ Visiting /\ StmtExpected /\ out = "run" /\ Len(stack) < MaxDepth
        /\ switch # None
        /\ bbs' = AddCase(bs, CaseBlock(node))
        /\ ip' = CaseBlock(node)
        /\ values' = WithParams(values, node.params)
        /\ stack' = Append(Begun, f)
        /\ merge' = IF node.arrow THEN None ELSE merge
        /\ UNCHANGED <<switch, lltypes, out>>
    BY <1>2 DEF Case, Entering, Visiting, Inject
  <2>2. /\ n \in Nat /\ bbs \in Seq(BB)
        /\ switch.merge \in 0..n /\ switch.default \in 1..n
    BY <2>1, TypedNow DEF CodeOK, RefersSwitch
  <2>3. node.params \in Params /\ node.default \in BOOLEAN
    BY DEF IsCase
  <2>4. bs \in Seq(BB) /\ Len(bs) \in Nat /\ n <= Len(bs)
        /\ CaseBlock(node) \in 1..Len(bs)
    <3>1. CASE node.default
      BY <2>2, <3>1 DEF CaseBlock
    <3>2. CASE ~node.default
      <4>1. new \in Seq({0, 1}) /\ Len(new) = 1
        OBVIOUS
      <4>. HIDE DEF new
      <4>2. bs \in Seq(BB) /\ Len(bs) = n + 1
        BY <2>2, <3>2, <4>1, BlocksTyped
      <4>. QED  BY <2>2, <3>2, <4>2 DEF CaseBlock
    <3>. QED  BY <3>1, <3>2
  <2>5. e \in Frame /\ Refers(e, n) /\ e.k = kind /\ ~e.own
    <3>1. kind \in {"block", "arrow", "else", "case", "case_arrow", "fn"}
      OBVIOUS
    <3>. HIDE DEF kind
    <3>. QED  BY <3>1, IdleFrame
  <2>6. values' \in Vals
    BY <2>1, <2>3, ParamsTyped, TypedNow
  <2>7. kind \notin {"if", "switch", "while", "for"}
    OBVIOUS
  <2>. HIDE DEF bs, e, kind
  <2>8. bbs' \in Seq(BB) /\ Len(bbs') = Len(bs)
    BY <2>1, <2>4, AddCaseTyped
  <2>9. f \in Frame /\ Refers(f, n)
    <3>. DEFINE to == switch.merge
                d == node.default
                v == values'
    <3>1. to \in Nat /\ to \in 0..n /\ d \in BOOLEAN /\ v \in Vals
      BY <2>2, <2>3, <2>6
    <3>2. f = [[e EXCEPT !.next = to, !.default = d] EXCEPT !.values = v]
      OBVIOUS
    <3>. HIDE DEF to, d, v, f
    <3>3. f \in Frame
      BY <2>5, <3>1, <3>2 DEF Frame, Vals
    <3>4. /\ f.k = kind /\ f.own = e.own /\ f.next = to /\ f.alt = e.alt
          /\ f.merge = e.merge /\ f.switch = e.switch
      BY <2>5, <3>2 DEF Frame
    <3>. QED  BY <2>5, <2>7, <3>1, <3>3, <3>4 DEF Refers, Found, GoesOn
  <2>. HIDE DEF f
  <2>10. FramesOK(stack', Len(bbs'))
    <3>1. Refers(f, Len(bs))
      BY <2>2, <2>4, <2>9, RefersMore
    <3>. QED  BY <2>1, <2>4, <2>8, <2>9, <3>1, PushTyped, PlaceTyped
  <2>11. CodeOK(bbs', ip', merge', switch')
    BY <2>1, <2>2, <2>4, <2>8, TypedNow DEF CodeOK, RefersSwitch
  <2>12. Goods
    BY <2>1, <2>4, <2>6, <2>10, <2>11, TypedNow DEF Goods, Inserting
  <2>. QED  BY <2>1, <2>12, VisitTyped
<1>. QED  BY <1>1, <1>2

\* A function begins, with one block.
LEMMA FnTyped ==
  ASSUME TypeInv, NEW node, IsProto(node), Fn(node)
  PROVE  TypeInv'
<1>1. CASE Stop("error") \/ Stop("abort")
  BY <1>1, VisitTyped DEF Fn
<1>2. CASE ~(Stop("error") \/ Stop("abort"))
  <2>. DEFINE e == Enter("fn")
              f == [e EXCEPT !.merge = None, !.switch = None,
                      !.values = Added(node), !.first = 1, !.entry = 1, !.terms = 0]
              none == <<>>
              new == <<1>>
  <2>1. /\ Visiting /\ stack = <<>> /\ out = "run"
        /\ lltypes' = lltypes \cup {node.n}
        /\ values' = WithParams(Added(node), node.params)
        /\ bbs' = Blocks(new) /\ ip' = 1 /\ merge' = None /\ switch' = None
        /\ stack' = <<f>> /\ UNCHANGED out
    BY <1>2 DEF Fn, Visiting
  <2>2. node.n \in TypeNames /\ node.params \in Params
    BY DEF IsProto
  <2>3. Added(node) \in Vals /\ values' \in Vals
    BY <2>1, <2>2, AddedTyped, ParamsTyped, TypedNow
  <2>4. /\ new \in Seq({0, 1}) /\ Len(new) = 1
        /\ none \in Seq(BB) /\ Len(none) = 0
    OBVIOUS
  <2>5. Blocks(new) = none \o Blocks(new)
    BY <2>4 DEF Blocks
  <2>6. e \in Frame /\ e.k = "fn" /\ ~e.own /\ e.next = 0 /\ e.alt = 0
    BY EnterTyped DEF ListKinds
  <2>. HIDE DEF new, none, e
  <2>7. bbs' \in Seq(BB) /\ Len(bbs') = 1
    <3>1. none \o Blocks(new) \in Seq(BB) /\ Len(none \o Blocks(new)) = Len(none) + Len(new)
      BY <2>4, BlocksTyped
    <3>2. Len(none) + Len(new) = 1
      BY <2>4
    <3>. QED  BY <2>1, <2>5, <3>1, <3>2
  <2>8. f \in Frame /\ Refers(f, 1)
    <3>. DEFINE v == Added(node)
    <3>1. f = [e EXCEPT !.merge = None, !.switch = None,
                 !.values = v, !.first = 1, !.entry = 1, !.terms = 0]
      OBVIOUS
    <3>2. v \in Vals
      BY <2>3
    <3>. HIDE DEF f, v
    <3>3. f \in Frame
      BY <2>6, <3>1, <3>2 DEF Frame, Vals
    <3>4. /\ f.k = "fn" /\ f.own = e.own /\ f.next = 0 /\ f.alt = 0
          /\ f.merge = None /\ f.switch = None
      BY <2>6, <3>1 DEF Frame
    <3>. QED  BY <2>6, <3>3, <3>4 DEF Refers, Found, GoesOn, RefersSwitch
  <2>. HIDE DEF f
  <2>9. FramesOK(stack', Len(bbs'))
    <3>1. stack' \in Seq(Frame) /\ Len(stack') = 1 /\ stack'[1] = f
      BY <2>1, <2>8
    <3>. QED  BY <2>7, <2>8, <3>1, BoundsAssumption DEF FramesOK
  <2>10. CodeOK(bbs', ip', merge', switch')
    BY <2>1, <2>7 DEF CodeOK, RefersSwitch
  <2>11. Goods
    BY <2>1, <2>2, <2>3, <2>9, <2>10, TypedNow DEF Goods, Inserting
  <2>. QED  BY <2>1, <2>11, VisitTyped
<1>. QED  BY <1>1, <1>2

LEMMA DeclTyped ==
  ASSUME TypeInv
  PROVE  /\ \A node : IsProto(node) /\ ExternFn(node) => TypeInv'
         /\ \A node : node.entered \subseteq TypeNames /\ TypeDecl(node) => TypeInv'
<1>1. ASSUME NEW node, IsProto(node), ExternFn(node) PROVE TypeInv'
  <2>1. CASE Stop("error")
    BY <1>1, <2>1, VisitTyped DEF ExternFn
  <2>2. CASE ~Stop("error")
    <3>1. /\ Visiting /\ out = "run"
          /\ lltypes' = lltypes \cup {node.n} /\ values' = Added(node)
          /\ UNCHANGED <<bbs, ip, merge, switch, stack, out>>
      BY <1>1, <2>2 DEF ExternFn, Visiting
    <3>2. node.n \in TypeNames
      BY <1>1 DEF IsProto
    <3>3. CodeOK(bbs', ip', merge', switch') /\ Inserting' /\ FramesOK(stack', Len(bbs'))
      BY <3>1, TypedNow DEF CodeOK, Inserting
    <3>4. Goods
      BY <3>1, <3>2, <3>3, AddedTyped, TypedNow DEF Goods
    <3>. QED  BY <3>1, <3>4, VisitTyped
  <2>. QED  BY <2>1, <2>2
<1>2. ASSUME NEW node, node.entered \subseteq TypeNames, TypeDecl(node) PROVE TypeInv'
  <2>1. CASE Stop("error")
    BY <1>2, <2>1, VisitTyped DEF TypeDecl
  <2>2. CASE ~Stop("error")
    <3>1. /\ Visiting /\ out = "run"
          /\ lltypes' = lltypes \cup node.entered
          /\ UNCHANGED <<bbs, ip, merge, switch, values, stack, out>>
      BY <1>2, <2>2 DEF TypeDecl, Visiting
    <3>2. node.entered \subseteq TypeNames
      BY <1>2
    <3>3. CodeOK(bbs', ip', merge', switch') /\ Inserting' /\ FramesOK(stack', Len(bbs'))
      BY <3>1, TypedNow DEF CodeOK, Inserting
    <3>4. Goods
      BY <3>1, <3>2, <3>3, TypedNow DEF Goods
    <3>. QED  BY <3>1, <3>4, VisitTyped
  <2>. QED  BY <2>1, <2>2
<1>. QED  BY <1>1, <1>2

\* A branch to the block a handler goes on in, which is attached.
LEMMA NextTyped ==
  ASSUME NEW bs \in Seq(BB), NEW at, NEW to \in Nat, NEW b
  PROVE  /\ Attach(Br(bs, at, to), b) \in Seq(BB)
         /\ Len(Attach(Br(bs, at, to), b)) = Len(bs)
<1>1. Br(bs, at, to) \in Seq(BB) /\ Len(Br(bs, at, to)) = Len(bs)
  BY BrTyped
<1>. QED  BY <1>1, AttachTyped

\* What a handler returns with.
LEMMA PopTyped ==
  ASSUME TypeInv, NEW kinds, Leaving(kinds), bbs' \in Seq(BB), Len(bbs') = Len(bbs),
         ip' \in 1..Len(bbs), merge' \in {merge, Top.merge, None},
         switch' \in {switch, Top.switch}, values' \in {values, Top.values}, out' = out
  PROVE  TypeInv'
<1>1. /\ stack # <<>> /\ stack' = Below /\ out = "run"
      /\ UNCHANGED <<rules, pos>> /\ lltypes' = lltypes
  BY DEF Leaving
<1>2. Top \in Frame /\ Refers(Top, Len(bbs))
  BY <1>1, TopTyped
<1>3. FramesOK(stack', Len(bbs'))
  BY <1>1, FramesPop, TypedNow DEF Below
<1>4. /\ Top.merge \in 0..Len(bbs) \cup {None}
      /\ Top.switch \in SwitchInfo \cup {None} /\ RefersSwitch(Top.switch, Len(bbs))
      /\ Top.values \in Vals
  <2>. DEFINE f == Top
  <2>. HIDE DEF f
  <2>1. f \in Frame /\ Refers(f, Len(bbs))
    BY <1>2 DEF f
  <2>2. /\ f.merge \in 0..Len(bbs) \cup {None}
        /\ f.switch \in SwitchInfo \cup {None} /\ RefersSwitch(f.switch, Len(bbs))
        /\ f.values \in Vals
    BY <2>1 DEF Frame, Refers, Found, Vals
  <2>. QED  BY <2>2 DEF f
<1>5. CodeOK(bbs', ip', merge', switch')
  BY <1>4, TypedNow DEF CodeOK
<1>6. Goods
  BY <1>1, <1>3, <1>4, <1>5, TypedNow DEF Goods, Inserting
<1>. QED  BY <1>1, <1>6, LeaveTyped

LEMMA ExitTyped ==
  ASSUME TypeInv, Exit
  PROVE  TypeInv'
<1>0. bbs \in Seq(BB) /\ Len(bbs) \in Nat /\ ip \in 0..Len(bbs)
  BY TypedNow DEF CodeOK
<1>1. ASSUME stack # <<>>
      PROVE  /\ Top.next \in 0..Len(bbs) /\ Top.alt \in 0..Len(bbs)
             /\ ip \in 1..Len(bbs)
             /\ Top.k \in {"if", "switch"} => Top.alt \in 1..Len(bbs)
             /\ Top.k \in {"while", "for", "switch"} \/ Top.own => Top.next \in 1..Len(bbs)
  BY <1>0, <1>1, TopTyped, TypedNow DEF Refers, GoesOn, Inserting
<1>2. CASE ExitBlock
  BY <1>0, <1>1, <1>2, PopTyped DEF ExitBlock, Leaving
<1>3. CASE ExitElse
  BY <1>0, <1>1, <1>3, PopTyped DEF ExitElse, Leaving
<1>4. CASE ExitIf
  <2>. DEFINE at == IF Top.kids = 1 THEN Top.alt ELSE ip
              half == IF Top.kids = 1 THEN ElseBegun(bbs, Top) ELSE bbs
              kinds == {"if"}
  <2>1. /\ Leaving(kinds) /\ stack # <<>> /\ Top.k = "if"
        /\ bbs' = IF Top.own THEN Attach(Br(half, at, Top.next), Top.next) ELSE half
        /\ ip' = IF Top.own THEN Top.next ELSE at
        /\ merge' = IF Top.own THEN None ELSE merge
        /\ UNCHANGED <<switch, values, out>>
    BY <1>4 DEF ExitIf, Leaving
  <2>2. half \in Seq(BB) /\ Len(half) = Len(bbs)
    BY <1>0, <2>1, ElseBegunTyped
  <2>3. at \in 1..Len(bbs)
    BY <1>1, <2>1
  <2>. HIDE DEF half, at, kinds
  <2>4. bbs' \in Seq(BB) /\ Len(bbs') = Len(bbs)
    BY <1>0, <1>1, <2>1, <2>2, NextTyped
  <2>5. ip' \in 1..Len(bbs)
    BY <1>1, <2>1, <2>3
  <2>6. merge' \in {merge, Top.merge, None}
    BY <2>1
  <2>. QED  BY <2>1, <2>4, <2>5, <2>6, PopTyped
<1>5. ASSUME NEW kinds, Leaving(kinds), Top.k \in {"while", "for"}, LoopClosed
      PROVE  /\ bbs' \in Seq(BB) /\ Len(bbs') = Len(bbs)
             /\ ip' \in 1..Len(bbs)
  <2>1. Top.next \in 1..Len(bbs) /\ Top.alt \in Nat
    BY <1>0, <1>1, <1>5 DEF Leaving
  <2>. QED  BY <1>0, <1>5, <2>1, NextTyped DEF LoopClosed
<1>6. CASE ExitWhile
  <2>. DEFINE kinds == {"while"}
  <2>1. /\ Leaving(kinds) /\ Top.k \in {"while", "for"} /\ LoopClosed
        /\ UNCHANGED <<merge, switch, values, out>>
    BY <1>6 DEF ExitWhile, Leaving
  <2>. HIDE DEF kinds
  <2>2. merge' \in {merge, Top.merge, None}
    BY <2>1
  <2>. QED  BY <1>5, <2>1, <2>2, PopTyped
<1>7. CASE ExitFor
  <2>1. CASE Stop("error")
    BY <1>7, <2>1, LeaveTyped DEF ExitFor, Leaving
  <2>2. CASE ~Stop("error")
    <3>. DEFINE kinds == {"for"}
    <3>1. /\ Leaving(kinds) /\ Top.k \in {"while", "for"} /\ LoopClosed
          /\ values' = Top.values /\ merge' = Top.merge
          /\ UNCHANGED <<switch, out>>
      BY <1>7, <2>2 DEF ExitFor, Leaving
    <3>. HIDE DEF kinds
    <3>2. merge' \in {merge, Top.merge, None}
      BY <3>1
    <3>. QED  BY <1>5, <3>1, <3>2, PopTyped
  <2>. QED  BY <2>1, <2>2
<1>8. CASE ExitSwitch
  <2>. DEFINE half == Attach(Br(bbs, Top.alt, Top.next), Top.alt)
              kinds == {"switch"}
  <2>1. /\ Leaving(kinds) /\ stack # <<>> /\ Top.k = "switch"
        /\ bbs' = Attach(half, Top.next)
        /\ ip' = Top.next
        /\ switch' = Top.switch /\ merge' = Top.merge /\ values' = Top.values
        /\ UNCHANGED out
    BY <1>8 DEF ExitSwitch, Leaving
  <2>2. Top.next \in 1..Len(bbs) /\ Top.next \in Nat
    BY <1>0, <1>1, <2>1
  <2>3. half \in Seq(BB) /\ Len(half) = Len(bbs)
    BY <1>0, <2>2, NextTyped
  <2>. HIDE DEF half, kinds
  <2>4. bbs' \in Seq(BB) /\ Len(bbs') = Len(bbs)
    BY <2>1, <2>3, AttachTyped
  <2>5. merge' \in {merge, Top.merge, None}
    BY <2>1
  <2>. QED  BY <2>1, <2>2, <2>4, <2>5, PopTyped
<1>9. CASE ExitCase
  <2>. DEFINE kinds == {"case", "case_arrow"}
  <2>1. /\ Leaving(kinds) /\ stack # <<>>
        /\ bbs' = CaseEnded(Top)
        /\ values' \in {values, Top.values} /\ merge' \in {merge, Top.merge, None}
        /\ UNCHANGED <<ip, switch, out>>
    BY <1>9 DEF ExitCase, Leaving
  <2>. HIDE DEF kinds
  <2>2. bbs' \in Seq(BB) /\ Len(bbs') = Len(bbs)
    <3>1. Top.next \in Nat
      BY <1>0, <1>1, <2>1
    <3>. QED  BY <1>0, <2>1, <3>1, BrTyped DEF CaseEnded
  <2>. QED  BY <1>1, <2>1, <2>2, PopTyped
<1>. QED  BY <1>2, <1>3, <1>4, <1>6, <1>7, <1>8, <1>9 DEF Exit

(***************************************************************************)
(* Whatever the program, the handlers go on in blocks of the function and  *)
(* insert at one, so nothing is generated into a block that is not there.  *)
(***************************************************************************)
THEOREM TypesHold == Spec => []TypeInv
<1>1. Init => TypeInv
  <2>. SUFFICES ASSUME Init PROVE TypeInv
    OBVIOUS
  <2>1. /\ bbs \in Seq(BB) /\ Len(bbs) = 0
        /\ stack \in Seq(Frame) /\ Len(stack) = 0 /\ stack = <<>>
    BY DEF Init
  <2>2. TypeOK
    BY <2>1, BuiltinTypesAssumption, BoundsAssumption DEF Init, TypeOK
  <2>3. FramesOK(stack, Len(bbs)) /\ RefersSwitch(switch, Len(bbs)) /\ Inserting
    BY <2>1, BoundsAssumption DEF Init, FramesOK, RefersSwitch, Inserting
  <2>. QED  BY <2>2, <2>3 DEF TypeInv
<1>2. TypeInv /\ [Next]_vars => TypeInv'
  <2>. SUFFICES ASSUME TypeInv, [Next]_vars PROVE TypeInv'
    OBVIOUS
  <2>1. CASE UNCHANGED vars
    BY <2>1 DEF vars, TypeInv, TypeOK, FramesOK, Inserting
  <2>2. CASE Next
    BY <2>2, NodesAreTyped, FnTyped, DeclTyped, SimpleTyped, BlockTypes, IfTyped, ElseTyped,
       WhileTyped, ForTyped, SwitchTypes, CaseTyped, ExitTyped DEF Next
  <2>. QED  BY <2>1, <2>2
<1>. QED  BY <1>1, <1>2, PTL DEF Spec

(***************************************************************************)
(* The generator's state is always of the types declared for it.           *)
(***************************************************************************)
THEOREM CodegenTypes == Spec => []TypeOK
<1>1. TypeInv => TypeOK
  BY DEF TypeInv
<1>. QED  BY <1>1, TypesHold, PTL

-----------------------------------------------------------------------------
(* A function's blocks, and what the handlers do to them: bs2 is bs with    *)
(* the blocks P attached once more, whatever was terminated.                *)

IsBlock(bb) == {"attached", "terms"} \subseteq DOMAIN bb

AreBlocks(bs) == (\E S : bs \in Seq(S)) /\ \A b \in 1..Len(bs) : IsBlock(bs[b])

AttachedMore(bs, bs2, P) ==
  /\ AreBlocks(bs2)
  /\ Len(bs2) = Len(bs)
  /\ \A b \in 1..Len(bs) :
       bs2[b].attached = IF b \in P THEN bs[b].attached + 1 ELSE bs[b].attached

LEMMA Changed ==
  ASSUME NEW bs, AreBlocks(bs), NEW at, NEW e, at \notin 1..Len(bs) \/ IsBlock(e)
  PROVE  /\ AreBlocks(With(bs, at, e))
         /\ Len(With(bs, at, e)) = Len(bs)
         /\ \A b \in 1..Len(bs) : With(bs, at, e)[b] = IF b = at THEN e ELSE bs[b]
<1>. DEFINE bs2 == [bs EXCEPT ![at] = e]
<1>1. PICK S : bs \in Seq(S)
  BY DEF AreBlocks
<1>2. CASE at \in 1..Len(bs)
  <2>1. bs \in Seq(S \cup {e}) /\ e \in S \cup {e}
    BY <1>1
  <2>2. /\ bs2 \in Seq(S \cup {e})
        /\ Len(bs2) = Len(bs)
        /\ \A b \in 1..Len(bs) : bs2[b] = IF b = at THEN e ELSE bs[b]
    BY <1>2, <2>1, ExceptSeq
  <2>. HIDE DEF bs2
  <2>3. \A b \in 1..Len(bs2) : IsBlock(bs2[b])
    BY <1>2, <2>2 DEF AreBlocks
  <2>4. AreBlocks(bs2)
    BY <2>2, <2>3 DEF AreBlocks
  <2>. QED  BY <2>2, <2>4 DEF bs2, With
<1>3. CASE at \notin 1..Len(bs)
  <2>1. DOMAIN bs = 1..Len(bs)
    BY <1>1
  <2>2. bs2 = bs
    BY <1>1, <1>3, <2>1
  <2>. QED  BY <1>3, <2>2 DEF With
<1>. QED  BY <1>2, <1>3

\* Terminators and cases leave the list of blocks alone.
LEMMA BrAttaches ==
  ASSUME NEW bs, AreBlocks(bs), NEW at, NEW to
  PROVE  /\ AttachedMore(bs, Br(bs, at, to), {})
         /\ AttachedMore(bs, CondBr(bs, at, to), {})
         /\ AttachedMore(bs, [bs EXCEPT ![at] = Terminated(@, "ret", {})], {})
         /\ AttachedMore(bs, [bs EXCEPT ![at] = Terminated(@, "switch", to)], {})
<1>1. ASSUME NEW k, NEW t
      PROVE  AttachedMore(bs, [bs EXCEPT ![at] = Terminated(bs[at], k, t)], {})
  <2>. DEFINE e == Terminated(bs[at], k, t)
  <2>1. at \notin 1..Len(bs) \/ IsBlock(e)
    BY DEF AreBlocks, IsBlock, Terminated
  <2>0. at \in 1..Len(bs) => e.attached = bs[at].attached
    BY DEF AreBlocks, IsBlock, Terminated
  <2>. HIDE DEF e
  <2>2. /\ AreBlocks(With(bs, at, e))
        /\ Len(With(bs, at, e)) = Len(bs)
        /\ \A b \in 1..Len(bs) : With(bs, at, e)[b] = IF b = at THEN e ELSE bs[b]
    BY <2>1, Changed
  <2>3. AttachedMore(bs, With(bs, at, e), {})
    BY <2>0, <2>2 DEF AttachedMore
  <2>. QED  BY <2>3 DEF e, With
<1>. QED  BY <1>1 DEF Br, CondBr

LEMMA AddCaseAttaches ==
  ASSUME NEW bs, AreBlocks(bs), NEW b
  PROVE  AttachedMore(bs, AddCase(bs, b), {})
<1>. DEFINE old == bs[switch.at]
            e == WithCase(old, switch.term, b)
<1>1. switch.at \notin 1..Len(bs) \/ IsBlock(e)
  BY DEF AreBlocks, IsBlock, WithCase
<1>0. switch.at \in 1..Len(bs) => e.attached = old.attached
  BY DEF AreBlocks, IsBlock, WithCase
<1>2. AddCase(bs, b) = With(bs, switch.at, e)
  BY DEF AddCase, With
<1>. HIDE DEF e
<1>3. /\ AreBlocks(With(bs, switch.at, e))
      /\ Len(With(bs, switch.at, e)) = Len(bs)
      /\ \A i \in 1..Len(bs) :
           With(bs, switch.at, e)[i] = IF i = switch.at THEN e ELSE bs[i]
  BY <1>1, Changed
<1>. QED  BY <1>0, <1>2, <1>3 DEF AttachedMore

LEMMA AttachAttaches ==
  ASSUME NEW bs, AreBlocks(bs), NEW b \in 1..Len(bs)
  PROVE  AttachedMore(bs, Attach(bs, b), {b})
<1>. DEFINE e == [bs[b] EXCEPT !.attached = @ + 1]
<1>1. IsBlock(e) /\ e.attached = bs[b].attached + 1
  BY DEF AreBlocks, IsBlock
<1>2. Attach(bs, b) = With(bs, b, e)
  BY DEF Attach, With
<1>. HIDE DEF e
<1>3. /\ AreBlocks(With(bs, b, e))
      /\ Len(With(bs, b, e)) = Len(bs)
      /\ \A i \in 1..Len(bs) : With(bs, b, e)[i] = IF i = b THEN e ELSE bs[i]
  BY <1>1, Changed
<1>. QED  BY <1>1, <1>2, <1>3 DEF AttachedMore

\* One after the other, on different blocks.
LEMMA ThenAttaches ==
  ASSUME NEW bs, NEW bs1, NEW bs2, NEW P, NEW Q, P \cap Q = {},
         AttachedMore(bs, bs1, P), AttachedMore(bs1, bs2, Q)
  PROVE  AttachedMore(bs, bs2, P \cup Q)
  BY DEF AttachedMore

LEMMA NothingAttached ==
  ASSUME NEW bs, AreBlocks(bs)
  PROVE  AttachedMore(bs, bs, {})
  BY DEF AttachedMore

\* BasicBlock::Create, with or without the function.
LEMMA BlocksMade ==
  ASSUME NEW bs, AreBlocks(bs), NEW new \in Seq({0, 1})
  PROVE  /\ AreBlocks(bs \o Blocks(new))
         /\ Len(bs \o Blocks(new)) = Len(bs) + Len(new)
         /\ \A b \in 1..Len(bs) : (bs \o Blocks(new))[b] = bs[b]
         /\ \A i \in 1..Len(new) : (bs \o Blocks(new))[Len(bs) + i].attached = new[i]
<1>1. PICK S : bs \in Seq(S)
  BY DEF AreBlocks
<1>. DEFINE made == Blocks(new)
            B == [attached : {0, 1}, terms : {<<>>}]
<1>2. Len(new) \in Nat /\ \A i \in 1..Len(new) : new[i] \in {0, 1}
  OBVIOUS
<1>3. /\ made \in Seq(B) /\ Len(made) = Len(new)
      /\ \A i \in 1..Len(new) : made[i].attached = new[i] /\ IsBlock(made[i])
  BY <1>2 DEF Blocks, IsBlock
<1>. HIDE DEF made, B
<1>4. bs \in Seq(S \cup B) /\ made \in Seq(S \cup B)
  BY <1>1, <1>3
<1>5. /\ bs \o made \in Seq(S \cup B)
      /\ Len(bs \o made) = Len(bs) + Len(made)
      /\ \A i \in 1..Len(bs) + Len(made) :
           (bs \o made)[i] = IF i <= Len(bs) THEN bs[i] ELSE made[i - Len(bs)]
  BY <1>4, ConcatProperties
<1>6. Len(bs) \in Nat
  BY <1>1
<1>. DEFINE all == bs \o made
<1>. HIDE DEF all
<1>7. \A b \in 1..Len(bs) : all[b] = bs[b]
  BY <1>2, <1>3, <1>5, <1>6 DEF all
<1>8. \A i \in 1..Len(new) : all[Len(bs) + i] = made[i]
  BY <1>2, <1>3, <1>5, <1>6 DEF all
<1>9. \A b \in 1..Len(all) : IsBlock(all[b])
  <2>. SUFFICES ASSUME NEW b \in 1..Len(all) PROVE IsBlock(all[b])
    OBVIOUS
  <2>1. CASE b <= Len(bs)
    BY <2>1, <1>6, <1>7 DEF AreBlocks
  <2>2. CASE ~(b <= Len(bs))
    <3>1. b - Len(bs) \in 1..Len(new) /\ Len(bs) + (b - Len(bs)) = b
      BY <2>2, <1>2, <1>3, <1>5, <1>6 DEF all
    <3>. QED  BY <3>1, <1>3, <1>8
  <2>. QED  BY <2>1, <2>2
<1>10. AreBlocks(all)
  BY <1>5, <1>9 DEF AreBlocks, all
<1>. QED  BY <1>3, <1>5, <1>7, <1>8, <1>10 DEF all, made

-----------------------------------------------------------------------------
(* Whose business a block is.                                               *)

\* A handler's two blocks are different ones.
Distinct(f) == f.k = "switch" \/ (f.k = "if" /\ f.own) => f.next # f.alt

Sound(f) == IsFrame(f) /\ f.kids \in Nat /\ Distinct(f)

\* Some open handler has made b and not come to it yet.
Awaited(s, b) == \E i \in 1..Len(s) : b \in Pending(s[i])

Accounts(bs, s) ==
  /\ AreBlocks(bs)
  /\ \E S : s \in Seq(S)
  /\ \A i \in 1..Len(s) : Sound(s[i]) /\ Pending(s[i]) \subseteq 1..Len(bs)
  /\ \A i, j \in 1..Len(s) : i # j => Pending(s[i]) \cap Pending(s[j]) = {}
  /\ \A b \in 1..Len(bs) : bs[b].attached = IF Awaited(s, b) THEN 0 ELSE 1

BlocksInv == Accounts(bbs, stack)

\* Instructions are of no account.
LEMMA CodeAccounts ==
  ASSUME NEW bs, NEW s, Accounts(bs, s), NEW bs2, AttachedMore(bs, bs2, {})
  PROVE  Accounts(bs2, s)
  BY DEF Accounts, AttachedMore

\* A handler is entered that makes the blocks `new`; it awaits those that are
\* not in the function yet.
LEMMA PushAccounts ==
  ASSUME NEW bs, NEW s, Accounts(bs, s), NEW new \in Seq({0, 1}), NEW f, Sound(f),
         Pending(f) \subseteq (Len(bs) + 1)..(Len(bs) + Len(new)),
         \A i \in 1..Len(new) : new[i] = 0 <=> Len(bs) + i \in Pending(f)
  PROVE  Accounts(bs \o Blocks(new), Append(s, f))
<1>. DEFINE all == bs \o Blocks(new)
            t == Append(s, f)
<1>1. /\ AreBlocks(all)
      /\ Len(all) = Len(bs) + Len(new)
      /\ \A b \in 1..Len(bs) : all[b] = bs[b]
      /\ \A i \in 1..Len(new) : all[Len(bs) + i].attached = new[i]
  BY BlocksMade DEF Accounts
<1>2. PICK S : s \in Seq(S)
  BY DEF Accounts
<1>3. /\ t \in Seq(S \cup {f})
      /\ Len(t) = Len(s) + 1
      /\ \A i \in 1..Len(s) : t[i] = s[i]
      /\ t[Len(s) + 1] = f
  BY <1>2, PushShape
<1>4. Len(s) \in Nat /\ Len(bs) \in Nat /\ Len(new) \in Nat
  BY <1>2 DEF Accounts, AreBlocks
<1>. HIDE DEF all, t
<1>5. \A i \in 1..Len(t) : (i \in 1..Len(s) /\ t[i] = s[i]) \/ (i = Len(s) + 1 /\ t[i] = f)
  BY <1>3, <1>4
<1>6. \A i \in 1..Len(s) : Pending(s[i]) \subseteq 1..Len(bs)
  BY DEF Accounts
<1>7. Pending(f) \subseteq 1..Len(all) /\ Pending(f) \cap 1..Len(bs) = {}
  BY <1>1, <1>4
<1>8. \A i \in 1..Len(t) : Sound(t[i]) /\ Pending(t[i]) \subseteq 1..Len(all)
  <2>1. 1..Len(bs) \subseteq 1..Len(all)
    BY <1>1, <1>4
  <2>. QED  BY <2>1, <1>5, <1>6, <1>7 DEF Accounts
<1>9. \A i, j \in 1..Len(t) : i # j => Pending(t[i]) \cap Pending(t[j]) = {}
  BY <1>5, <1>6, <1>7 DEF Accounts
<1>10. ASSUME NEW b \in 1..Len(all)
       PROVE  all[b].attached = IF Awaited(t, b) THEN 0 ELSE 1
  <2>1. Awaited(t, b) <=> Awaited(s, b) \/ b \in Pending(f)
    <3>1. 1..Len(s) \subseteq 1..Len(t) /\ Len(s) + 1 \in 1..Len(t)
      BY <1>3, <1>4
    <3>. QED  BY <3>1, <1>3, <1>5 DEF Awaited
  <2>2. CASE b \in 1..Len(bs)
    <3>1. b \notin Pending(f)
      BY <2>2, <1>7
    <3>. QED  BY <2>1, <2>2, <3>1, <1>1 DEF Accounts
  <2>3. CASE b \notin 1..Len(bs)
    <3>1. /\ b - Len(bs) \in 1..Len(new)
          /\ Len(bs) + (b - Len(bs)) = b
      BY <2>3, <1>1, <1>4
    <3>2. all[b].attached = new[b - Len(bs)]
      BY <3>1, <1>1
    <3>3. new[b - Len(bs)] = 0 <=> b \in Pending(f)
      BY <3>1
    <3>4. new[b - Len(bs)] \in {0, 1}
      BY <3>1
    <3>5. ~Awaited(s, b)
      BY <2>3, <1>6 DEF Awaited
    <3>. QED  BY <2>1, <3>2, <3>3, <3>4, <3>5
  <2>. QED  BY <2>2, <2>3
<1>. QED  BY <1>1, <1>3, <1>8, <1>9, <1>10 DEF Accounts, all, t

\* A handler that awaits nothing.
LEMMA PushIdle ==
  ASSUME NEW bs, NEW s, Accounts(bs, s), NEW f, Sound(f), Pending(f) = {}
  PROVE  Accounts(bs, Append(s, f))
<1>. DEFINE new == <<>>
<1>1. new \in Seq({0, 1}) /\ Len(new) = 0
  OBVIOUS
<1>. HIDE DEF new
<1>2. /\ Pending(f) \subseteq (Len(bs) + 1)..(Len(bs) + Len(new))
      /\ \A i \in 1..Len(new) : new[i] = 0 <=> Len(bs) + i \in Pending(f)
  BY <1>1
<1>5. Accounts(bs \o Blocks(new), Append(s, f))
  BY <1>1, <1>2, PushAccounts
<1>3. PICK S : bs \in Seq(S)
  BY DEF Accounts, AreBlocks
<1>4. bs \o Blocks(new) = bs
  BY <1>3 DEF Blocks, new
<1>. QED  BY <1>4, <1>5

\* A handler comes to all the blocks it awaits and returns.
LEMMA PopAccounts ==
  ASSUME NEW bs, NEW s, Accounts(bs, s), s # <<>>,
         NEW bs2, AttachedMore(bs, bs2, Pending(s[Len(s)]))
  PROVE  Accounts(bs2, SubSeq(s, 1, Len(s) - 1))
<1>. DEFINE t == SubSeq(s, 1, Len(s) - 1)
<1>1. PICK S : s \in Seq(S)
  BY DEF Accounts
<1>2. Len(s) \in Nat /\ Len(s) > 0
  BY <1>1
<1>3. /\ t \in Seq(S)
      /\ Len(t) = Len(s) - 1
      /\ \A i \in 1..(Len(s) - 1) : t[i] = s[i]
  BY <1>1, <1>2, PopShape
<1>. HIDE DEF t
<1>4. \A i \in 1..Len(t) : i \in 1..Len(s) /\ i # Len(s) /\ t[i] = s[i]
  BY <1>2, <1>3
<1>5. Len(s) \in 1..Len(s) /\ \A i \in 1..Len(s) : i # Len(s) => i \in 1..Len(t)
  BY <1>2, <1>3
<1>6. AreBlocks(bs2) /\ Len(bs2) = Len(bs)
  BY DEF AttachedMore
<1>7. \A i \in 1..Len(t) : Sound(t[i]) /\ Pending(t[i]) \subseteq 1..Len(bs2)
  BY <1>4, <1>6 DEF Accounts
<1>8. \A i, j \in 1..Len(t) : i # j => Pending(t[i]) \cap Pending(t[j]) = {}
  BY <1>4 DEF Accounts
<1>9. ASSUME NEW b \in 1..Len(bs2)
      PROVE  bs2[b].attached = IF Awaited(t, b) THEN 0 ELSE 1
  <2>1. Awaited(s, b) <=> Awaited(t, b) \/ b \in Pending(s[Len(s)])
    BY <1>4, <1>5 DEF Awaited
  <2>2. b \in Pending(s[Len(s)]) => ~Awaited(t, b)
    BY <1>4, <1>5 DEF Awaited, Accounts
  <2>3. bs[b].attached = IF Awaited(s, b) THEN 0 ELSE 1
    BY <1>6 DEF Accounts
  <2>4. bs2[b].attached = IF b \in Pending(s[Len(s)]) THEN bs[b].attached + 1
                          ELSE bs[b].attached
    BY <1>6 DEF AttachedMore
  <2>. QED  BY <2>1, <2>2, <2>3, <2>4
<1>. QED  BY <1>3, <1>6, <1>7, <1>8, <1>9 DEF Accounts, t

\* It comes to some of them and goes on.
LEMMA ReplaceAccounts ==
  ASSUME NEW bs, NEW s, Accounts(bs, s), s # <<>>,
         NEW g, Sound(g), Pending(g) \subseteq Pending(s[Len(s)]),
         NEW bs2, AttachedMore(bs, bs2, Pending(s[Len(s)]) \ Pending(g))
  PROVE  Accounts(bs2, Append(SubSeq(s, 1, Len(s) - 1), g))
<1>. DEFINE r == SubSeq(s, 1, Len(s) - 1)
            t == Append(r, g)
<1>1. PICK S : s \in Seq(S)
  BY DEF Accounts
<1>2. Len(s) \in Nat /\ Len(s) > 0
  BY <1>1
<1>3. /\ r \in Seq(S)
      /\ Len(r) = Len(s) - 1
      /\ \A i \in 1..(Len(s) - 1) : r[i] = s[i]
  BY <1>1, <1>2, PopShape
<1>. HIDE DEF r
<1>4. /\ t \in Seq(S \cup {g})
      /\ Len(t) = Len(r) + 1
      /\ \A i \in 1..Len(r) : t[i] = r[i]
      /\ t[Len(r) + 1] = g
  BY <1>3, PushShape
<1>. HIDE DEF t
<1>5. /\ Len(t) = Len(s)
      /\ t[Len(s)] = g
      /\ \A i \in 1..Len(s) : i # Len(s) => t[i] = s[i]
      /\ Len(s) \in 1..Len(s)
  BY <1>2, <1>3, <1>4
<1>6. AreBlocks(bs2) /\ Len(bs2) = Len(bs)
  BY DEF AttachedMore
<1>7. \A i \in 1..Len(t) : Pending(t[i]) \subseteq Pending(s[i])
  BY <1>5
<1>8. \A i \in 1..Len(t) : Sound(t[i]) /\ Pending(t[i]) \subseteq 1..Len(bs2)
  BY <1>5, <1>6, <1>7 DEF Accounts
<1>9. \A i, j \in 1..Len(t) : i # j => Pending(t[i]) \cap Pending(t[j]) = {}
  BY <1>5, <1>7 DEF Accounts
<1>10. ASSUME NEW b \in 1..Len(bs2)
       PROVE  bs2[b].attached = IF Awaited(t, b) THEN 0 ELSE 1
  <2>. DEFINE came == Pending(s[Len(s)]) \ Pending(g)
  <2>1. Awaited(s, b) <=> Awaited(t, b) \/ b \in came
    BY <1>5, <1>7 DEF Awaited
  <2>2. b \in came => ~Awaited(t, b)
    BY <1>5, <1>7 DEF Awaited, Accounts
  <2>3. bs[b].attached = IF Awaited(s, b) THEN 0 ELSE 1
    BY <1>6 DEF Accounts
  <2>4. bs2[b].attached = IF b \in came THEN bs[b].attached + 1 ELSE bs[b].attached
    BY <1>6 DEF AttachedMore
  <2>. QED  BY <2>1, <2>2, <2>3, <2>4
<1>. QED  BY <1>4, <1>6, <1>8, <1>9, <1>10 DEF Accounts, t, r

-----------------------------------------------------------------------------
(* Steps.                                                                   *)

\* The frame of the innermost handler.
LEMMA TopSound ==
  ASSUME BlocksInv, stack # <<>>
  PROVE  Sound(Top) /\ Pending(Top) \subseteq 1..Len(bbs)
<1>1. Len(stack) \in 1..Len(stack)
  BY DEF BlocksInv, Accounts
<1>. QED  BY <1>1 DEF BlocksInv, Accounts, Top

\* A statement begins: the handler around it has come to none of its blocks.
LEMMA BegunAccounts ==
  ASSUME BlocksInv, stack = <<>> \/ Top.k \in ListKinds \/ Top.kids = 0
  PROVE  Accounts(bbs, Begun)
<1>1. CASE stack = <<>> \/ Top.k \in ListKinds
  BY <1>1 DEF Begun, BlocksInv
<1>2. CASE ~(stack = <<>> \/ Top.k \in ListKinds)
  <2>. DEFINE g == [Top EXCEPT !.kids = @ + 1]
  <2>1. Sound(Top) /\ Top.kids = 0
    BY <1>2, TopSound
  <2>2. /\ IsFrame(g) /\ g.kids = 1
        /\ g.k = Top.k /\ g.next = Top.next /\ g.alt = Top.alt /\ g.own = Top.own
    BY <2>1 DEF Sound, IsFrame
  <2>3. Begun = Append(Below, g)
    BY <1>2 DEF Begun
  <2>. HIDE DEF g
  <2>4. Sound(g) /\ Pending(g) = Pending(Top)
    BY <2>1, <2>2 DEF Sound, Distinct, Pending
  <2>5. AttachedMore(bbs, bbs, Pending(Top) \ Pending(g))
    BY <2>4, NothingAttached DEF BlocksInv, Accounts
  <2>6. Accounts(bbs, Append(Below, g))
    BY <1>2, <2>4, <2>5, ReplaceAccounts DEF BlocksInv, Below, Top
  <2>. QED  BY <2>3, <2>6
<1>. QED  BY <1>1, <1>2

LEMMA NewFrame ==
  ASSUME NEW k
  PROVE  Enter(k).k = k /\ IsFrame(Enter(k)) /\ Enter(k).kids = 0
  BY DEF Enter, IsFrame

LEMMA StopAccounts ==
  ASSUME BlocksInv, NEW how, Stop(how)
  PROVE  BlocksInv'
  BY DEF Stop, BlocksInv

LEMMA SimpleAccounts ==
  ASSUME BlocksInv, NEW node, Simple(node)
  PROVE  BlocksInv'
<1>1. CASE Stop("error")
  BY <1>1, StopAccounts
<1>2. CASE ~Stop("error")
  <2>1. /\ StmtExpected /\ stack' = Begun
        /\ bbs' = IF node.k = "return"
                  THEN [bbs EXCEPT ![ip] = Terminated(@, "ret", {})] ELSE bbs
    BY <1>2 DEF Simple
  <2>2. Accounts(bbs, Begun)
    BY <2>1, BegunAccounts DEF StmtExpected
  <2>3. AreBlocks(bbs)
    BY DEF BlocksInv, Accounts
  <2>4. AttachedMore(bbs, bbs', {})
    BY <2>1, <2>3, BrAttaches, NothingAttached
  <2>. QED  BY <2>1, <2>2, <2>4, CodeAccounts DEF BlocksInv
<1>. QED  BY <1>1, <1>2

\* The handlers that make no blocks before they recurse.
LEMMA IdleAccounts ==
  ASSUME BlocksInv, stack = <<>> \/ Top.k \in ListKinds \/ Top.kids = 0,
         NEW f, IsFrame(f), f.kids = 0, f.k \in {"block", "arrow", "case", "case_arrow"}
  PROVE  Accounts(bbs, Append(Begun, f))
<1>1. Sound(f) /\ Pending(f) = {}
  BY DEF Sound, Distinct, Pending
<1>. QED  BY <1>1, BegunAccounts, PushIdle

LEMMA IfAccounts ==
  ASSUME BlocksInv, NEW node, If(node)
  PROVE  BlocksInv'
<1>1. CASE \E how : Stop(how)
  BY <1>1, StopAccounts
<1>2. CASE ~\E how : Stop(how)
  <2>. DEFINE own == merge = None
              next == IF own THEN Len(bbs) + 3 ELSE merge
              f == [Enter("if") EXCEPT !.next = next, !.alt = Len(bbs) + 2, !.own = own]
              bs == CondBr(bbs, ip, {Len(bbs) + 1, Len(bbs) + 2})
              new == IF own THEN <<1, 0, 0>> ELSE <<1, 0>>
  <2>1. StmtExpected /\ stack' = Append(Begun, f) /\ bbs' = bs \o Blocks(new)
    BY <1>2 DEF If, IfBlocks
  <2>2. AreBlocks(bbs) /\ Len(bbs) \in Nat
    BY DEF BlocksInv, Accounts, AreBlocks
  <2>3. AttachedMore(bbs, bs, {})
    BY <2>2, BrAttaches
  <2>4. Accounts(bs, Begun) /\ Len(bs) = Len(bbs)
    BY <2>1, <2>3, BegunAccounts, CodeAccounts DEF StmtExpected, AttachedMore
  <2>5. /\ f.k = "if" /\ IsFrame(f) /\ f.kids = 0
        /\ f.next = next /\ f.alt = Len(bbs) + 2
        /\ IF own THEN f.own ELSE ~f.own
    BY DEF Enter, IsFrame
  <2>6. /\ new \in Seq({0, 1}) /\ new[1] = 1 /\ new[2] = 0
        /\ IF own THEN Len(new) = 3 /\ new[3] = 0 ELSE Len(new) = 2
    <3>1. CASE own
      BY <3>1
    <3>2. CASE ~own
      BY <3>2
    <3>. QED  BY <3>1, <3>2
  <2>. HIDE DEF f, bs, new
  <2>8. Sound(f)
    BY <2>2, <2>5 DEF Sound, Distinct
  <2>9. Pending(f) = IF own THEN {Len(bbs) + 2, Len(bbs) + 3} ELSE {Len(bbs) + 2}
    BY <2>5 DEF Pending
  <2>10. /\ Pending(f) \subseteq (Len(bs) + 1)..(Len(bs) + Len(new))
         /\ \A i \in 1..Len(new) : new[i] = 0 <=> Len(bs) + i \in Pending(f)
    BY <2>2, <2>4, <2>6, <2>9
  <2>11. Accounts(bs \o Blocks(new), Append(Begun, f))
    BY <2>4, <2>6, <2>8, <2>10, PushAccounts
  <2>. QED  BY <2>1, <2>11 DEF BlocksInv
<1>. QED  BY <1>1, <1>2

LEMMA SwitchAccounts ==
  ASSUME BlocksInv, NEW node, Switch(node)
  PROVE  BlocksInv'
<1>1. CASE \E how : Stop(how)
  BY <1>1, StopAccounts
<1>2. CASE ~\E how : Stop(how)
  <2>. DEFINE f == [Enter("switch") EXCEPT !.next = Len(bbs) + 1, !.alt = Len(bbs) + 2]
              bs == [bbs EXCEPT ![ip] = Terminated(@, "switch", {Len(bbs) + 2})]
              new == <<0, 0>>
  <2>1. StmtExpected /\ stack' = Append(Begun, f) /\ bbs' = bs \o Blocks(new)
    BY <1>2 DEF Switch
  <2>2. AreBlocks(bbs) /\ Len(bbs) \in Nat
    BY DEF BlocksInv, Accounts, AreBlocks
  <2>3. AttachedMore(bbs, bs, {})
    BY <2>2, BrAttaches
  <2>. HIDE DEF bs
  <2>4. Accounts(bs, Begun) /\ Len(bs) = Len(bbs)
    BY <2>1, <2>3, BegunAccounts, CodeAccounts DEF StmtExpected, AttachedMore
  <2>5. /\ f.k = "switch" /\ IsFrame(f) /\ f.kids = 0
        /\ f.next = Len(bbs) + 1 /\ f.alt = Len(bbs) + 2
    BY DEF Enter, IsFrame
  <2>6. new \in Seq({0, 1}) /\ Len(new) = 2 /\ new[1] = 0 /\ new[2] = 0
    OBVIOUS
  <2>. HIDE DEF f, new
  <2>7. Sound(f)
    BY <2>2, <2>5 DEF Sound, Distinct
  <2>8. Pending(f) = {Len(bbs) + 1, Len(bbs) + 2}
    BY <2>5 DEF Pending
  <2>9. /\ Pending(f) \subseteq (Len(bs) + 1)..(Len(bs) + Len(new))
        /\ \A i \in 1..Len(new) : new[i] = 0 <=> Len(bs) + i \in Pending(f)
    BY <2>2, <2>4, <2>6, <2>8
  <2>10. Accounts(bs \o Blocks(new), Append(Begun, f))
    BY <2>4, <2>6, <2>7, <2>9, PushAccounts
  <2>. QED  BY <2>1, <2>10 DEF BlocksInv
<1>. QED  BY <1>1, <1>2

\* codegen_while and codegen_for.
LEMMA LoopAccounts ==
  ASSUME BlocksInv, StmtExpected,
         NEW f0, IsFrame(f0), f0.kids = 0, f0.k \in {"while", "for"}, Loop(f0)
  PROVE  BlocksInv'
<1>. DEFINE n == Len(bbs)
            f == [f0 EXCEPT !.alt = n + 1, !.next = n + 3]
            bs == Br(bbs, ip, n + 1)
            new == <<1, 1, 0>>
            all == bs \o Blocks(new)
<1>1. /\ stack' = Append(Begun, f)
      /\ bbs' = CondBr(all, n + 1, {n + 2, n + 3})
  BY DEF Loop, LoopBlocks
<1>2. AreBlocks(bbs) /\ n \in Nat
  BY DEF BlocksInv, Accounts, AreBlocks
<1>3. AttachedMore(bbs, bs, {})
  BY <1>2, BrAttaches
<1>. HIDE DEF bs
<1>4. Accounts(bs, Begun) /\ Len(bs) = n
  BY <1>3, BegunAccounts, CodeAccounts DEF StmtExpected, AttachedMore
<1>5. f.k = f0.k /\ IsFrame(f) /\ f.kids = 0 /\ f.next = n + 3
  BY DEF IsFrame
<1>6. new \in Seq({0, 1}) /\ Len(new) = 3 /\ new[1] = 1 /\ new[2] = 1 /\ new[3] = 0
  OBVIOUS
<1>. HIDE DEF f, new, n
<1>7. Sound(f) /\ Pending(f) = {n + 3}
  BY <1>5 DEF Sound, Distinct, Pending
<1>8. /\ Pending(f) \subseteq (Len(bs) + 1)..(Len(bs) + Len(new))
      /\ \A i \in 1..Len(new) : new[i] = 0 <=> Len(bs) + i \in Pending(f)
  BY <1>2, <1>4, <1>6, <1>7
<1>9. Accounts(all, Append(Begun, f))
  BY <1>4, <1>6, <1>7, <1>8, PushAccounts
<1>. HIDE DEF all
<1>10. AttachedMore(all, CondBr(all, n + 1, {n + 2, n + 3}), {})
  BY <1>9, BrAttaches DEF Accounts
<1>. QED  BY <1>1, <1>9, <1>10, CodeAccounts DEF BlocksInv

LEMMA BlockAccounts ==
  ASSUME BlocksInv
  PROVE  /\ Block => BlocksInv'
         /\ \A params : Arrow(params) => BlocksInv'
<1>1. ASSUME Block PROVE BlocksInv'
  <2>1. StmtExpected /\ stack' = Append(Begun, Enter("block")) /\ bbs' = bbs
    BY <1>1 DEF Block
  <2>. QED  BY <2>1, NewFrame, IdleAccounts DEF StmtExpected, BlocksInv
<1>2. ASSUME NEW params, Arrow(params) PROVE BlocksInv'
  <2>1. CASE \E how : Stop(how)
    BY <2>1, StopAccounts
  <2>2. CASE ~\E how : Stop(how)
    <3>. DEFINE f == [Enter("arrow") EXCEPT !.values = values']
    <3>1. Top.kids = 0 /\ stack' = Append(Begun, f) /\ bbs' = bbs
      BY <1>2, <2>2 DEF Arrow, Inject
    <3>2. f.k = "arrow" /\ IsFrame(f) /\ f.kids = 0
      BY DEF Enter, IsFrame
    <3>. HIDE DEF f
    <3>. QED  BY <3>1, <3>2, IdleAccounts DEF BlocksInv
  <2>. QED  BY <2>1, <2>2
<1>. QED  BY <1>1, <1>2

LEMMA CaseAccounts ==
  ASSUME BlocksInv, NEW node, Case(node)
  PROVE  BlocksInv'
<1>1. CASE \E how : Stop(how)
  BY <1>1, StopAccounts
<1>2. CASE ~\E how : Stop(how)
  <2>. DEFINE kind == IF node.arrow THEN "case_arrow" ELSE "case"
              entered == [Enter(kind) EXCEPT !.next = switch.merge, !.default = node.default]
              f == [entered EXCEPT !.values = values']
              new == <<1>>
              bs == IF node.default THEN bbs ELSE bbs \o Blocks(new)
  <2>1. /\ StmtExpected /\ stack' = Append(Begun, f)
        /\ bbs' = AddCase(bs, CaseBlock(node))
    BY <1>2 DEF Case, Inject
  <2>2. f.k \in {"case", "case_arrow"} /\ IsFrame(f) /\ f.kids = 0
    BY DEF Enter, IsFrame
  <2>3. new \in Seq({0, 1}) /\ Len(new) = 1 /\ new[1] = 1
    OBVIOUS
  <2>. HIDE DEF f, new
  <2>4. Accounts(bbs, Append(Begun, f))
    BY <2>1, <2>2, IdleAccounts DEF StmtExpected
  <2>5. Accounts(bbs, Begun)
    BY <2>1, BegunAccounts DEF StmtExpected
  <2>6. Sound(f) /\ Pending(f) = {}
    BY <2>2 DEF Sound, Distinct, Pending
  <2>7. /\ Pending(f) \subseteq (Len(bbs) + 1)..(Len(bbs) + Len(new))
        /\ \A i \in 1..Len(new) : new[i] = 0 <=> Len(bbs) + i \in Pending(f)
    BY <2>3, <2>6
  <2>8. Accounts(bbs \o Blocks(new), Append(Begun, f))
    BY <2>3, <2>5, <2>6, <2>7, PushAccounts
  <2>9. Accounts(bs, Append(Begun, f))
    BY <2>4, <2>8
  <2>. HIDE DEF bs
  <2>10. AttachedMore(bs, AddCase(bs, CaseBlock(node)), {})
    BY <2>9, AddCaseAttaches DEF Accounts
  <2>. QED  BY <2>1, <2>9, <2>10, CodeAccounts DEF BlocksInv
<1>. QED  BY <1>1, <1>2

LEMMA WhileAccounts ==
  ASSUME BlocksInv
  PROVE  /\ \A node : While(node) => BlocksInv'
         /\ \A node : For(node) => BlocksInv'
<1>1. ASSUME NEW node, While(node) PROVE BlocksInv'
  <2>1. CASE \E how : Stop(how)
    BY <2>1, StopAccounts
  <2>2. CASE ~\E how : Stop(how)
    <3>1. StmtExpected /\ Loop(Enter("while"))
      BY <1>1, <2>2 DEF While
    <3>. QED  BY <3>1, NewFrame, LoopAccounts
  <2>. QED  BY <2>1, <2>2
<1>2. ASSUME NEW node, For(node) PROVE BlocksInv'
  <2>1. CASE \E how : Stop(how)
    BY <2>1, StopAccounts
  <2>2. CASE ~\E how : Stop(how)
    <3>. DEFINE f == [Enter("for") EXCEPT !.end = node.end]
    <3>1. StmtExpected /\ Loop(f)
      BY <1>2, <2>2 DEF For
    <3>2. f.k = "for" /\ IsFrame(f) /\ f.kids = 0
      BY DEF Enter, IsFrame
    <3>. HIDE DEF f
    <3>. QED  BY <3>1, <3>2, LoopAccounts
  <2>. QED  BY <2>1, <2>2
<1>. QED  BY <1>1, <1>2

\* The then-branch of an `if` is done.
LEMMA ElseBegunAttaches ==
  ASSUME BlocksInv, stack # <<>>, Top.k = "if", Top.kids = 1
  PROVE  AttachedMore(bbs, ElseBegun(bbs, Top), {Top.alt})
<1>. DEFINE bs == Br(bbs, ip, Top.next)
<1>1. AttachedMore(bbs, bs, {})
  BY BrAttaches DEF BlocksInv, Accounts
<1>2. Top.alt \in 1..Len(bbs)
  BY TopSound DEF Pending
<1>. HIDE DEF bs
<1>3. AttachedMore(bs, Attach(bs, Top.alt), {Top.alt})
  BY <1>1, <1>2, AttachAttaches DEF AttachedMore
<1>4. {} \cap {Top.alt} = {} /\ {} \cup {Top.alt} = {Top.alt}
  OBVIOUS
<1>5. AttachedMore(bbs, Attach(bs, Top.alt), {} \cup {Top.alt})
  BY <1>1, <1>3, <1>4, ThenAttaches
<1>. QED  BY <1>4, <1>5 DEF ElseBegun, bs

LEMMA ElseAccounts ==
  ASSUME BlocksInv, Else
  PROVE  BlocksInv'
<1>. DEFINE g == [Top EXCEPT !.kids = @ + 1]
            f == [Enter("else") EXCEPT !.entry = Top.alt, !.terms = 0]
<1>1. /\ stack # <<>> /\ Top.k = "if" /\ Top.kids = 1
      /\ bbs' = ElseBegun(bbs, Top) /\ stack' = Append(Begun, f)
  BY DEF Else
<1>2. Sound(Top)
  BY <1>1, TopSound
<1>3. /\ IsFrame(g) /\ g.kids = 2
      /\ g.k = Top.k /\ g.next = Top.next /\ g.alt = Top.alt /\ g.own = Top.own
  BY <1>1, <1>2 DEF Sound, IsFrame
<1>4. Begun = Append(Below, g)
  BY <1>1 DEF Begun, ListKinds
<1>5. f.k = "else" /\ IsFrame(f) /\ f.kids = 0
  BY DEF Enter, IsFrame
<1>. HIDE DEF f, g
<1>6. Sound(g) /\ Sound(f) /\ Pending(f) = {}
  BY <1>2, <1>3, <1>5 DEF Sound, Distinct, Pending
<1>7. Pending(g) \subseteq Pending(Top) /\ Pending(Top) \ Pending(g) = {Top.alt}
  BY <1>1, <1>2, <1>3 DEF Sound, Distinct, Pending
<1>8. AttachedMore(bbs, bbs', Pending(Top) \ Pending(g))
  BY <1>1, <1>7, ElseBegunAttaches
<1>9. Accounts(bbs', Append(Below, g))
  BY <1>1, <1>6, <1>7, <1>8, ReplaceAccounts DEF BlocksInv, Below, Top
<1>10. Accounts(bbs', Append(Begun, f))
  BY <1>4, <1>6, <1>9, PushIdle
<1>. QED  BY <1>1, <1>10 DEF BlocksInv

\* A handler returns.
LEMMA LeaveAccounts ==
  ASSUME BlocksInv, stack # <<>>, stack' = Below, AttachedMore(bbs, bbs', Pending(Top))
  PROVE  BlocksInv'
  BY PopAccounts DEF BlocksInv, Below, Top

\* A branch to the block the handler goes on in, and that block.
LEMMA NextAttaches ==
  ASSUME NEW bs, AreBlocks(bs), NEW at, NEW to, NEW next \in 1..Len(bs)
  PROVE  AttachedMore(bs, Attach(Br(bs, at, to), next), {next})
<1>. DEFINE bs1 == Br(bs, at, to)
<1>1. AttachedMore(bs, bs1, {})
  BY BrAttaches
<1>. HIDE DEF bs1
<1>2. AttachedMore(bs1, Attach(bs1, next), {next})
  BY <1>1, AttachAttaches DEF AttachedMore
<1>3. {} \cap {next} = {} /\ {} \cup {next} = {next}
  OBVIOUS
<1>4. AttachedMore(bs, Attach(bs1, next), {} \cup {next})
  BY <1>1, <1>2, <1>3, ThenAttaches
<1>. QED  BY <1>3, <1>4 DEF bs1

LEMMA ExitIfAccounts ==
  ASSUME BlocksInv, ExitIf
  PROVE  BlocksInv'
<1>. DEFINE at == IF Top.kids = 1 THEN Top.alt ELSE ip
            half == IF Top.kids = 1 THEN ElseBegun(bbs, Top) ELSE bbs
            done == IF Top.kids = 1 THEN {Top.alt} ELSE {}
            rest == IF Top.own THEN {Top.next} ELSE {}
<1>1. /\ stack # <<>> /\ stack' = Below /\ Top.k = "if" /\ Top.kids >= 1
      /\ bbs' = IF Top.own THEN Attach(Br(half, at, Top.next), Top.next) ELSE half
  BY DEF ExitIf, Leaving, ListKinds
<1>2. Sound(Top) /\ Pending(Top) \subseteq 1..Len(bbs)
  BY <1>1, TopSound
<1>3. AttachedMore(bbs, half, done)
  BY <1>1, ElseBegunAttaches, NothingAttached DEF BlocksInv, Accounts
<1>4. Pending(Top) = done \cup rest
  BY <1>1, <1>2 DEF Sound, Pending
<1>5. done \cap rest = {}
  BY <1>1, <1>2 DEF Sound, Distinct
<1>. HIDE DEF half, done, at
<1>6. AreBlocks(half) /\ Len(half) = Len(bbs)
  BY <1>3 DEF AttachedMore
<1>7. AttachedMore(half, bbs', rest)
  <2>1. CASE Top.own
    <3>1. Top.next \in 1..Len(half)
      BY <2>1, <1>2, <1>4, <1>6
    <3>. QED  BY <2>1, <3>1, <1>1, <1>6, NextAttaches
  <2>2. CASE ~Top.own
    BY <2>2, <1>1, <1>6, NothingAttached
  <2>. QED  BY <2>1, <2>2
<1>8. AttachedMore(bbs, bbs', Pending(Top))
  <2>. HIDE DEF rest
  <2>. QED  BY <1>3, <1>4, <1>5, <1>7, ThenAttaches
<1>. QED  BY <1>1, <1>8, LeaveAccounts

LEMMA ExitSwitchAccounts ==
  ASSUME BlocksInv, ExitSwitch
  PROVE  BlocksInv'
<1>. DEFINE half == Attach(Br(bbs, Top.alt, Top.next), Top.alt)
<1>1. /\ stack # <<>> /\ stack' = Below /\ Top.k = "switch"
      /\ bbs' = Attach(half, Top.next)
  BY DEF ExitSwitch, Leaving
<1>2. /\ Pending(Top) = {Top.alt} \cup {Top.next}
      /\ {Top.alt} \cap {Top.next} = {}
      /\ Top.alt \in 1..Len(bbs) /\ Top.next \in 1..Len(bbs)
  BY <1>1, TopSound DEF Sound, Distinct, Pending
<1>3. AttachedMore(bbs, half, {Top.alt})
  BY <1>2, NextAttaches DEF BlocksInv, Accounts
<1>. HIDE DEF half
<1>4. AttachedMore(half, bbs', {Top.next})
  BY <1>1, <1>2, <1>3, AttachAttaches DEF AttachedMore
<1>5. AttachedMore(bbs, bbs', {Top.alt} \cup {Top.next})
  BY <1>2, <1>3, <1>4, ThenAttaches
<1>. QED  BY <1>1, <1>2, <1>5, LeaveAccounts

LEMMA ExitLoopAccounts ==
  ASSUME BlocksInv, stack # <<>>, stack' = Below, Top.k \in {"while", "for"}, LoopClosed
  PROVE  BlocksInv'
<1>1. Pending(Top) = {Top.next} /\ Top.next \in 1..Len(bbs)
  BY TopSound DEF Pending
<1>2. AttachedMore(bbs, bbs', {Top.next})
  BY <1>1, NextAttaches DEF BlocksInv, Accounts, LoopClosed
<1>. QED  BY <1>1, <1>2, LeaveAccounts

LEMMA ExitIdleAccounts ==
  ASSUME BlocksInv, ExitBlock \/ ExitElse \/ ExitCase
  PROVE  BlocksInv'
<1>1. /\ stack # <<>> /\ stack' = Below
      /\ Top.k \in {"fn", "block", "arrow", "else", "case", "case_arrow"}
      /\ bbs' = bbs \/ bbs' = Br(bbs, ip, Top.next)
  BY DEF ExitBlock, ExitElse, ExitCase, CaseEnded, Leaving
<1>2. Pending(Top) = {}
  BY <1>1 DEF Pending
<1>3. AreBlocks(bbs)
  BY DEF BlocksInv, Accounts
<1>4. AttachedMore(bbs, bbs, {}) /\ AttachedMore(bbs, Br(bbs, ip, Top.next), {})
  BY <1>3, BrAttaches, NothingAttached
<1>5. AttachedMore(bbs, bbs', {})
  BY <1>1, <1>4
<1>. QED  BY <1>1, <1>2, <1>5, LeaveAccounts

LEMMA ExitAccounts ==
  ASSUME BlocksInv, Exit
  PROVE  BlocksInv'
<1>1. ASSUME ExitWhile PROVE BlocksInv'
  BY <1>1, ExitLoopAccounts DEF ExitWhile, Leaving
<1>2. ASSUME ExitFor PROVE BlocksInv'
  BY <1>2, ExitLoopAccounts, StopAccounts DEF ExitFor, Leaving
<1>. QED  BY <1>1, <1>2, ExitIdleAccounts, ExitIfAccounts, ExitSwitchAccounts DEF Exit

\* A function begins; the blocks of the one before are LLVM's.
LEMMA FnAccounts ==
  ASSUME BlocksInv, NEW node, Fn(node)
  PROVE  BlocksInv'
<1>1. CASE \E how : Stop(how)
  BY <1>1, StopAccounts
<1>2. CASE ~\E how : Stop(how)
  <2>. DEFINE f == [Enter("fn") EXCEPT !.merge = None, !.switch = None,
                      !.values = Added(node), !.first = 1, !.entry = 1, !.terms = 0]
              none == <<>>
              new == <<1>>
  <2>1. stack' = <<f>> /\ bbs' = Blocks(new)
    BY <1>2 DEF Fn
  <2>2. f.k = "fn" /\ IsFrame(f) /\ f.kids = 0
    BY DEF Enter, IsFrame
  <2>3. /\ new \in Seq({0, 1}) /\ Len(new) = 1 /\ new[1] = 1
        /\ none \in Seq({}) /\ Len(none) = 0
    OBVIOUS
  <2>4. stack' = Append(none, f) /\ bbs' = none \o Blocks(new)
    <3>. HIDE DEF f
    <3>. QED  BY <2>1 DEF Blocks
  <2>. HIDE DEF f, new, none
  <2>5. Accounts(none, none)
    BY <2>3 DEF Accounts, AreBlocks
  <2>6. Sound(f) /\ Pending(f) = {}
    BY <2>2 DEF Sound, Distinct, Pending
  <2>7. /\ Pending(f) \subseteq (Len(none) + 1)..(Len(none) + Len(new))
        /\ \A i \in 1..Len(new) : new[i] = 0 <=> Len(none) + i \in Pending(f)
    BY <2>3, <2>6
  <2>8. Accounts(none \o Blocks(new), Append(none, f))
    BY <2>3, <2>5, <2>6, <2>7, PushAccounts
  <2>. QED  BY <2>4, <2>8 DEF BlocksInv
<1>. QED  BY <1>1, <1>2

LEMMA DeclAccounts ==
  ASSUME BlocksInv
  PROVE  /\ \A node : ExternFn(node) => BlocksInv'
         /\ \A node : TypeDecl(node) => BlocksInv'
<1>1. ASSUME NEW node, ExternFn(node) PROVE bbs' = bbs /\ stack' = stack
  BY <1>1 DEF ExternFn, Stop
<1>2. ASSUME NEW node, TypeDecl(node) PROVE bbs' = bbs /\ stack' = stack
  BY <1>2 DEF TypeDecl, Stop
<1>. QED  BY <1>1, <1>2 DEF BlocksInv

(***************************************************************************)
(* Every block of the function is given to it once, but for the blocks of  *)
(* exactly one open handler each, which are not in it yet.                 *)
(***************************************************************************)
THEOREM BlocksAccountedFor == Spec => []BlocksInv
<1>1. Init => BlocksInv
  <2>. SUFFICES ASSUME Init PROVE BlocksInv
    OBVIOUS
  <2>1. /\ bbs = <<>> /\ bbs \in Seq({}) /\ Len(bbs) = 0
        /\ stack = <<>> /\ stack \in Seq({}) /\ Len(stack) = 0
    BY DEF Init
  <2>. QED  BY <2>1 DEF BlocksInv, Accounts, AreBlocks
<1>2. BlocksInv /\ [Next]_vars => BlocksInv'
  <2>. SUFFICES ASSUME BlocksInv, [Next]_vars PROVE BlocksInv'
    OBVIOUS
  <2>1. CASE UNCHANGED vars
    BY <2>1 DEF vars, BlocksInv
  <2>2. CASE Next
    BY <2>2, FnAccounts, DeclAccounts, SimpleAccounts, BlockAccounts, IfAccounts,
       ElseAccounts, WhileAccounts, SwitchAccounts, CaseAccounts, ExitAccounts DEF Next
  <2>. QED  BY <2>1, <2>2
<1>. QED  BY <1>1, <1>2, PTL DEF Spec

(***************************************************************************)
(* Whatever statements a function is made of, each of its basic blocks is  *)
(* attached at most once, and one that is not is awaited by an open        *)
(* handler: at the end of the function every block is in it.               *)
(***************************************************************************)
THEOREM AttachedOnceAlways == Spec => []AttachedOnce
<1>1. BlocksInv => AttachedOnce
  <2>1. \A b : b \in AllPending <=> Awaited(stack, b)
    BY DEF AllPending, Awaited
  <2>. QED  BY <2>1 DEF BlocksInv, Accounts, AttachedOnce
<1>. QED  BY <1>1, BlocksAccountedFor, PTL

-----------------------------------------------------------------------------
(* How blocks end.  A block is good to insert at when nothing or a return   *)
(* ends it so far, and fine when only a return ends it early.               *)

Good(bb) == bb.terms # <<>> => bb.terms[1].k = "ret"
Fine(bb) == Len(bb.terms) > 1 => bb.terms[1].k = "ret"

\* What an instruction that is no terminator does to a block, and a terminator.
Alike(bb, bb2) ==
  /\ bb2.terms = <<>> <=> bb.terms = <<>>
  /\ Good(bb) => Good(bb2)
  /\ Fine(bb) => Fine(bb2)

Closes(bb, bb2) == bb2.terms # <<>> /\ (Good(bb) => Fine(bb2))

Keep(bs, bs2) == Len(bs2) = Len(bs) /\ \A b \in 1..Len(bs) : Alike(bs[b], bs2[b])

Ends(bs, bs2, at) ==
  /\ Len(bs2) = Len(bs)
  /\ \A b \in 1..Len(bs) :
       IF b = at THEN Closes(bs[b], bs2[b]) ELSE Alike(bs[b], bs2[b])

LEMMA AlikeSelf ==
  ASSUME NEW bb, NEW bb2, bb2.terms = bb.terms
  PROVE  Alike(bb, bb2)
  BY DEF Alike, Good, Fine

LEMMA WithAt ==
  ASSUME NEW bs \in Seq(BB), NEW at, NEW e \in BB
  PROVE  \A b \in 1..Len(bs) : With(bs, at, e)[b] = IF b = at THEN e ELSE bs[b]
<1>1. \A bb \in BB : IsBlock(bb)
  BY DEF BB, IsBlock
<1>2. IsBlock(e) /\ AreBlocks(bs)
  BY <1>1 DEF AreBlocks
<1>. QED  BY <1>2, Changed

LEMMA TermCloses ==
  ASSUME NEW bb \in BB, NEW k \in {"br", "condbr", "switch", "ret"},
         NEW to \in SUBSET Nat
  PROVE  /\ Terminated(bb, k, to) \in BB
         /\ Closes(bb, Terminated(bb, k, to))
         /\ k = "ret" /\ Good(bb) => Good(Terminated(bb, k, to))
<1>. DEFINE old == bb.terms
            t == [k |-> k, to |-> to]
            new == Append(old, t)
<1>1. old \in Seq(Term) /\ t \in Term /\ t.k = k
  BY DEF BB, Term
<1>2. Terminated(bb, k, to) = [bb EXCEPT !.terms = new]
  BY DEF Terminated
<1>. HIDE DEF old, t
<1>3. /\ new \in Seq(Term) /\ Len(new) = Len(old) + 1 /\ new # <<>>
      /\ new[1] = IF Len(old) = 0 THEN t ELSE old[1]
      /\ Len(old) \in Nat /\ (Len(old) = 0 <=> old = <<>>)
  BY <1>1
<1>. HIDE DEF new
<1>4. Terminated(bb, k, to) \in BB /\ Terminated(bb, k, to).terms = new
  BY <1>2, <1>3 DEF BB
<1>. QED  BY <1>1, <1>3, <1>4 DEF Closes, Good, Fine, old

LEMMA InstrEnds ==
  ASSUME NEW bs \in Seq(BB), NEW at \in 1..Len(bs), NEW to \in SUBSET Nat,
         NEW k \in {"br", "condbr", "switch", "ret"}
  PROVE  LET bs2 == With(bs, at, Terminated(bs[at], k, to))
         IN /\ bs2 \in Seq(BB) /\ Ends(bs, bs2, at)
            /\ k = "ret" /\ Good(bs[at]) => Good(bs2[at])
<1>. DEFINE e == Terminated(bs[at], k, to)
            bs2 == With(bs, at, e)
<1>1. bs[at] \in BB
  OBVIOUS
<1>2. e \in BB /\ Closes(bs[at], e) /\ (k = "ret" /\ Good(bs[at]) => Good(e))
  BY <1>1, TermCloses
<1>. HIDE DEF e
<1>3. \A b \in 1..Len(bs) : bs2[b] = IF b = at THEN e ELSE bs[b]
  BY <1>2, WithAt
<1>4. bs2 \in Seq(BB) /\ Len(bs2) = Len(bs)
  BY <1>2, BlockTyped
<1>. HIDE DEF bs2
<1>. QED  BY <1>2, <1>3, <1>4, AlikeSelf DEF Ends, bs2, e

LEMMA BrEnds ==
  ASSUME NEW bs \in Seq(BB), NEW at \in 1..Len(bs), NEW to \in Nat
  PROVE  Br(bs, at, to) \in Seq(BB) /\ Ends(bs, Br(bs, at, to), at)
<1>. DEFINE k == "br"
            t == {to}
<1>1. t \in SUBSET Nat /\ k \in {"br", "condbr", "switch", "ret"}
  OBVIOUS
<1>2. Br(bs, at, to) = With(bs, at, Terminated(bs[at], k, t))
  BY DEF Br, With
<1>. HIDE DEF k, t
<1>3. LET bs2 == With(bs, at, Terminated(bs[at], k, t))
      IN bs2 \in Seq(BB) /\ Ends(bs, bs2, at)
  BY <1>1, InstrEnds
<1>. QED  BY <1>2, <1>3

LEMMA CondBrEnds ==
  ASSUME NEW bs \in Seq(BB), NEW at \in 1..Len(bs), NEW to \in SUBSET Nat
  PROVE  CondBr(bs, at, to) \in Seq(BB) /\ Ends(bs, CondBr(bs, at, to), at)
<1>. DEFINE k == "condbr"
<1>1. k \in {"br", "condbr", "switch", "ret"}
  OBVIOUS
<1>2. CondBr(bs, at, to) = With(bs, at, Terminated(bs[at], k, to))
  BY DEF CondBr, With
<1>. HIDE DEF k
<1>3. LET bs2 == With(bs, at, Terminated(bs[at], k, to))
      IN bs2 \in Seq(BB) /\ Ends(bs, bs2, at)
  BY <1>1, InstrEnds
<1>. QED  BY <1>2, <1>3

LEMMA SwitchEnds ==
  ASSUME NEW bs \in Seq(BB), NEW at \in 1..Len(bs), NEW to \in Nat
  PROVE  LET bs2 == [bs EXCEPT ![at] = Terminated(@, "switch", {to})]
         IN bs2 \in Seq(BB) /\ Ends(bs, bs2, at)
<1>. DEFINE k == "switch"
            t == {to}
            bs2 == [bs EXCEPT ![at] = Terminated(@, "switch", {to})]
<1>1. t \in SUBSET Nat /\ k \in {"br", "condbr", "switch", "ret"}
  OBVIOUS
<1>2. bs2 = With(bs, at, Terminated(bs[at], k, t))
  BY DEF With
<1>. HIDE DEF k, t, bs2
<1>3. LET bs3 == With(bs, at, Terminated(bs[at], k, t))
      IN bs3 \in Seq(BB) /\ Ends(bs, bs3, at)
  BY <1>1, InstrEnds
<1>. QED  BY <1>2, <1>3 DEF bs2

LEMMA RetEnds ==
  ASSUME NEW bs \in Seq(BB), NEW at \in 1..Len(bs)
  PROVE  LET bs2 == [bs EXCEPT ![at] = Terminated(@, "ret", {})]
         IN Ends(bs, bs2, at) /\ (Good(bs[at]) => Good(bs2[at]))
<1>. DEFINE k == "ret"
            t == {}
            bs2 == [bs EXCEPT ![at] = Terminated(@, "ret", {})]
<1>1. t \in SUBSET Nat /\ k \in {"br", "condbr", "switch", "ret"} /\ k = "ret"
  OBVIOUS
<1>2. bs2 = With(bs, at, Terminated(bs[at], k, t))
  BY DEF With
<1>. HIDE DEF k, t, bs2
<1>3. LET bs3 == With(bs, at, Terminated(bs[at], k, t))
      IN Ends(bs, bs3, at) /\ (Good(bs[at]) => Good(bs3[at]))
  BY <1>1, InstrEnds
<1>. QED  BY <1>2, <1>3 DEF bs2

LEMMA AttachKeeps ==
  ASSUME NEW bs \in Seq(BB), NEW b
  PROVE  Attach(bs, b) \in Seq(BB) /\ Keep(bs, Attach(bs, b))
<1>. DEFINE bb == bs[b]
            e == [bb EXCEPT !.attached = @ + 1]
<1>1. Attach(bs, b) \in Seq(BB) /\ Len(Attach(bs, b)) = Len(bs)
  BY AttachTyped
<1>2. CASE b \in 1..Len(bs)
  <2>1. bb \in BB
    BY <1>2
  <2>2. Attach(bs, b) = With(bs, b, e)
    BY DEF Attach, With
  <2>. HIDE DEF bb
  <2>3. e \in BB /\ e.terms = bb.terms
    BY <2>1 DEF BB
  <2>. HIDE DEF e
  <2>4. \A i \in 1..Len(bs) : Attach(bs, b)[i] = IF i = b THEN e ELSE bs[i]
    BY <2>2, <2>3, WithAt
  <2>5. \A i \in 1..Len(bs) : Attach(bs, b)[i].terms = bs[i].terms
    BY <2>3, <2>4 DEF bb
  <2>. QED  BY <1>1, <2>5, AlikeSelf DEF Keep
<1>3. CASE b \notin 1..Len(bs)
  <2>1. DOMAIN bs = 1..Len(bs)
    OBVIOUS
  <2>2. Attach(bs, b) = bs
    BY <1>3, <2>1 DEF Attach
  <2>. QED  BY <1>1, <2>2, AlikeSelf DEF Keep
<1>. QED  BY <1>2, <1>3

\* addCase changes where a switch leads and not that it is one.
LEMMA AddCaseKeeps ==
  ASSUME NEW bs \in Seq(BB), NEW b \in Nat
  PROVE  Keep(bs, AddCase(bs, b))
<1>. DEFINE bb == bs[switch.at]
            old == bb.terms
            t == switch.term
            u == [old[t] EXCEPT !.to = @ \cup {b}]
            new == [old EXCEPT ![t] = u]
            e == WithCase(bb, switch.term, b)
<1>1. AddCase(bs, b) \in Seq(BB) /\ Len(AddCase(bs, b)) = Len(bs)
  BY AddCaseTyped
<1>2. CASE switch.at \in 1..Len(bs)
  <2>1. bb \in BB
    BY <1>2
  <2>2. AddCase(bs, b) = With(bs, switch.at, e)
    BY DEF AddCase, With
  <2>3. e = [bb EXCEPT !.terms = new]
    BY DEF WithCase
  <2>. HIDE DEF bb, t, e
  <2>4. old \in Seq(Term)
    BY <2>1 DEF BB
  <2>5. new \in Seq(Term) /\ Len(new) = Len(old) /\ (Len(old) > 0 => new[1].k = old[1].k)
    <3>1. CASE t \in 1..Len(old)
      <4>1. old[t] \in Term
        BY <2>4, <3>1
      <4>2. u \in Term /\ u.k = old[t].k
        BY <4>1 DEF Term
      <4>. HIDE DEF u, old
      <4>3. new \in Seq(Term) /\ Len(new) = Len(old)
        BY <2>4, <3>1, <4>2, ExceptSeq
      <4>4. \A i \in 1..Len(old) : new[i] = IF i = t THEN u ELSE old[i]
        BY <2>4, <3>1, <4>2, ExceptSeq
      <4>5. Len(old) > 0 => 1 \in 1..Len(old)
        BY <2>4
      <4>. QED  BY <4>2, <4>3, <4>4, <4>5
    <3>2. CASE t \notin 1..Len(old)
      <4>. HIDE DEF u, old
      <4>1. DOMAIN old = 1..Len(old)
        BY <2>4
      <4>2. new = old
        BY <2>4, <3>2, <4>1
      <4>. QED  BY <2>4, <4>2
    <3>. QED  BY <3>1, <3>2
  <2>. HIDE DEF new
  <2>6. e \in BB /\ e.terms = new
    BY <2>1, <2>3, <2>5 DEF BB
  <2>7. Alike(bb, e)
    BY <2>4, <2>5, <2>6 DEF Alike, Good, Fine
  <2>8. \A i \in 1..Len(bs) : AddCase(bs, b)[i] = IF i = switch.at THEN e ELSE bs[i]
    BY <2>2, <2>6, WithAt
  <2>. QED  BY <1>1, <2>7, <2>8, AlikeSelf DEF Keep, bb
<1>3. CASE switch.at \notin 1..Len(bs)
  <2>1. DOMAIN bs = 1..Len(bs)
    OBVIOUS
  <2>2. AddCase(bs, b) = bs
    BY <1>3, <2>1 DEF AddCase
  <2>. QED  BY <1>1, <2>2, AlikeSelf DEF Keep
<1>. QED  BY <1>2, <1>3

\* New blocks are empty, and those there were are what they were.
LEMMA BlocksEmpty ==
  ASSUME NEW bs \in Seq(BB), NEW new \in Seq({0, 1})
  PROVE  LET all == bs \o Blocks(new)
         IN /\ all \in Seq(BB) /\ Len(all) = Len(bs) + Len(new)
            /\ \A b \in 1..Len(bs) : all[b] = bs[b]
            /\ \A b \in (Len(bs) + 1)..Len(all) : all[b].terms = <<>>
<1>. DEFINE made == Blocks(new)
            all == bs \o made
<1>1. all \in Seq(BB) /\ Len(all) = Len(bs) + Len(new)
  BY BlocksTyped
<1>2. Len(new) \in Nat /\ Len(bs) \in Nat
  OBVIOUS
<1>3. Len(made) = Len(new) /\ \A i \in 1..Len(new) : made[i].terms = <<>>
  BY <1>2 DEF Blocks
<1>4. \E S : bs \in Seq(S) /\ made \in Seq(S)
  <2>1. made \in Seq({[attached |-> new[i], terms |-> <<>>] : i \in 1..Len(new)})
    BY <1>2 DEF Blocks
  <2>. DEFINE T == {[attached |-> new[i], terms |-> <<>>] : i \in 1..Len(new)}
  <2>. HIDE DEF T, made
  <2>2. bs \in Seq(BB \cup T) /\ made \in Seq(BB \cup T)
    BY <2>1 DEF T
  <2>. QED  BY <2>2
<1>. HIDE DEF made
<1>5. \A i \in 1..Len(bs) + Len(made) :
        all[i] = IF i <= Len(bs) THEN bs[i] ELSE made[i - Len(bs)]
  BY <1>4, ConcatProperties
<1>. HIDE DEF all
<1>6. \A b \in 1..Len(bs) : all[b] = bs[b]
  BY <1>2, <1>3, <1>5
<1>7. \A b \in (Len(bs) + 1)..Len(all) : all[b].terms = <<>>
  BY <1>1, <1>2, <1>3, <1>5
<1>. QED  BY <1>1, <1>6, <1>7 DEF all, made

Cases == {"case", "case_arrow"}

Awaiting(s) == UNION {Pending(s[i]) : i \in 1..Len(s)}

InDefault(s) == \E i \in 1..Len(s) : s[i].default

\* The switch_info_ inside the i-th handler.
SwitchInside(s, sw, i) == IF i = Len(s) THEN sw ELSE s[i + 1].switch

\* Where cases are, what they find, and what a default may have inside.
Placed(s, at, sw) ==
  /\ \A i \in 1..Len(s) : s[i].k \in Cases <=> i > 1 /\ s[i - 1].k = "switch"
  /\ \A i \in 1..Len(s) : s[i].k = "switch" =>
       SwitchInside(s, sw, i).default = s[i].alt
  /\ \A i \in 1..Len(s) : s[i].default =>
       /\ s[i].k \in Cases /\ at = s[i - 1].alt
       /\ \A j \in 1..Len(s) : j > i => s[j].k = "block"

\* The blocks W are still awaited, and code is inserted at block at.
Ended(bs, W, at) ==
  \A b \in 1..Len(bs) :
    /\ Fine(bs[b])
    /\ bs[b].terms = <<>> => b = at \/ b \in W
    /\ b \in W => Good(bs[b])

Here(bs, s, at) ==
  s # <<>> =>
    IF s[Len(s)].k = "switch"
    THEN bs[at].terms # <<>> \/ at = s[Len(s)].alt
    ELSE Good(bs[at]) /\ (at \in Awaiting(s) => InDefault(s))

EndInv ==
  Structured => /\ Placed(stack, ip, switch)
                /\ Ended(bbs, Awaiting(stack), ip)
                /\ Here(bbs, stack, ip)

-----------------------------------------------------------------------------
(* The blocks.                                                              *)

\* A handler ends the current block and makes others, of which it awaits P.
LEMMA BranchEnded ==
  ASSUME NEW bs \in Seq(BB), NEW W, NEW at, Ended(bs, W, at),
         at \notin W, Good(bs[at]), W \subseteq 1..Len(bs),
         NEW bs2 \in Seq(BB), NEW at2, NEW P, Len(bs) <= Len(bs2),
         P \subseteq (Len(bs) + 1)..Len(bs2),
         \A b \in 1..Len(bs) :
           IF b = at THEN Closes(bs[b], bs2[b]) ELSE Alike(bs[b], bs2[b]),
         \A b \in (Len(bs) + 1)..Len(bs2) :
           /\ Fine(bs2[b])
           /\ bs2[b].terms = <<>> => b = at2 \/ b \in P
           /\ b \in P => Good(bs2[b])
  PROVE  Ended(bs2, W \cup P, at2)
<1>1. Len(bs) \in Nat /\ Len(bs2) \in Nat
  OBVIOUS
<1>2. ASSUME NEW b \in 1..Len(bs2)
      PROVE  /\ Fine(bs2[b])
             /\ bs2[b].terms = <<>> => b = at2 \/ b \in W \cup P
             /\ b \in W \cup P => Good(bs2[b])
  <2>1. CASE b \in 1..Len(bs)
    <3>1. b \notin P
      BY <2>1, <1>1
    <3>2. CASE b = at
      BY <2>1, <3>1, <3>2 DEF Closes, Ended
    <3>3. CASE b # at
      BY <2>1, <3>1, <3>3 DEF Alike, Ended
    <3>. QED  BY <3>2, <3>3
  <2>2. CASE b \notin 1..Len(bs)
    <3>1. b \in (Len(bs) + 1)..Len(bs2)
      BY <2>2, <1>1
    <3>. QED  BY <2>2, <3>1
  <2>. QED  BY <2>1, <2>2
<1>. QED  BY <1>2 DEF Ended

\* A block is ended and code goes on in another that was awaited.
LEMMA MoveEnded ==
  ASSUME NEW bs \in Seq(BB), NEW W, NEW at0, Ended(bs, W, at0),
         NEW at \in 1..Len(bs), Good(bs[at]),
         at0 = at \/ bs[at0].terms # <<>>,
         NEW at2 \in 1..Len(bs), at2 \in W, at2 # at,
         NEW W2, W2 \subseteq W, at \notin W2, W \ W2 \subseteq {at, at2},
         NEW bs1 \in Seq(BB), Ends(bs, bs1, at), NEW bs2, Keep(bs1, bs2)
  PROVE  Ended(bs2, W2, at2) /\ Good(bs2[at2])
<1>1. Len(bs1) = Len(bs) /\ Len(bs2) = Len(bs)
  BY DEF Ends, Keep
<1>2. Good(bs2[at2])
  BY <1>1 DEF Ended, Ends, Keep, Alike
<1>3. ASSUME NEW b \in 1..Len(bs2)
      PROVE  /\ Fine(bs2[b])
             /\ bs2[b].terms = <<>> => b = at2 \/ b \in W2
             /\ b \in W2 => Good(bs2[b])
  <2>0. Alike(bs1[b], bs2[b]) /\ b \in 1..Len(bs)
    BY <1>1 DEF Keep
  <2>1. CASE b = at
    <3>1. Closes(bs[b], bs1[b])
      BY <2>0, <2>1 DEF Ends
    <3>. QED  BY <2>0, <2>1, <3>1 DEF Closes, Alike
  <2>2. CASE b # at
    <3>1. Alike(bs[b], bs1[b])
      BY <2>0, <2>2 DEF Ends
    <3>2. bs[b].terms = <<>> => b \in W
      BY <2>0, <2>2 DEF Ended
    <3>. QED  BY <2>0, <2>2, <3>1, <3>2 DEF Alike, Ended
  <2>. QED  BY <2>1, <2>2
<1>. QED  BY <1>2, <1>3 DEF Ended

\* A block is ended.
LEMMA CloseEnded ==
  ASSUME NEW bs \in Seq(BB), NEW W, NEW at \in 1..Len(bs), Ended(bs, W, at),
         Good(bs[at]), at \notin W, NEW bs2, Ends(bs, bs2, at)
  PROVE  Ended(bs2, W, at) /\ bs2[at].terms # <<>>
<1>1. ASSUME NEW b \in 1..Len(bs2)
      PROVE  /\ Fine(bs2[b])
             /\ bs2[b].terms = <<>> => b = at \/ b \in W
             /\ b \in W => Good(bs2[b])
  <2>1. b \in 1..Len(bs)
    BY DEF Ends
  <2>2. CASE b = at
    BY <2>1, <2>2 DEF Ends, Closes
  <2>3. CASE b # at
    BY <2>1, <2>3 DEF Ends, Alike, Ended
  <2>. QED  BY <2>2, <2>3
<1>. QED  BY <1>1 DEF Ended, Ends, Closes

\* A return, or nothing, at the block code is inserted at.
LEMMA ReturnEnded ==
  ASSUME NEW bs \in Seq(BB), NEW W, NEW at \in 1..Len(bs), Ended(bs, W, at),
         Good(bs[at]), NEW bs2 \in Seq(BB), Ends(bs, bs2, at), Good(bs2[at])
  PROVE  Ended(bs2, W, at)
<1>1. ASSUME NEW b \in 1..Len(bs2)
      PROVE  /\ Fine(bs2[b])
             /\ bs2[b].terms = <<>> => b = at \/ b \in W
             /\ b \in W => Good(bs2[b])
  <2>1. b \in 1..Len(bs)
    BY DEF Ends
  <2>2. CASE b = at
    BY <2>1, <2>2 DEF Ends, Closes
  <2>3. CASE b # at
    BY <2>1, <2>3 DEF Ends, Alike, Ended
  <2>. QED  BY <2>2, <2>3
<1>. QED  BY <1>1 DEF Ended

LEMMA KeepEnded ==
  ASSUME NEW bs, NEW W, NEW at, Ended(bs, W, at), NEW bs2, Keep(bs, bs2)
  PROVE  Ended(bs2, W, at)
  BY DEF Ended, Keep, Alike

-----------------------------------------------------------------------------
(* The stack.                                                               *)

LEMMA AwaitingPush ==
  ASSUME NEW S, NEW s \in Seq(S), NEW f
  PROVE  Awaiting(Append(s, f)) = Awaiting(s) \cup Pending(f)
<1>. DEFINE t == Append(s, f)
<1>1. /\ Len(t) = Len(s) + 1
      /\ \A i \in 1..Len(s) : t[i] = s[i]
      /\ t[Len(s) + 1] = f
      /\ Len(s) \in Nat
  BY PushShape
<1>. HIDE DEF t
<1>2. 1..Len(t) = 1..Len(s) \cup {Len(s) + 1}
  BY <1>1
<1>3. Awaiting(t) = Awaiting(s) \cup Pending(f)
  BY <1>1, <1>2 DEF Awaiting
<1>. QED  BY <1>3 DEF t

LEMMA AwaitingPop ==
  ASSUME NEW S, NEW s \in Seq(S), s # <<>>
  PROVE  Awaiting(s) = Awaiting(SubSeq(s, 1, Len(s) - 1)) \cup Pending(s[Len(s)])
<1>. DEFINE t == SubSeq(s, 1, Len(s) - 1)
<1>1. /\ Len(s) \in Nat /\ Len(s) > 0
      /\ Len(t) = Len(s) - 1
      /\ \A i \in 1..(Len(s) - 1) : t[i] = s[i]
  BY PopShape
<1>. HIDE DEF t
<1>2. 1..Len(s) = 1..Len(t) \cup {Len(s)} /\ \A i \in 1..Len(t) : t[i] = s[i]
  BY <1>1
<1>3. Awaiting(s) = Awaiting(t) \cup Pending(s[Len(s)])
  BY <1>1, <1>2 DEF Awaiting
<1>. QED  BY <1>3 DEF t

\* What a handler that returns leaves to the others.
LEMMA AwaitingBelow ==
  ASSUME BlocksInv, stack # <<>>
  PROVE  /\ Awaiting(Below) = Awaiting(stack) \ Pending(Top)
         /\ Pending(Top) \subseteq Awaiting(stack)
         /\ Awaiting(stack) \subseteq 1..Len(bbs)
<1>1. PICK S : stack \in Seq(S)
  BY DEF BlocksInv, Accounts
<1>2. /\ Len(stack) \in Nat /\ Len(stack) > 0
      /\ Len(Below) = Len(stack) - 1
      /\ \A i \in 1..(Len(stack) - 1) : Below[i] = stack[i]
  BY <1>1, PopShape DEF Below
<1>3. Awaiting(stack) = Awaiting(Below) \cup Pending(Top)
  BY <1>1, AwaitingPop DEF Below, Top
<1>4. \A i \in 1..Len(Below) : Pending(Below[i]) \cap Pending(Top) = {}
  <2>. SUFFICES ASSUME NEW i \in 1..Len(Below)
                PROVE  Pending(Below[i]) \cap Pending(Top) = {}
    OBVIOUS
  <2>1. i \in 1..Len(stack) /\ Len(stack) \in 1..Len(stack) /\ i # Len(stack)
        /\ Below[i] = stack[i]
    BY <1>2
  <2>. QED  BY <2>1 DEF BlocksInv, Accounts, Top
<1>5. Awaiting(Below) \cap Pending(Top) = {}
  BY <1>4 DEF Awaiting
<1>6. Awaiting(stack) \subseteq 1..Len(bbs)
  BY DEF BlocksInv, Accounts, Awaiting
<1>. QED  BY <1>3, <1>5, <1>6

LEMMA DefaultOnTop ==
  ASSUME NEW S, NEW s \in Seq(S), NEW at, NEW sw, Placed(s, at, sw), InDefault(s)
  PROVE  s # <<>> /\ s[Len(s)].k \in Cases \cup {"block"}
<1>1. PICK i \in 1..Len(s) : s[i].default
  BY DEF InDefault
<1>2. Len(s) \in Nat /\ Len(s) \in 1..Len(s) /\ (i = Len(s) \/ Len(s) > i)
  BY <1>1
<1>. QED  BY <1>1, <1>2 DEF Placed

LEMMA PlacedPush ==
  ASSUME NEW S, NEW s \in Seq(S), NEW at, NEW sw, Placed(s, at, sw),
         NEW f, NEW at2, NEW sw2, f.switch = sw,
         f.k \in Cases <=> s # <<>> /\ s[Len(s)].k = "switch",
         f.k = "switch" => sw2.default = f.alt,
         InDefault(s) => at2 = at /\ f.k = "block",
         f.default => f.k \in Cases /\ at2 = s[Len(s)].alt
  PROVE  Placed(Append(s, f), at2, sw2)
<1>. DEFINE t == Append(s, f)
<1>1. /\ Len(t) = Len(s) + 1
      /\ \A i \in 1..Len(s) : t[i] = s[i]
      /\ t[Len(s) + 1] = f
      /\ Len(s) \in Nat
      /\ s = <<>> <=> Len(s) = 0
  BY PushShape
<1>. HIDE DEF t
<1>2. \A i \in 1..Len(t) : (i \in 1..Len(s) /\ t[i] = s[i]) \/ (i = Len(s) + 1 /\ t[i] = f)
  BY <1>1
<1>3. ASSUME NEW i \in 1..Len(t)
      PROVE  t[i].k \in Cases <=> i > 1 /\ t[i - 1].k = "switch"
  <2>1. CASE i \in 1..Len(s)
    <3>1. t[i] = s[i] /\ (i > 1 => t[i - 1] = s[i - 1])
      BY <2>1, <1>1
    <3>. QED  BY <2>1, <3>1 DEF Placed
  <2>2. CASE i = Len(s) + 1
    <3>1. t[i] = f /\ (i > 1 <=> s # <<>>) /\ (i > 1 => t[i - 1] = s[Len(s)])
      BY <2>2, <1>1
    <3>. QED  BY <3>1
  <2>. QED  BY <1>2, <2>1, <2>2
<1>4. ASSUME NEW i \in 1..Len(t), t[i].k = "switch"
      PROVE  SwitchInside(t, sw2, i).default = t[i].alt
  <2>1. CASE i \in 1..Len(s)
    <3>1. SwitchInside(t, sw2, i) = SwitchInside(s, sw, i)
      <4>1. i # Len(t) /\ (i # Len(s) => t[i + 1] = s[i + 1]) /\ (i = Len(s) => t[i + 1] = f)
        BY <2>1, <1>1
      <4>. QED  BY <4>1 DEF SwitchInside
    <3>. QED  BY <2>1, <3>1, <1>1, <1>4 DEF Placed
  <2>2. CASE i = Len(s) + 1
    BY <2>2, <1>1, <1>4 DEF SwitchInside
  <2>. QED  BY <1>2, <2>1, <2>2
<1>5. ASSUME NEW i \in 1..Len(t), t[i].default
      PROVE  /\ t[i].k \in Cases /\ at2 = t[i - 1].alt
             /\ \A j \in 1..Len(t) : j > i => t[j].k = "block"
  <2>1. CASE i \in 1..Len(s)
    <3>1. s[i].default /\ t[i] = s[i]
      BY <2>1, <1>1, <1>5
    <3>2. InDefault(s)
      BY <2>1, <3>1 DEF InDefault
    <3>3. s[i].k \in Cases /\ at = s[i - 1].alt
          /\ \A j \in 1..Len(s) : j > i => s[j].k = "block"
      BY <2>1, <3>1 DEF Placed
    <3>4. i > 1
      BY <2>1, <3>3 DEF Placed
    <3>5. t[i - 1] = s[i - 1]
      BY <2>1, <3>4, <1>1
    <3>. QED  BY <3>1, <3>2, <3>3, <3>5, <1>2
  <2>2. CASE i = Len(s) + 1
    <3>1. f.k \in Cases /\ at2 = s[Len(s)].alt /\ s # <<>>
      BY <2>2, <1>1, <1>5
    <3>2. t[i - 1] = s[Len(s)]
      BY <2>2, <3>1, <1>1
    <3>. QED  BY <2>2, <3>1, <3>2, <1>1
  <2>. QED  BY <1>2, <2>1, <2>2
<1>. QED  BY <1>3, <1>4, <1>5 DEF Placed, t

LEMMA PlacedPop ==
  ASSUME NEW S, NEW s \in Seq(S), s # <<>>, NEW at, NEW sw, Placed(s, at, sw),
         NEW at2,
         InDefault(SubSeq(s, 1, Len(s) - 1)) => at2 = at
  PROVE  Placed(SubSeq(s, 1, Len(s) - 1), at2, s[Len(s)].switch)
<1>. DEFINE t == SubSeq(s, 1, Len(s) - 1)
            sw2 == s[Len(s)].switch
<1>1. /\ Len(s) \in Nat /\ Len(s) > 0
      /\ Len(t) = Len(s) - 1
      /\ \A i \in 1..(Len(s) - 1) : t[i] = s[i]
  BY PopShape
<1>2. InDefault(t) => at2 = at
  OBVIOUS
<1>. HIDE DEF t
<1>3. \A i \in 1..Len(t) : i \in 1..Len(s) /\ t[i] = s[i] /\ (i > 1 => t[i - 1] = s[i - 1])
  BY <1>1
<1>4. \A i \in 1..Len(t) : t[i].k \in Cases <=> i > 1 /\ t[i - 1].k = "switch"
  BY <1>3 DEF Placed
<1>5. ASSUME NEW i \in 1..Len(t), t[i].k = "switch"
      PROVE  SwitchInside(t, sw2, i).default = t[i].alt
  <2>1. SwitchInside(t, sw2, i) = SwitchInside(s, sw, i)
    <3>1. i # Len(s) /\ (i # Len(t) => t[i + 1] = s[i + 1]) /\ (i = Len(t) => i + 1 = Len(s))
      BY <1>1
    <3>. QED  BY <3>1 DEF SwitchInside
  <2>. QED  BY <2>1, <1>3, <1>5 DEF Placed
<1>6. ASSUME NEW i \in 1..Len(t), t[i].default
      PROVE  /\ t[i].k \in Cases /\ at2 = t[i - 1].alt
             /\ \A j \in 1..Len(t) : j > i => t[j].k = "block"
  <2>1. /\ s[i].k \in Cases /\ at = s[i - 1].alt
        /\ \A j \in 1..Len(s) : j > i => s[j].k = "block"
    BY <1>3, <1>6 DEF Placed
  <2>2. i > 1
    BY <2>1, <1>3 DEF Placed
  <2>3. at2 = at
    BY <1>2, <1>6 DEF InDefault
  <2>. QED  BY <2>1, <2>2, <2>3, <1>3
<1>. QED  BY <1>4, <1>5, <1>6 DEF Placed, t

\* Frames that differ in what is not asked here.
SameFrames(s, t) ==
  /\ Len(t) = Len(s)
  /\ \A i \in 1..Len(s) :
       /\ t[i].k = s[i].k /\ t[i].alt = s[i].alt
       /\ t[i].default = s[i].default /\ t[i].switch = s[i].switch

LEMMA PlacedSame ==
  ASSUME NEW s, NEW t, SameFrames(s, t), Len(s) \in Nat,
         NEW at, NEW sw, Placed(s, at, sw)
  PROVE  Placed(t, at, sw) /\ (InDefault(t) <=> InDefault(s))
<1>1. Len(t) = Len(s) /\ \A i \in 1..Len(s) : i > 1 => i - 1 \in 1..Len(s)
  BY DEF SameFrames
<1>2. \A i \in 1..Len(s) : SwitchInside(t, sw, i) = SwitchInside(s, sw, i)
  <2>1. \A i \in 1..Len(s) : i # Len(s) => i + 1 \in 1..Len(s)
    OBVIOUS
  <2>. QED  BY <2>1, <1>1 DEF SameFrames, SwitchInside
<1>3. \A i \in 1..Len(t) : t[i].k \in Cases <=> i > 1 /\ t[i - 1].k = "switch"
  BY <1>1 DEF SameFrames, Placed
<1>4. \A i \in 1..Len(t) : t[i].k = "switch" => SwitchInside(t, sw, i).default = t[i].alt
  BY <1>1, <1>2 DEF SameFrames, Placed
<1>5. ASSUME NEW i \in 1..Len(t), t[i].default
      PROVE  /\ t[i].k \in Cases /\ at = t[i - 1].alt
             /\ \A j \in 1..Len(t) : j > i => t[j].k = "block"
  <2>1. /\ s[i].k \in Cases /\ at = s[i - 1].alt
        /\ \A j \in 1..Len(s) : j > i => s[j].k = "block"
    BY <1>1, <1>5 DEF SameFrames, Placed
  <2>2. i > 1
    BY <2>1, <1>1 DEF Placed
  <2>. QED  BY <2>1, <2>2, <1>1 DEF SameFrames
<1>6. InDefault(t) <=> InDefault(s)
  BY <1>1 DEF SameFrames, InDefault
<1>. QED  BY <1>3, <1>4, <1>5, <1>6 DEF Placed

-----------------------------------------------------------------------------
(* Steps of a structured program.                                           *)

Known == Structured /\ TypeInv /\ NestInv /\ BlocksInv /\ EndInv

Kept ==
  /\ Placed(stack', ip', switch')
  /\ Ended(bbs', Awaiting(stack'), ip')
  /\ Here(bbs', stack', ip')

\* What is known where a statement begins or ends.
LEMMA KnownNow ==
  ASSUME Known
  PROVE  /\ bbs \in Seq(BB) /\ Len(bbs) \in Nat
         /\ stack \in Seq(Frame) /\ Len(stack) \in Nat
         /\ Placed(stack, ip, switch)
         /\ Ended(bbs, Awaiting(stack), ip)
         /\ Awaiting(stack) \subseteq 1..Len(bbs)
         /\ stack # <<>> =>
              /\ Top \in Frame /\ ip \in 1..Len(bbs)
              /\ Top.k # "switch" =>
                   Good(bbs[ip]) /\ (ip \in Awaiting(stack) => InDefault(stack))
              /\ Top.k = "switch" => bbs[ip].terms # <<>> \/ ip = Top.alt
              /\ InDefault(stack) => Top.k \in Cases \cup {"block"}
<1>1. /\ bbs \in Seq(BB) /\ Len(bbs) \in Nat
      /\ stack \in Seq(Frame) /\ Len(stack) \in Nat
      /\ stack # <<>> => ip \in 1..Len(bbs)
  BY DEF Known, TypeInv, TypeOK, Inserting
<1>2. /\ Placed(stack, ip, switch)
      /\ Ended(bbs, Awaiting(stack), ip) /\ Here(bbs, stack, ip)
  BY DEF Known, EndInv
<1>3. Awaiting(stack) \subseteq 1..Len(bbs)
  BY DEF Known, BlocksInv, Accounts, Awaiting
<1>4. ASSUME stack # <<>>
      PROVE  /\ Top \in Frame
             /\ Top.k # "switch" =>
                  Good(bbs[ip]) /\ (ip \in Awaiting(stack) => InDefault(stack))
             /\ Top.k = "switch" => bbs[ip].terms # <<>> \/ ip = Top.alt
             /\ InDefault(stack) => Top.k \in Cases \cup {"block"}
  <2>1. Top \in Frame
    BY <1>4, TopTyped DEF Known
  <2>2. InDefault(stack) => Top.k \in Cases \cup {"block"}
    BY <1>1, <1>2, DefaultOnTop DEF Top
  <2>. QED  BY <1>2, <1>4, <2>1, <2>2 DEF Here, Top
<1>. QED  BY <1>1, <1>2, <1>3, <1>4

\* What the rules of a structured program say here.
LEMMA RulesNow ==
  ASSUME Known
  PROVE  /\ InCases => Top.k # "switch"
         /\ CasePlace => Top.k = "switch"
         /\ Branching => Top.k # "switch" /\ ~InDefault(stack)
<1>1. "cases" \in rules /\ "inner" \in rules /\ "default" \in rules
  BY DEF Known, Structured, Rules
<1>2. InCases => Top.k # "switch"
  BY <1>1 DEF InCases, Keeps
<1>3. CasePlace => Top.k = "switch"
  BY <1>1 DEF CasePlace, Keeps
<1>4. Branching => ~InDefault(stack)
  BY <1>1 DEF Branching, Keeps, InDefault
<1>. QED  BY <1>2, <1>3, <1>4 DEF Branching

\* A child more changes nothing that is asked.
LEMMA BegunSame ==
  ASSUME Known, stack = <<>> \/ Top.k \in ListKinds \/ Top.kids \in {0, 1}
  PROVE  /\ Begun \in Seq(Frame) /\ Len(Begun) = Len(stack)
         /\ Begun # <<>> <=> stack # <<>>
         /\ stack # <<>> =>
              Begun[Len(Begun)].k = Top.k /\ Begun[Len(Begun)].alt = Top.alt
         /\ Placed(Begun, ip, switch)
         /\ InDefault(Begun) <=> InDefault(stack)
<1>1. /\ stack \in Seq(Frame) /\ Len(stack) \in Nat /\ Placed(stack, ip, switch)
      /\ stack # <<>> => Top \in Frame
  BY KnownNow
<1>2. Begun \in Seq(Frame) /\ Len(Begun) = Len(stack)
  BY BegunTyped DEF Known, FramesOK
<1>3. SameFrames(stack, Begun)
  <2>1. CASE stack = <<>> \/ Top.k \in ListKinds
    BY <1>1, <2>1 DEF SameFrames, Begun
  <2>2. CASE ~(stack = <<>> \/ Top.k \in ListKinds)
    <3>. DEFINE f == Top
                g == [f EXCEPT !.kids = @ + 1]
    <3>1. f \in Frame
      BY <1>1, <2>2
    <3>2. Begun = Append(Below, g)
      BY <2>2 DEF Begun
    <3>3. f = stack[Len(stack)]
      BY DEF Top
    <3>. HIDE DEF f
    <3>4. g.k = f.k /\ g.alt = f.alt /\ g.default = f.default /\ g.switch = f.switch
      BY <3>1 DEF Frame
    <3>. HIDE DEF g
    <3>5. /\ Len(stack) > 0
          /\ Below \in Seq(Frame) /\ Len(Below) = Len(stack) - 1
          /\ \A i \in 1..(Len(stack) - 1) : Below[i] = stack[i]
      BY <1>1, <2>2, PopShape DEF Below
    <3>6. /\ \A i \in 1..Len(Below) : Begun[i] = Below[i]
          /\ Begun[Len(Below) + 1] = g
      BY <3>2, <3>5, PushShape
    <3>7. \A i \in 1..Len(stack) :
            \/ i \in 1..(Len(stack) - 1) /\ Begun[i] = stack[i]
            \/ Begun[i] = g /\ stack[i] = f
      BY <1>1, <3>3, <3>5, <3>6
    <3>. QED  BY <1>2, <3>4, <3>7 DEF SameFrames
  <2>. QED  BY <2>1, <2>2
<1>4. Placed(Begun, ip, switch) /\ (InDefault(Begun) <=> InDefault(stack))
  BY <1>1, <1>3, PlacedSame
<1>5. Begun # <<>> <=> stack # <<>>
  BY <1>1, <1>2
<1>6. stack # <<>> => Begun[Len(Begun)].k = Top.k /\ Begun[Len(Begun)].alt = Top.alt
  BY <1>1, <1>2, <1>3 DEF SameFrames, Top
<1>. QED  BY <1>2, <1>4, <1>5, <1>6

\* It awaits what it did, unless it is an `if` that comes to its else.
LEMMA BegunAwaits ==
  ASSUME Known
  PROVE  /\ stack = <<>> \/ Top.k \in ListKinds \/ Top.kids = 0 =>
              Awaiting(Begun) = Awaiting(stack)
         /\ stack # <<>> /\ Top.k = "if" /\ Top.kids = 1 =>
              Awaiting(Begun) = Awaiting(stack) \ {Top.alt}
<1>1. stack \in Seq(Frame) /\ BlocksInv
  BY KnownNow DEF Known
<1>2. CASE stack = <<>> \/ Top.k \in ListKinds
  BY <1>2 DEF Begun, ListKinds
<1>3. CASE ~(stack = <<>> \/ Top.k \in ListKinds)
  <2>. DEFINE f == Top
              g == [f EXCEPT !.kids = @ + 1]
  <2>1. /\ Awaiting(Below) = Awaiting(stack) \ Pending(f)
        /\ Pending(f) \subseteq Awaiting(stack)
    BY <1>1, <1>3, AwaitingBelow
  <2>2. Below \in Seq(Frame)
    BY <1>1, <1>3, PopShape DEF Below
  <2>3. f \in Frame /\ Sound(f) /\ Begun = Append(Below, g)
    BY <1>1, <1>3, KnownNow, TopSound DEF Begun
  <2>. HIDE DEF f
  <2>4. g.k = f.k /\ g.alt = f.alt /\ g.next = f.next /\ g.own = f.own /\ g.kids = f.kids + 1
        /\ f.kids \in 0..2
    BY <2>3 DEF Frame
  <2>. HIDE DEF g
  <2>5. Awaiting(Begun) = Awaiting(Below) \cup Pending(g)
    BY <2>2, <2>3, AwaitingPush
  <2>6. f.kids = 0 => Pending(g) = Pending(f)
    BY <2>4 DEF Pending
  <2>7. f.k = "if" /\ f.kids = 1 =>
          Pending(g) = Pending(f) \ {f.alt} /\ f.alt \in Pending(f)
    BY <2>3, <2>4 DEF Pending, Sound, Distinct
  <2>. QED  BY <1>3, <2>1, <2>5, <2>6, <2>7 DEF f
<1>. QED  BY <1>2, <1>3

\* A handler that fails.
LEMMA StopEnds ==
  ASSUME EndInv, NEW how, Stop(how), UNCHANGED rules
  PROVE  EndInv'
  BY DEF Stop, EndInv, Structured

\* One that makes no block before it recurses.
LEMMA IdleEnds ==
  ASSUME Known, StmtExpected \/ (stack # <<>> /\ Top.k = "if" /\ Top.kids = 0),
         Top.k # "switch",
         NEW f, f.k \in {"block", "arrow"}, f.switch = switch, ~f.default,
         InDefault(stack) => f.k = "block",
         stack' = Append(Begun, f), UNCHANGED <<bbs, ip, switch>>
  PROVE  Kept
<1>1. /\ stack # <<>>
      /\ Top.k \in ListKinds \/ Top.kids = 0
  BY DEF StmtExpected
<1>2. /\ Begun \in Seq(Frame) /\ Begun # <<>>
      /\ Begun[Len(Begun)].k = Top.k
      /\ Placed(Begun, ip, switch) /\ (InDefault(Begun) <=> InDefault(stack))
  BY <1>1, BegunSame
<1>3. Awaiting(Begun) = Awaiting(stack)
  BY <1>1, BegunAwaits
<1>4. Pending(f) = {}
  BY DEF Pending
<1>5. Awaiting(stack') = Awaiting(stack)
  BY <1>2, <1>3, <1>4, AwaitingPush
<1>6. Placed(Append(Begun, f), ip, switch)
  <2>1. /\ f.k \in Cases <=> Begun # <<>> /\ Begun[Len(Begun)].k = "switch"
        /\ f.k # "switch"
    BY <1>2 DEF Cases
  <2>. QED  BY <1>2, <2>1, PlacedPush
<1>7. InDefault(stack) => InDefault(stack')
  <2>1. Len(Begun) \in Nat /\ \A i \in 1..Len(Begun) : i \in 1..Len(stack') /\ stack'[i] = Begun[i]
    BY <1>2, PushShape
  <2>. QED  BY <1>2, <2>1 DEF InDefault
<1>8. stack'[Len(stack')] = f
  BY <1>2, PushShape
<1>9. Here(bbs', stack', ip')
  BY <1>1, <1>5, <1>7, <1>8, KnownNow DEF Here
<1>. QED  BY <1>5, <1>6, <1>9, KnownNow DEF Kept

\* One that ends the block it finds.
LEMMA BranchEnds ==
  ASSUME Known, StmtExpected, Branching,
         NEW f, f.k \in {"if", "while", "for", "switch"}, f.switch = switch, ~f.default,
         f.k = "switch" => switch'.default = f.alt,
         stack' = Append(Begun, f),
         bbs' \in Seq(BB), Len(bbs) <= Len(bbs'),
         Pending(f) \subseteq (Len(bbs) + 1)..Len(bbs'),
         \A b \in 1..Len(bbs) :
           IF b = ip THEN Closes(bbs[b], bbs'[b]) ELSE Alike(bbs[b], bbs'[b]),
         \A b \in (Len(bbs) + 1)..Len(bbs') :
           /\ Fine(bbs'[b])
           /\ bbs'[b].terms = <<>> => b = ip' \/ b \in Pending(f)
           /\ b \in Pending(f) => Good(bbs'[b]),
         IF f.k = "switch" THEN bbs'[ip'].terms # <<>>
         ELSE /\ ip' \in (Len(bbs) + 1)..Len(bbs') /\ Good(bbs'[ip'])
              /\ ip' \notin Pending(f)
  PROVE  Kept
<1>1. /\ stack # <<>>
      /\ Top.k \in ListKinds \/ Top.kids = 0
  BY DEF StmtExpected
<1>2. Top.k # "switch" /\ ~InDefault(stack)
  BY RulesNow
<1>3. /\ bbs \in Seq(BB) /\ Len(bbs) \in Nat /\ ip \in 1..Len(bbs)
      /\ Good(bbs[ip]) /\ ip \notin Awaiting(stack)
      /\ Awaiting(stack) \subseteq 1..Len(bbs)
      /\ Ended(bbs, Awaiting(stack), ip)
  BY <1>1, <1>2, KnownNow
<1>4. /\ Begun \in Seq(Frame) /\ Begun # <<>>
      /\ Begun[Len(Begun)].k = Top.k
      /\ Placed(Begun, ip, switch) /\ ~InDefault(Begun)
  BY <1>1, <1>2, BegunSame
<1>5. Awaiting(stack') = Awaiting(stack) \cup Pending(f)
  BY <1>1, <1>4, BegunAwaits, AwaitingPush
<1>6. Ended(bbs', Awaiting(stack) \cup Pending(f), ip')
  <2>. DEFINE W == Awaiting(stack)
              bs2 == bbs'
              at2 == ip'
              P == Pending(f)
  <2>1. /\ bs2 \in Seq(BB) /\ Len(bbs) <= Len(bs2)
        /\ P \subseteq (Len(bbs) + 1)..Len(bs2)
        /\ \A b \in 1..Len(bbs) :
             IF b = ip THEN Closes(bbs[b], bs2[b]) ELSE Alike(bbs[b], bs2[b])
        /\ \A b \in (Len(bbs) + 1)..Len(bs2) :
             /\ Fine(bs2[b])
             /\ bs2[b].terms = <<>> => b = at2 \/ b \in P
             /\ b \in P => Good(bs2[b])
        /\ Ended(bbs, W, ip) /\ ip \notin W /\ W \subseteq 1..Len(bbs)
    BY <1>3
  <2>. HIDE DEF W, bs2, at2, P
  <2>2. Ended(bs2, W \cup P, at2)
    BY <1>3, <2>1, BranchEnded
  <2>. QED  BY <2>2 DEF W, bs2, at2, P
<1>7. Placed(Append(Begun, f), ip', switch')
  <2>1. f.k \in Cases <=> Begun # <<>> /\ Begun[Len(Begun)].k = "switch"
    BY <1>2, <1>4 DEF Cases
  <2>. QED  BY <1>4, <2>1, PlacedPush
<1>8. stack'[Len(stack')] = f
  BY <1>4, PushShape
<1>9. Here(bbs', stack', ip')
  <2>1. CASE f.k = "switch"
    BY <1>8, <2>1 DEF Here
  <2>2. CASE f.k # "switch"
    <3>1. ip' \notin Awaiting(stack')
      BY <1>3, <1>5, <2>2
    <3>. QED  BY <1>8, <2>2, <3>1 DEF Here
  <2>. QED  BY <2>1, <2>2
<1>. QED  BY <1>5, <1>6, <1>7, <1>9 DEF Kept

\* A handler returns that is no case: code goes on where its own did, or in a
\* block it has attached.
LEMMA LeaveEnds ==
  ASSUME Known, stack # <<>>, stack' = Below, Top.k \notin Cases,
         switch' = Top.switch,
         Ended(bbs', Awaiting(stack'), ip'), Good(bbs'[ip']),
         \/ Top.k = "block" /\ ip' = ip
         \/ Top.k # "block" /\ ip' \notin Awaiting(stack')
  PROVE  Kept
<1>1. /\ stack \in Seq(Frame) /\ Len(stack) \in Nat /\ Len(stack) > 0
      /\ Placed(stack, ip, switch)
  BY KnownNow
<1>2. /\ Below \in Seq(Frame) /\ Len(Below) = Len(stack) - 1
      /\ \A i \in 1..(Len(stack) - 1) : Below[i] = stack[i]
  BY <1>1, PopShape DEF Below
<1>3. InDefault(Below) => InDefault(stack)
  BY <1>1, <1>2 DEF InDefault
<1>4. InDefault(stack) => Top.k = "block" /\ InDefault(Below)
  <2>1. InDefault(stack) => Top.k = "block"
    BY KnownNow
  <2>2. ASSUME InDefault(stack) PROVE InDefault(Below)
    <3>1. PICK i \in 1..Len(stack) : stack[i].default
      BY <2>2 DEF InDefault
    <3>2. i # Len(stack)
      BY <3>1, <1>1 DEF Placed, Top
    <3>. QED  BY <1>1, <1>2, <3>1, <3>2 DEF InDefault
  <2>. QED  BY <2>1, <2>2
<1>5. InDefault(Below) => ip' = ip
  BY <1>3, <1>4
<1>6. Placed(Below, ip', Top.switch)
  BY <1>1, <1>5, PlacedPop DEF Below, Top
<1>7. Below # <<>> => Below[Len(Below)].k # "switch"
  <2>1. ASSUME Below # <<>> PROVE Below[Len(Below)].k # "switch"
    <3>1. Len(stack) > 1 /\ Below[Len(Below)] = stack[Len(stack) - 1]
          /\ Len(stack) \in 1..Len(stack)
      BY <1>1, <1>2, <2>1
    <3>. QED  BY <3>1, <1>1 DEF Placed, Top
  <2>. QED  BY <2>1
<1>8. ip' \in Awaiting(Below) => InDefault(Below)
  <2>1. CASE Top.k = "block" /\ ip' = ip
    <3>1. Awaiting(Below) \subseteq Awaiting(stack)
      BY AwaitingBelow DEF Known
    <3>. QED  BY <2>1, <3>1, <1>4, KnownNow
  <2>2. CASE Top.k # "block" /\ ip' \notin Awaiting(stack')
    BY <2>2
  <2>. QED  BY <2>1, <2>2
<1>9. Here(bbs', stack', ip')
  BY <1>7, <1>8 DEF Here
<1>. QED  BY <1>6, <1>9 DEF Kept

LEMMA SimpleEnds ==
  ASSUME Known, NEW node, Simple(node), ~Stop("error")
  PROVE  Kept
<1>1. /\ StmtExpected /\ InCases /\ stack' = Begun /\ UNCHANGED <<ip, switch>>
      /\ bbs' = IF node.k = "return"
                THEN [bbs EXCEPT ![ip] = Terminated(@, "ret", {})] ELSE bbs
  BY DEF Simple
<1>2. stack # <<>> /\ (Top.k \in ListKinds \/ Top.kids = 0) /\ Top.k # "switch"
  BY <1>1, RulesNow DEF StmtExpected
<1>3. /\ bbs \in Seq(BB) /\ ip \in 1..Len(bbs)
      /\ Ended(bbs, Awaiting(stack), ip) /\ Good(bbs[ip])
      /\ ip \in Awaiting(stack) => InDefault(stack)
  BY <1>2, KnownNow
<1>4. Ended(bbs', Awaiting(stack), ip) /\ Good(bbs'[ip])
  <2>1. CASE node.k = "return"
    <3>. DEFINE bs == [bbs EXCEPT ![ip] = Terminated(@, "ret", {})]
                W == Awaiting(stack)
    <3>1. bs \in Seq(BB) /\ Ends(bbs, bs, ip) /\ Good(bs[ip])
      BY <1>3, RetEnds, RetTyped
    <3>2. bbs' = bs /\ Ended(bbs, W, ip)
      BY <1>1, <1>3, <2>1
    <3>. HIDE DEF bs, W
    <3>3. Ended(bs, W, ip)
      BY <1>3, <3>1, <3>2, ReturnEnded
    <3>. QED  BY <3>1, <3>2, <3>3 DEF W
  <2>2. CASE node.k # "return"
    BY <1>1, <1>3, <2>2
  <2>. QED  BY <2>1, <2>2
<1>5. Awaiting(stack') = Awaiting(stack)
  BY <1>1, <1>2, BegunAwaits
<1>6. /\ Placed(stack', ip, switch)
      /\ InDefault(stack') <=> InDefault(stack)
      /\ stack'[Len(stack')].k = Top.k
  BY <1>1, <1>2, BegunSame
<1>7. Here(bbs', stack', ip')
  BY <1>1, <1>2, <1>3, <1>4, <1>5, <1>6 DEF Here
<1>. QED  BY <1>1, <1>4, <1>5, <1>6, <1>7 DEF Kept

LEMMA BlockEnds ==
  ASSUME Known
  PROVE  /\ Block => Kept
         /\ \A params : Arrow(params) /\ ~Stop("abort") => Kept
<1>1. ASSUME Block PROVE Kept
  <2>. DEFINE f == Enter("block")
  <2>1. StmtExpected /\ InCases /\ stack' = Append(Begun, f) /\ UNCHANGED <<bbs, ip, switch>>
    BY <1>1 DEF Block
  <2>2. f.k = "block" /\ f.switch = switch /\ ~f.default
    BY DEF Enter
  <2>. HIDE DEF f
  <2>. QED  BY <2>1, <2>2, RulesNow, IdleEnds
<1>2. ASSUME NEW params, Arrow(params), ~Stop("abort") PROVE Kept
  <2>. DEFINE f == [Enter("arrow") EXCEPT !.values = values']
  <2>1. /\ stack # <<>> /\ Top.k = "if" /\ Top.kids = 0
        /\ stack' = Append(Begun, f) /\ UNCHANGED <<bbs, ip, switch>>
    BY <1>2 DEF Arrow, Inject
  <2>2. f.k = "arrow" /\ f.switch = switch /\ ~f.default
    BY DEF Enter
  <2>3. ~InDefault(stack)
    BY <2>1, KnownNow DEF Cases
  <2>. HIDE DEF f
  <2>. QED  BY <2>1, <2>2, <2>3, IdleEnds
<1>. QED  BY <1>1, <1>2

LEMMA IfEnds ==
  ASSUME Known, NEW node, If(node), ~\E how : Stop(how)
  PROVE  Kept
<1>. DEFINE n == Len(bbs)
            own == merge = None
            next == IF own THEN n + 3 ELSE merge
            f == [Enter("if") EXCEPT !.next = next, !.alt = n + 2, !.own = own]
            to == {n + 1, n + 2}
            bs == CondBr(bbs, ip, to)
            new == IF own THEN <<1, 0, 0>> ELSE <<1, 0>>
            all == bs \o Blocks(new)
<1>1. /\ StmtExpected /\ Branching
      /\ stack' = Append(Begun, f) /\ bbs' = all
      /\ ip' = n + 1 /\ UNCHANGED switch
  BY DEF If, IfBlocks
<1>2. bbs \in Seq(BB) /\ n \in Nat /\ ip \in 1..n
  BY <1>1, KnownNow DEF StmtExpected
<1>3. to \in SUBSET Nat
  BY <1>2
<1>4. /\ f.k = "if" /\ f.kids = 0 /\ f.next = next /\ f.alt = n + 2
      /\ f.switch = switch /\ ~f.default
      /\ IF own THEN f.own ELSE ~f.own
  BY DEF Enter
<1>5. new \in Seq({0, 1}) /\ IF own THEN Len(new) = 3 ELSE Len(new) = 2
  <2>1. CASE own
    BY <2>1
  <2>2. CASE ~own
    BY <2>2
  <2>. QED  BY <2>1, <2>2
<1>. HIDE DEF f, to, new
<1>6. bs \in Seq(BB) /\ Ends(bbs, bs, ip)
  BY <1>2, <1>3, CondBrEnds
<1>. HIDE DEF bs
<1>7. /\ all \in Seq(BB) /\ Len(all) = Len(bs) + Len(new)
      /\ \A b \in 1..Len(bs) : all[b] = bs[b]
      /\ \A b \in (Len(bs) + 1)..Len(all) : all[b].terms = <<>>
  BY <1>5, <1>6, BlocksEmpty
<1>. HIDE DEF all
<1>8. Len(bs) = n
  BY <1>6 DEF Ends
<1>9. Pending(f) = IF own THEN {n + 2, n + 3} ELSE {n + 2}
  BY <1>4 DEF Pending
<1>10. Len(all) = IF own THEN n + 3 ELSE n + 2
  BY <1>2, <1>5, <1>7, <1>8
<1>11. Pending(f) \subseteq (n + 1)..Len(all) /\ n + 1 \notin Pending(f) /\ n <= Len(all)
       /\ n + 1 \in (n + 1)..Len(all)
  BY <1>2, <1>9, <1>10
<1>12. \A b \in 1..n : IF b = ip THEN Closes(bbs[b], all[b]) ELSE Alike(bbs[b], all[b])
  BY <1>6, <1>7, <1>8 DEF Ends
<1>13. ASSUME NEW b \in (n + 1)..Len(all)
       PROVE  Fine(all[b]) /\ Good(all[b]) /\ (b = n + 1 \/ b \in Pending(f))
  <2>1. all[b].terms = <<>>
    BY <1>7, <1>8
  <2>2. b \in {n + 1, n + 2, n + 3} /\ (b = n + 3 => own)
    BY <1>2, <1>10
  <2>. QED  BY <2>1, <2>2, <1>9 DEF Fine, Good
<1>. HIDE DEF n
<1>14. Good(all[n + 1])
  BY <1>11, <1>13
<1>. QED  BY <1>1, <1>4, <1>7, <1>11, <1>12, <1>13, <1>14, BranchEnds DEF n

\* codegen_while and codegen_for.
LEMMA LoopEnds ==
  ASSUME Known, StmtExpected, Branching, UNCHANGED switch,
         NEW f0 \in Frame, f0.k \in {"while", "for"}, f0.switch = switch, ~f0.default,
         Loop(f0)
  PROVE  Kept
<1>. DEFINE n == Len(bbs)
            f == [f0 EXCEPT !.alt = n + 1, !.next = n + 3]
            bs == Br(bbs, ip, n + 1)
            new == <<1, 1, 0>>
            all == bs \o Blocks(new)
            to == {n + 2, n + 3}
            end == CondBr(all, n + 1, to)
<1>1. stack' = Append(Begun, f) /\ bbs' = end /\ ip' = n + 2
  BY DEF Loop, LoopBlocks
<1>2. bbs \in Seq(BB) /\ n \in Nat /\ ip \in 1..n
  BY KnownNow DEF StmtExpected
<1>3. to \in SUBSET Nat /\ n + 1 \in Nat
  BY <1>2
<1>4. f.k = f0.k /\ f.next = n + 3 /\ f.switch = switch /\ ~f.default
  BY DEF Frame
<1>5. new \in Seq({0, 1}) /\ Len(new) = 3
  OBVIOUS
<1>. HIDE DEF f, to, new
<1>6. bs \in Seq(BB) /\ Ends(bbs, bs, ip)
  BY <1>2, <1>3, BrEnds
<1>. HIDE DEF bs
<1>7. /\ all \in Seq(BB) /\ Len(all) = Len(bs) + Len(new)
      /\ \A b \in 1..Len(bs) : all[b] = bs[b]
      /\ \A b \in (Len(bs) + 1)..Len(all) : all[b].terms = <<>>
  BY <1>5, <1>6, BlocksEmpty
<1>. HIDE DEF all
<1>8. Len(bs) = n /\ Len(all) = n + 3 /\ n + 1 \in 1..Len(all)
  BY <1>2, <1>5, <1>6, <1>7 DEF Ends
<1>9. end \in Seq(BB) /\ Ends(all, end, n + 1)
  BY <1>3, <1>7, <1>8, CondBrEnds
<1>. HIDE DEF end
<1>10. Len(end) = n + 3
  BY <1>8, <1>9 DEF Ends
<1>11. Pending(f) = {n + 3}
  BY <1>4 DEF Pending
<1>12. \A b \in 1..n : IF b = ip THEN Closes(bbs[b], end[b]) ELSE Alike(bbs[b], end[b])
  <2>. SUFFICES ASSUME NEW b \in 1..n
                PROVE  IF b = ip THEN Closes(bbs[b], end[b]) ELSE Alike(bbs[b], end[b])
    OBVIOUS
  <2>1. all[b] = bs[b] /\ b # n + 1 /\ b \in 1..Len(all)
    BY <1>2, <1>7, <1>8
  <2>2. Alike(all[b], end[b])
    BY <1>9, <2>1 DEF Ends
  <2>3. CASE b = ip
    BY <1>6, <2>1, <2>2, <2>3 DEF Ends, Closes, Alike
  <2>4. CASE b # ip
    BY <1>6, <2>1, <2>2, <2>4 DEF Ends, Alike
  <2>. QED  BY <2>3, <2>4
<1>13. ASSUME NEW b \in (n + 1)..Len(end)
       PROVE  /\ Fine(end[b])
              /\ end[b].terms = <<>> => b = n + 2 \/ b = n + 3
              /\ b # n + 1 => Good(end[b])
  <2>1. /\ all[b].terms = <<>> /\ b \in {n + 1, n + 2, n + 3}
        /\ b \in 1..Len(all) /\ Len(end) = Len(all)
    BY <1>2, <1>7, <1>8, <1>10
  <2>2. Good(all[b]) /\ Fine(all[b])
    BY <2>1 DEF Good, Fine
  <2>3. CASE b = n + 1
    BY <1>9, <2>1, <2>2, <2>3 DEF Ends, Closes
  <2>4. CASE b # n + 1
    BY <1>9, <2>1, <2>2, <2>4 DEF Ends, Alike
  <2>. QED  BY <2>3, <2>4
<1>14. /\ Pending(f) \subseteq (n + 1)..Len(end) /\ n <= Len(end)
       /\ n + 2 \in (n + 1)..Len(end) /\ n + 2 \notin Pending(f) /\ n + 2 # n + 1
       /\ n + 3 # n + 1
  BY <1>2, <1>10, <1>11
<1>. HIDE DEF n
<1>15. \A b \in (n + 1)..Len(end) :
         /\ Fine(end[b])
         /\ end[b].terms = <<>> => b = n + 2 \/ b \in Pending(f)
         /\ b \in Pending(f) => Good(end[b])
  BY <1>11, <1>13, <1>14
<1>16. Good(end[n + 2])
  BY <1>13, <1>14
<1>17. f.k \in {"if", "while", "for", "switch"} /\ f.k # "switch"
  BY <1>4
<1>. QED  BY <1>1, <1>4, <1>9, <1>12, <1>14, <1>15, <1>16, <1>17, BranchEnds DEF n

LEMMA WhileEnds ==
  ASSUME Known
  PROVE  /\ \A node : While(node) /\ (~\E how : Stop(how)) => Kept
         /\ \A node \in ForNodes : For(node) /\ (~\E how : Stop(how)) => Kept
<1>1. ASSUME NEW node, While(node), ~\E how : Stop(how) PROVE Kept
  <2>. DEFINE f == Enter("while")
  <2>1. StmtExpected /\ Branching /\ Loop(f) /\ UNCHANGED switch
    BY <1>1 DEF While
  <2>2. f.k = "while" /\ f.switch = switch /\ ~f.default
    BY DEF Enter
  <2>3. f \in Frame
    BY EnterTyped DEF Known, SingleKinds
  <2>. HIDE DEF f
  <2>. QED  BY <2>1, <2>2, <2>3, LoopEnds
<1>2. ASSUME NEW node \in ForNodes, For(node), ~\E how : Stop(how) PROVE Kept
  <2>. DEFINE e == Enter("for")
              f == [e EXCEPT !.end = node.end]
  <2>1. StmtExpected /\ Branching /\ Loop(f) /\ UNCHANGED switch
    BY <1>2 DEF For
  <2>2. f.k = "for" /\ f.switch = switch /\ ~f.default
    BY DEF Enter
  <2>3. e \in Frame
    BY EnterTyped DEF Known, SingleKinds
  <2>. HIDE DEF e
  <2>4. node.end \in Seq(STRING)
    BY StatementsAssumption
  <2>5. f \in Frame
    BY <2>3, <2>4 DEF Frame
  <2>. HIDE DEF f
  <2>. QED  BY <2>1, <2>2, <2>5, LoopEnds
<1>. QED  BY <1>1, <1>2

LEMMA SwitchEnded ==
  ASSUME Known, NEW node, Switch(node), ~\E how : Stop(how)
  PROVE  Kept
<1>. DEFINE n == Len(bbs)
            f == [Enter("switch") EXCEPT !.next = n + 1, !.alt = n + 2]
            bs == [bbs EXCEPT ![ip] = Terminated(@, "switch", {n + 2})]
            new == <<0, 0>>
            all == bs \o Blocks(new)
<1>1. /\ StmtExpected /\ Branching
      /\ stack' = Append(Begun, f) /\ bbs' = all
      /\ ip' = ip /\ switch'.default = n + 2
  <2>1. /\ StmtExpected /\ Branching
        /\ stack' = Append(Begun, f) /\ bbs' = all /\ ip' = ip
        /\ switch' = [merge |-> n + 1, default |-> n + 2,
                      at |-> ip, term |-> Len(bbs[ip].terms) + 1]
    BY DEF Switch
  <2>. HIDE DEF f, all, n
  <2>. QED  BY <2>1
<1>2. bbs \in Seq(BB) /\ n \in Nat /\ ip \in 1..n /\ n + 2 \in Nat
  BY <1>1, KnownNow DEF StmtExpected
<1>3. /\ f.k = "switch" /\ f.next = n + 1 /\ f.alt = n + 2
      /\ f.switch = switch /\ ~f.default
  BY DEF Enter
<1>4. new \in Seq({0, 1}) /\ Len(new) = 2
  OBVIOUS
<1>. HIDE DEF f, new
<1>5. bs \in Seq(BB) /\ Ends(bbs, bs, ip)
  BY <1>2, SwitchEnds
<1>. HIDE DEF bs
<1>6. /\ all \in Seq(BB) /\ Len(all) = Len(bs) + Len(new)
      /\ \A b \in 1..Len(bs) : all[b] = bs[b]
      /\ \A b \in (Len(bs) + 1)..Len(all) : all[b].terms = <<>>
  BY <1>4, <1>5, BlocksEmpty
<1>. HIDE DEF all
<1>7. Len(bs) = n /\ Len(all) = n + 2
  BY <1>2, <1>4, <1>5, <1>6 DEF Ends
<1>8. Pending(f) = {n + 1, n + 2}
  BY <1>3 DEF Pending
<1>9. Pending(f) \subseteq (n + 1)..Len(all) /\ n <= Len(all)
  BY <1>2, <1>7, <1>8
<1>10. /\ \A b \in 1..n : IF b = ip THEN Closes(bbs[b], all[b]) ELSE Alike(bbs[b], all[b])
       /\ all[ip].terms # <<>>
  BY <1>2, <1>5, <1>6, <1>7 DEF Ends, Closes
<1>11. ASSUME NEW b \in (n + 1)..Len(all)
       PROVE  Fine(all[b]) /\ Good(all[b]) /\ b \in Pending(f)
  <2>1. all[b].terms = <<>>
    BY <1>6, <1>7
  <2>2. b \in {n + 1, n + 2}
    BY <1>2, <1>7
  <2>. QED  BY <2>1, <2>2, <1>8 DEF Fine, Good
<1>. HIDE DEF n
<1>. QED  BY <1>1, <1>3, <1>6, <1>9, <1>10, <1>11, BranchEnds DEF n

\* A case: the default's block is awaited and becomes the one code is inserted
\* at, other cases have one of their own.
LEMMA CaseEnds ==
  ASSUME Known, NEW node \in CaseNodes, Case(node), ~\E how : Stop(how)
  PROVE  Kept
<1>. DEFINE n == Len(bbs)
            W == Awaiting(stack)
            kind == IF node.arrow THEN "case_arrow" ELSE "case"
            entered == [Enter(kind) EXCEPT !.next = switch.merge, !.default = node.default]
            f == [entered EXCEPT !.values = values']
            new == <<1>>
            bs == IF node.default THEN bbs ELSE bbs \o Blocks(new)
            at == CaseBlock(node)
            end == AddCase(bs, at)
<1>1. /\ StmtExpected /\ CasePlace
      /\ stack' = Append(Begun, f) /\ bbs' = end /\ ip' = at /\ UNCHANGED switch
  BY DEF Case, Inject
<1>2. /\ stack # <<>> /\ Top.k = "switch" /\ Top.k \in ListKinds
  BY <1>1, RulesNow DEF StmtExpected, ListKinds
<1>3. /\ bbs \in Seq(BB) /\ n \in Nat /\ ip \in 1..n /\ W \subseteq 1..n
      /\ stack \in Seq(Frame) /\ Len(stack) \in Nat
      /\ Placed(stack, ip, switch) /\ Ended(bbs, W, ip)
      /\ bbs[ip].terms # <<>> \/ ip = Top.alt
      /\ ~InDefault(stack)
  BY <1>2, KnownNow DEF Cases
<1>4. switch.default = Top.alt
  <2>1. Len(stack) \in 1..Len(stack) /\ SwitchInside(stack, switch, Len(stack)) = switch
    BY <1>2, <1>3 DEF SwitchInside
  <2>. QED  BY <1>2, <1>3, <2>1 DEF Placed, Top
<1>5. Top.alt \in W
  <2>1. Top.alt \in Pending(Top)
    BY <1>2 DEF Pending
  <2>. QED  BY <1>2, <2>1, AwaitingBelow DEF Known
<1>6. /\ f.k \in Cases /\ f.switch = switch
      /\ f.default <=> node.default
  BY DEF Enter, Cases
<1>7. Pending(f) = {}
  BY <1>6 DEF Pending, Cases
<1>. HIDE DEF f
<1>8. /\ Begun = stack
  BY <1>2 DEF Begun
<1>9. Awaiting(stack') = W
  BY <1>1, <1>3, <1>7, <1>8, AwaitingPush
<1>10. Placed(stack', ip', switch')
  <2>1. f.k # "switch"
    BY <1>6 DEF Cases
  <2>2. f.default => at = stack[Len(stack)].alt
    BY <1>4, <1>6 DEF CaseBlock, Top
  <2>3. f.k \in Cases <=> stack # <<>> /\ stack[Len(stack)].k = "switch"
    BY <1>2, <1>6 DEF Top
  <2>. HIDE DEF at
  <2>4. Placed(Append(stack, f), at, switch)
    BY <1>3, <1>6, <2>1, <2>2, <2>3, PlacedPush
  <2>. QED  BY <1>1, <1>8, <2>4
<1>11. new \in Seq({0, 1}) /\ Len(new) = 1
  OBVIOUS
<1>. HIDE DEF new
<1>12. /\ bs \in Seq(BB) /\ Ended(bs, W, at) /\ at \in 1..Len(bs) /\ Good(bs[at])
       /\ at \in W => f.default
  <2>1. CASE node.default
    <3>1. bs = bbs /\ at = Top.alt
      BY <1>4, <2>1 DEF CaseBlock
    <3>2. Ended(bbs, W, Top.alt) /\ Good(bbs[Top.alt])
      <4>. HIDE DEF W
      <4>. QED  BY <1>3, <1>5 DEF Ended
    <3>. QED  BY <1>3, <1>5, <1>6, <2>1, <3>1, <3>2
  <2>2. CASE ~node.default
    <3>1. bs = bbs \o Blocks(new) /\ at = n + 1
      BY <2>2 DEF CaseBlock
    <3>. HIDE DEF bs, at
    <3>2. /\ bs \in Seq(BB) /\ Len(bs) = n + 1
          /\ \A b \in 1..n : bs[b] = bbs[b]
          /\ \A b \in (n + 1)..Len(bs) : bs[b].terms = <<>>
      BY <1>3, <1>11, <3>1, BlocksEmpty
    <3>3. n + 1 \in (n + 1)..Len(bs) /\ n + 1 \in 1..Len(bs) /\ n + 1 \notin W
      BY <1>3, <3>2
    <3>4. Good(bs[n + 1]) /\ Fine(bs[n + 1])
      BY <3>2, <3>3 DEF Good, Fine
    <3>5. ASSUME NEW b \in 1..Len(bs)
          PROVE  /\ Fine(bs[b])
                 /\ bs[b].terms = <<>> => b = n + 1 \/ b \in W
                 /\ b \in W => Good(bs[b])
      <4>1. b \in 1..n \/ b = n + 1
        BY <1>3, <3>2
      <4>2. CASE b \in 1..n
        <5>. HIDE DEF W
        <5>. QED  BY <1>3, <1>5, <3>2, <4>2 DEF Ended
      <4>3. CASE b = n + 1
        BY <3>3, <3>4, <4>3
      <4>. QED  BY <4>1, <4>2, <4>3
    <3>6. Ended(bs, W, n + 1)
      <4>. HIDE DEF W, n
      <4>. QED  BY <3>5 DEF Ended
    <3>. QED  BY <3>1, <3>2, <3>3, <3>4, <3>6
  <2>. QED  BY <2>1, <2>2
<1>. HIDE DEF bs, at, W
<1>13. Keep(bs, end)
  <2>1. at \in Nat
    BY <1>12
  <2>. QED  BY <1>12, <2>1, AddCaseKeeps
<1>. HIDE DEF end
<1>14. Ended(end, W, at) /\ Good(end[at])
  BY <1>12, <1>13, KeepEnded DEF Keep, Alike
<1>15. /\ stack'[Len(stack')] = f /\ Len(stack') \in 1..Len(stack')
  BY <1>1, <1>3, <1>8, PushShape
<1>16. f.default => InDefault(stack')
  BY <1>15 DEF InDefault
<1>17. Here(bbs', stack', ip')
  <2>1. f.k # "switch"
    BY <1>6 DEF Cases
  <2>. QED  BY <1>1, <1>9, <1>12, <1>14, <1>15, <1>16, <2>1 DEF Here
<1>. QED  BY <1>1, <1>9, <1>10, <1>14, <1>17 DEF Kept

\* The then-branch of an `if` is done, and code goes on in the else block.
LEMMA ElseBegunEnds ==
  ASSUME Known, stack # <<>>, Top.k = "if", Top.kids = 1
  PROVE  LET bs == ElseBegun(bbs, Top)
         IN /\ bs \in Seq(BB) /\ Len(bs) = Len(bbs)
            /\ Ended(bs, Awaiting(stack) \ {Top.alt}, Top.alt)
            /\ Good(bs[Top.alt])
            /\ Top.alt \in 1..Len(bbs)
<1>. DEFINE W == Awaiting(stack)
            W2 == W \ {Top.alt}
            bs1 == Br(bbs, ip, Top.next)
            bs == Attach(bs1, Top.alt)
<1>1. /\ bbs \in Seq(BB) /\ Len(bbs) \in Nat /\ ip \in 1..Len(bbs) /\ W \subseteq 1..Len(bbs)
      /\ Ended(bbs, W, ip) /\ Good(bbs[ip]) /\ ip \notin W
  BY KnownNow DEF Cases
<1>2. Top.alt \in Pending(Top) /\ Top.alt \in W /\ Top.next \in Nat
  <2>1. Top.alt \in Pending(Top)
    BY DEF Pending
  <2>2. Refers(Top, Len(bbs))
    BY TopTyped DEF Known
  <2>. QED  BY <1>1, <2>1, <2>2, AwaitingBelow DEF Known, Refers, GoesOn
<1>3. bs1 \in Seq(BB) /\ Ends(bbs, bs1, ip)
  BY <1>1, <1>2, BrEnds
<1>. HIDE DEF bs1
<1>4. bs \in Seq(BB) /\ Keep(bs1, bs)
  BY <1>3, AttachKeeps
<1>5. /\ Top.alt \in 1..Len(bbs) /\ Top.alt # ip
      /\ W2 \subseteq W /\ ip \notin W2 /\ W \ W2 \subseteq {ip, Top.alt}
  BY <1>1, <1>2
<1>. HIDE DEF W, W2, bs
<1>6. Ended(bs, W2, Top.alt) /\ Good(bs[Top.alt])
  <2>. DEFINE to == Top.alt
  <2>1. /\ to \in 1..Len(bbs) /\ to # ip /\ to \in W /\ W \ W2 \subseteq {ip, to}
    BY <1>2, <1>5
  <2>. HIDE DEF to
  <2>2. Ended(bs, W2, to) /\ Good(bs[to])
    BY <1>1, <1>3, <1>4, <1>5, <2>1, MoveEnded
  <2>. QED  BY <2>2 DEF to
<1>7. Len(bs) = Len(bbs)
  BY <1>3, <1>4 DEF Ends, Keep
<1>. QED  BY <1>4, <1>5, <1>6, <1>7 DEF ElseBegun, W, W2, bs, bs1

LEMMA ElseEnds ==
  ASSUME Known, Else
  PROVE  Kept
<1>. DEFINE f == [Enter("else") EXCEPT !.entry = Top.alt, !.terms = 0]
<1>1. /\ stack # <<>> /\ Top.k = "if" /\ Top.kids = 1
      /\ bbs' = ElseBegun(bbs, Top) /\ ip' = Top.alt /\ UNCHANGED switch
      /\ stack' = Append(Begun, f)
  BY DEF Else
<1>2. f.k = "else" /\ f.switch = switch /\ ~f.default
  BY DEF Enter
<1>. HIDE DEF f
<1>3. /\ Ended(bbs', Awaiting(stack) \ {Top.alt}, Top.alt)
      /\ Good(bbs'[Top.alt])
  BY <1>1, ElseBegunEnds
<1>4. Pending(f) = {} /\ f.k \notin Cases
  BY <1>2 DEF Pending, Cases
<1>5. /\ Begun \in Seq(Frame) /\ Begun # <<>> /\ Begun[Len(Begun)].k = "if"
      /\ Placed(Begun, ip, switch) /\ ~InDefault(Begun)
  BY <1>1, BegunSame, KnownNow DEF Cases
<1>6. Awaiting(stack') = Awaiting(stack) \ {Top.alt}
  BY <1>1, <1>4, <1>5, BegunAwaits, AwaitingPush
<1>7. Placed(Append(Begun, f), Top.alt, switch)
  BY <1>2, <1>4, <1>5, PlacedPush
<1>8. stack'[Len(stack')] = f
  BY <1>1, <1>5, PushShape
<1>9. Here(bbs', stack', ip')
  BY <1>1, <1>2, <1>3, <1>6, <1>8 DEF Here
<1>. QED  BY <1>1, <1>3, <1>6, <1>7, <1>9 DEF Kept

\* What a handler that returns puts back.
LEMMA SwitchBack ==
  ASSUME Known, [Next]_vars, stack # <<>>, stack' = Below
  PROVE  switch' = Top.switch
<1>1. stack \in Seq(Frame) /\ Len(stack) \in Nat /\ Len(stack') = Len(stack) - 1
  BY KnownNow, PopShape DEF Below
<1>. QED  BY <1>1, StepGoes DEF Known, Goes, Restored

LEMMA ExitIdleEnds ==
  ASSUME Known, [Next]_vars, ExitBlock \/ ExitElse
  PROVE  Kept
<1>1. /\ stack # <<>> /\ stack' = Below /\ UNCHANGED <<bbs, ip>>
      /\ Top.k \in {"fn", "block", "arrow", "else"}
  BY DEF ExitBlock, ExitElse, Leaving
<1>2. Pending(Top) = {} /\ Top.k \notin Cases \cup {"switch"}
  BY <1>1 DEF Pending, Cases
<1>3. Awaiting(stack') = Awaiting(stack)
  BY <1>1, <1>2, AwaitingBelow DEF Known
<1>4. Ended(bbs', Awaiting(stack'), ip') /\ Good(bbs'[ip'])
  BY <1>1, <1>2, <1>3, KnownNow
<1>5. Top.k # "block" => ip' \notin Awaiting(stack')
  BY <1>1, <1>2, <1>3, KnownNow
<1>. QED  BY <1>1, <1>2, <1>4, <1>5, SwitchBack, LeaveEnds

\* A block is ended, and code goes on in the block `to` that was awaited.
LEMMA GoOnEnds ==
  ASSUME NEW bs \in Seq(BB), NEW W, NEW at0, Ended(bs, W, at0),
         NEW at \in 1..Len(bs), Good(bs[at]), at0 = at \/ bs[at0].terms # <<>>,
         NEW to \in 1..Len(bs), to \in W, to # at,
         NEW W2, W2 \subseteq W, at \notin W2, W \ W2 \subseteq {at, to}
  PROVE  LET bs2 == Attach(Br(bs, at, to), to)
         IN Ended(bs2, W2, to) /\ Good(bs2[to])
<1>. DEFINE bs1 == Br(bs, at, to)
            bs2 == Attach(bs1, to)
<1>1. bs1 \in Seq(BB) /\ Ends(bs, bs1, at)
  <2>1. to \in Nat
    OBVIOUS
  <2>. QED  BY <2>1, BrEnds
<1>. HIDE DEF bs1
<1>2. Keep(bs1, bs2)
  BY <1>1, AttachKeeps
<1>. HIDE DEF bs2
<1>3. Ended(bs2, W2, to) /\ Good(bs2[to])
  BY <1>1, <1>2, MoveEnded
<1>. QED  BY <1>3 DEF bs1, bs2

\* Blocks a handler that returns goes on in.
LEMMA TopBlocks ==
  ASSUME Known, stack # <<>>
  PROVE  /\ Pending(Top) \subseteq 1..Len(bbs)
         /\ Awaiting(Below) = Awaiting(stack) \ Pending(Top)
         /\ Pending(Top) \subseteq Awaiting(stack)
         /\ Top.k = "switch" => Top.next # Top.alt
         /\ Top.k = "if" /\ Top.own => Top.next # Top.alt
         /\ Top.own \in BOOLEAN /\ Top.kids \in 0..2
<1>1. Top \in Frame
  BY KnownNow
<1>2. Top.own \in BOOLEAN /\ Top.kids \in 0..2
  BY <1>1 DEF Frame
<1>. QED  BY <1>2, TopSound, AwaitingBelow DEF Known, Sound, Distinct

LEMMA ExitIfEnds ==
  ASSUME Known, [Next]_vars, ExitIf
  PROVE  Kept
<1>. DEFINE n == Len(bbs)
            W == Awaiting(stack)
            W2 == Awaiting(Below)
            one == Top.kids = 1
            W1 == IF one THEN W \ {Top.alt} ELSE W
            at == IF one THEN Top.alt ELSE ip
            bs == IF one THEN ElseBegun(bbs, Top) ELSE bbs
            to == Top.next
            end == Attach(Br(bs, at, to), to)
<1>1. /\ stack # <<>> /\ stack' = Below /\ Top.k = "if"
      /\ Top.kids >= 1
      /\ bbs' = IF Top.own THEN end ELSE bs
      /\ ip' = IF Top.own THEN to ELSE at
  BY DEF ExitIf, Leaving, ListKinds
<1>2. /\ Top.own \in BOOLEAN /\ Top.kids \in {1, 2}
      /\ W2 = W \ Pending(Top) /\ Pending(Top) \subseteq W
      /\ Pending(Top) \subseteq 1..n
      /\ Top.own => Top.next # Top.alt
  BY <1>1, TopBlocks
<1>3. Pending(Top) = (IF one THEN {Top.alt} ELSE {}) \cup (IF Top.own THEN {to} ELSE {})
  BY <1>1, <1>2 DEF Pending
<1>4. /\ bs \in Seq(BB) /\ Len(bs) = n
      /\ Ended(bs, W1, at) /\ Good(bs[at]) /\ at \in 1..n /\ at \notin W1
  <2>1. CASE one
    BY <1>1, <2>1, ElseBegunEnds
  <2>2. CASE ~one
    BY <1>1, <2>2, KnownNow DEF Cases
  <2>. QED  BY <2>1, <2>2
<1>5. CASE Top.own
  <2>1. /\ to \in 1..n /\ to \in W1 /\ to # at
        /\ W2 \subseteq W1 /\ at \notin W2 /\ W1 \ W2 \subseteq {at, to} /\ to \notin W2
    BY <1>2, <1>3, <1>4, <1>5
  <2>. HIDE DEF to, W1, W2, at, bs
  <2>2. Ended(end, W2, to) /\ Good(end[to])
    BY <1>4, <2>1, GoOnEnds
  <2>3. Ended(bbs', Awaiting(stack'), ip') /\ Good(bbs'[ip']) /\ ip' \notin Awaiting(stack')
    BY <1>1, <1>5, <2>1, <2>2 DEF W2
  <2>. QED  BY <1>1, <2>3, SwitchBack, LeaveEnds DEF Cases
<1>6. CASE ~Top.own
  <2>1. W2 = W1
    BY <1>2, <1>3, <1>6
  <2>. HIDE DEF W1, W2, at, bs
  <2>2. Ended(bbs', Awaiting(stack'), ip') /\ Good(bbs'[ip']) /\ ip' \notin Awaiting(stack')
    BY <1>1, <1>4, <1>6, <2>1 DEF W2
  <2>. QED  BY <1>1, <2>2, SwitchBack, LeaveEnds DEF Cases
<1>. QED  BY <1>2, <1>5, <1>6

LEMMA ExitLoopEnds ==
  ASSUME Known, [Next]_vars, stack # <<>>, stack' = Below,
         Top.k \in {"while", "for"}, LoopClosed
  PROVE  Kept
<1>. DEFINE W == Awaiting(stack)
            W2 == Awaiting(Below)
            to == Top.next
            bs1 == Br(bbs, ip, Top.alt)
            bs2 == Attach(bs1, to)
<1>1. bbs' = bs2 /\ ip' = to
  BY DEF LoopClosed
<1>2. /\ bbs \in Seq(BB) /\ ip \in 1..Len(bbs) /\ Ended(bbs, W, ip)
      /\ Good(bbs[ip]) /\ ip \notin W
  BY KnownNow DEF Cases
<1>3. Pending(Top) = {to}
  BY DEF Pending
<1>4. /\ to \in 1..Len(bbs) /\ to \in W /\ to # ip /\ to \notin W2
      /\ W2 \subseteq W /\ ip \notin W2 /\ W \ W2 \subseteq {ip, to}
  BY <1>2, <1>3, TopBlocks
<1>5. Top.alt \in Nat
  <2>1. Refers(Top, Len(bbs)) /\ Len(bbs) \in Nat
    BY <1>2, TopTyped DEF Known
  <2>. QED  BY <2>1 DEF Refers, GoesOn
<1>6. bs1 \in Seq(BB) /\ Ends(bbs, bs1, ip)
  BY <1>2, <1>5, BrEnds
<1>. HIDE DEF bs1
<1>7. Keep(bs1, bs2)
  BY <1>6, AttachKeeps
<1>. HIDE DEF bs2, W, W2, to
<1>8. Ended(bs2, W2, to) /\ Good(bs2[to])
  BY <1>2, <1>4, <1>6, <1>7, MoveEnded
<1>9. Ended(bbs', Awaiting(stack'), ip') /\ Good(bbs'[ip']) /\ ip' \notin Awaiting(stack')
  BY <1>1, <1>4, <1>8 DEF W2
<1>. QED  BY <1>9, SwitchBack, LeaveEnds DEF Cases

\* codegen_switch ends the default's block, wherever code was inserted: the
\* block of the last case has been ended, or it is the default's.
LEMMA ExitSwitchEnds ==
  ASSUME Known, [Next]_vars, ExitSwitch
  PROVE  Kept
<1>. DEFINE W == Awaiting(stack)
            W2 == Awaiting(Below)
            to == Top.next
            at == Top.alt
            bs1 == Br(bbs, at, to)
            half == Attach(bs1, at)
            end == Attach(half, to)
<1>1. /\ stack # <<>> /\ stack' = Below /\ Top.k = "switch"
      /\ bbs' = end /\ ip' = to
  BY DEF ExitSwitch, Leaving
<1>2. /\ bbs \in Seq(BB) /\ Ended(bbs, W, ip)
      /\ bbs[ip].terms # <<>> \/ ip = at
  BY <1>1, KnownNow
<1>3. Pending(Top) = {to, at}
  BY <1>1 DEF Pending
<1>4. /\ to \in 1..Len(bbs) /\ at \in 1..Len(bbs) /\ to \in W /\ at \in W /\ to # at
      /\ W2 \subseteq W /\ at \notin W2 /\ W \ W2 \subseteq {at, to} /\ to \notin W2
  BY <1>1, <1>3, TopBlocks
<1>. HIDE DEF W, W2
<1>5. Good(bbs[at]) /\ to \in Nat
  BY <1>2, <1>4 DEF Ended
<1>. HIDE DEF at, to
<1>6. bs1 \in Seq(BB) /\ Ends(bbs, bs1, at)
  BY <1>2, <1>4, <1>5, BrEnds
<1>. HIDE DEF bs1
<1>7. half \in Seq(BB) /\ Keep(bs1, half)
  BY <1>6, AttachKeeps
<1>. HIDE DEF half
<1>8. Ended(half, W2, to) /\ Good(half[to])
  BY <1>2, <1>4, <1>5, <1>6, <1>7, MoveEnded
<1>9. Keep(half, end) /\ to \in 1..Len(half)
  BY <1>4, <1>6, <1>7, AttachKeeps DEF Ends, Keep
<1>. HIDE DEF end
<1>10. Ended(end, W2, to) /\ Good(end[to])
  BY <1>8, <1>9, KeepEnded DEF Keep, Alike
<1>11. Ended(bbs', Awaiting(stack'), ip') /\ Good(bbs'[ip']) /\ ip' \notin Awaiting(stack')
  BY <1>1, <1>4, <1>10 DEF W2
<1>. QED  BY <1>1, <1>11, SwitchBack, LeaveEnds DEF Cases

\* A case that is no default ends its block; the default's is left to
\* codegen_switch.
LEMMA ExitCaseEnds ==
  ASSUME Known, [Next]_vars, ExitCase
  PROVE  Kept
<1>. DEFINE W == Awaiting(stack)
<1>1. /\ stack # <<>> /\ stack' = Below /\ Top.k \in Cases
      /\ bbs' = CaseEnded(Top) /\ ip' = ip
  BY DEF ExitCase, Leaving, Cases
<1>2. /\ bbs \in Seq(BB) /\ ip \in 1..Len(bbs) /\ Ended(bbs, W, ip)
      /\ Good(bbs[ip]) /\ (ip \in W => InDefault(stack))
      /\ Placed(stack, ip, switch)
      /\ stack \in Seq(Frame) /\ Len(stack) \in Nat
  BY <1>1, KnownNow DEF Cases
<1>3. /\ Below \in Seq(Frame) /\ Len(Below) = Len(stack) - 1
      /\ \A i \in 1..(Len(stack) - 1) : Below[i] = stack[i]
      /\ Len(stack) > 0 /\ Len(stack) \in 1..Len(stack)
  BY <1>1, <1>2, PopShape DEF Below
<1>4. Pending(Top) = {} /\ Top.k # "block"
  BY <1>1 DEF Pending, Cases
<1>5. Awaiting(stack') = W
  BY <1>1, <1>4, TopBlocks
<1>6. Len(stack) > 1 /\ Below[Len(Below)] = stack[Len(stack) - 1]
      /\ Below[Len(Below)].k = "switch" /\ Below # <<>>
  <2>1. Len(stack) > 1 /\ stack[Len(stack) - 1].k = "switch"
    BY <1>1, <1>2, <1>3 DEF Placed, Top
  <2>. QED  BY <1>3, <2>1
<1>7. InDefault(stack) => Top.default
  <2>. SUFFICES ASSUME InDefault(stack) PROVE Top.default
    OBVIOUS
  <2>1. PICK i \in 1..Len(stack) : stack[i].default
    BY DEF InDefault
  <2>2. i = Len(stack)
    <3>1. i = Len(stack) \/ Len(stack) > i
      BY <1>2
    <3>2. Len(stack) > i => stack[Len(stack)].k = "block"
      BY <1>2, <1>3, <2>1 DEF Placed
    <3>. QED  BY <1>4, <3>1, <3>2 DEF Top
  <2>. QED  BY <2>1, <2>2 DEF Top
<1>8. ~InDefault(Below)
  <2>. SUFFICES ASSUME InDefault(Below) PROVE FALSE
    OBVIOUS
  <2>1. PICK i \in 1..Len(Below) : Below[i].default
    BY DEF InDefault
  <2>2. i \in 1..Len(stack) /\ stack[i].default /\ Len(stack) > i
    BY <1>2, <1>3, <2>1
  <2>. QED  BY <1>2, <1>3, <1>4, <2>2 DEF Placed, Top
<1>9. Placed(stack', ip', switch')
  <2>1. switch' = Top.switch
    BY <1>1, SwitchBack
  <2>2. Placed(Below, ip, Top.switch)
    BY <1>1, <1>2, <1>8, PlacedPop DEF Below, Top
  <2>. QED  BY <1>1, <2>1, <2>2
<1>10. Ended(bbs', W, ip) /\ (bbs'[ip].terms # <<>> \/ ip = Below[Len(Below)].alt)
  <2>0. Top \in Frame
    BY <1>1, KnownNow
  <2>1. CASE Top.default
    <3>1. bbs' = bbs
      BY <1>1, <2>1 DEF CaseEnded
    <3>2. ip = stack[Len(stack) - 1].alt
      BY <1>2, <1>3, <2>1 DEF Placed, Top
    <3>. QED  BY <1>2, <1>6, <3>1, <3>2
  <2>2. CASE ~Top.default
    <3>. DEFINE bs == Br(bbs, ip, Top.next)
    <3>1. bbs' = bs
      BY <1>1, <2>2 DEF CaseEnded
    <3>2. ip \notin W
      BY <1>2, <1>7, <2>2
    <3>3. Top.next \in Nat
      <4>. DEFINE g == Top
      <4>. HIDE DEF g
      <4>1. g \in Frame => g.next \in Nat
        BY DEF Frame
      <4>. QED  BY <2>0, <4>1 DEF g
    <3>4. Ends(bbs, bs, ip)
      BY <1>2, <3>3, BrEnds
    <3>. HIDE DEF bs, W
    <3>5. Ended(bs, W, ip) /\ bs[ip].terms # <<>>
      BY <1>2, <3>2, <3>4, CloseEnded
    <3>. QED  BY <3>1, <3>5
  <2>. QED  BY <2>1, <2>2
<1>11. Here(bbs', stack', ip')
  BY <1>1, <1>6, <1>10 DEF Here
<1>. QED  BY <1>1, <1>5, <1>9, <1>10, <1>11 DEF Kept

\* A function begins, in a block of its own.
LEMMA FnEnds ==
  ASSUME Known, NEW node, Fn(node), ~\E how : Stop(how)
  PROVE  Kept
<1>. DEFINE f == [Enter("fn") EXCEPT !.merge = None, !.switch = None,
                    !.values = Added(node), !.first = 1, !.entry = 1, !.terms = 0]
            none == <<>>
            new == <<1>>
<1>1. bbs' = Blocks(new) /\ ip' = 1 /\ stack' = <<f>>
  BY DEF Fn
<1>2. f.k = "fn" /\ ~f.default
  BY DEF Enter
<1>. HIDE DEF f
<1>3. /\ stack' \in Seq({f}) /\ Len(stack') = 1 /\ stack'[1] = f
  BY <1>1
<1>4. Pending(f) = {} /\ f.k \notin Cases \cup {"switch"}
  BY <1>2 DEF Pending, Cases
<1>5. Awaiting(stack') = {}
  BY <1>3, <1>4 DEF Awaiting
<1>6. Len(bbs') = 1 /\ bbs'[1].terms = <<>>
  BY <1>1 DEF Blocks
<1>7. Placed(stack', ip', switch')
  BY <1>2, <1>3, <1>4 DEF Placed
<1>8. Good(bbs'[1]) /\ Fine(bbs'[1])
  BY <1>6 DEF Good, Fine
<1>9. Ended(bbs', Awaiting(stack'), ip')
  BY <1>1, <1>5, <1>6, <1>8 DEF Ended
<1>10. Here(bbs', stack', ip')
  BY <1>1, <1>3, <1>4, <1>5, <1>8 DEF Here
<1>. QED  BY <1>7, <1>9, <1>10 DEF Kept

LEMMA ExitEnds ==
  ASSUME Known, [Next]_vars, Exit, ~\E how : Stop(how)
  PROVE  Kept
<1>1. CASE ExitWhile
  BY <1>1, ExitLoopEnds DEF ExitWhile, Leaving
<1>2. CASE ExitFor
  BY <1>2, ExitLoopEnds DEF ExitFor, Leaving
<1>. QED  BY <1>1, <1>2, ExitIdleEnds, ExitIfEnds, ExitSwitchEnds, ExitCaseEnds DEF Exit

LEMMA StepEnds ==
  ASSUME TypeInv, NestInv, BlocksInv, EndInv, [Next]_vars
  PROVE  EndInv'
<1>1. UNCHANGED rules
  BY DEF Next, vars, Fn, ExternFn, TypeDecl, Simple, Block, If, Arrow, Else, While,
     For, Switch, Case, Entering, Visiting, Exit, ExitBlock, ExitElse, ExitIf,
     ExitWhile, ExitFor, ExitSwitch, ExitCase, Leaving
<1>2. CASE \E how : Stop(how)
  BY <1>1, <1>2, StopEnds
<1>3. CASE UNCHANGED <<bbs, ip, switch, stack>>
  BY <1>1, <1>3 DEF EndInv, Structured
<1>4. CASE /\ ~\E how : Stop(how)
           /\ ~UNCHANGED <<bbs, ip, switch, stack>>
  <2>. SUFFICES ASSUME Structured PROVE Kept
    BY <1>1 DEF EndInv, Structured, Kept
  <2>1. Known
    BY DEF Known
  <2>2. Next
    BY <1>4 DEF vars
  <2>3. ASSUME NEW node, ExternFn(node) \/ TypeDecl(node) PROVE FALSE
    BY <1>4, <2>3 DEF ExternFn, TypeDecl
  <2>. QED  BY <1>4, <2>1, <2>2, <2>3, FnEnds, SimpleEnds, BlockEnds, IfEnds, ElseEnds,
               WhileEnds, SwitchEnded, CaseEnds, ExitEnds DEF Next
<1>. QED  BY <1>2, <1>3, <1>4

(***************************************************************************)
(* In structured programs every block has been ended but the one code is   *)
(* inserted at and those that open handlers have not come to, and only a   *)
(* return ends a block before its handler does.                            *)
(***************************************************************************)
THEOREM BlocksEnd == Spec => []EndInv
<1>1. Init => EndInv
  <2>. SUFFICES ASSUME Init PROVE EndInv
    OBVIOUS
  <2>1. bbs = <<>> /\ Len(bbs) = 0 /\ stack = <<>> /\ Len(stack) = 0
    BY DEF Init
  <2>. QED  BY <2>1 DEF EndInv, Placed, Ended, Here
<1>2. TypeInv /\ NestInv /\ BlocksInv /\ EndInv /\ [Next]_vars => EndInv'
  BY StepEnds
<1>. QED  BY <1>1, <1>2, TypesHold, HandlersNestAlways, BlocksAccountedFor, PTL DEF Spec

(***************************************************************************)
(* No handler walks away from a block it leaves without a terminator.      *)
(***************************************************************************)
THEOREM OnlyInsertPointOpenAlways == Spec => []OnlyInsertPointOpen
<1>1. EndInv => OnlyInsertPointOpen
  BY DEF EndInv, Ended, Awaiting, AllPending, OnlyInsertPointOpen
<1>. QED  BY <1>1, BlocksEnd, PTL

(***************************************************************************)
(* No handler branches from a block that another has left by a branch:     *)
(* what follows a terminator is code after a return.                       *)
(***************************************************************************)
THEOREM OnlyReturnsEndEarlyAlways == Spec => []OnlyReturnsEndEarly
<1>1. EndInv => OnlyReturnsEndEarly
  BY DEF EndInv, Ended, Fine, OnlyReturnsEndEarly
<1>. QED  BY <1>1, BlocksEnd, PTL

-----------------------------------------------------------------------------
(* Edges.  A frame is rooted in the blocks when the block its handler began *)
(* in is there and the switch it is in has its instruction.                 *)

\* The switch instruction that switch_info_ speaks of is there.
SwitchAt(bs, sw) ==
  sw # None =>
    /\ sw.at \in 1..Len(bs) /\ sw.term \in 1..Len(bs[sw.at].terms)
    /\ bs[sw.at].terms[sw.term].to # {}

\* The blocks that f refers to are there.
Rooted(bs, f) ==
  /\ f.first \in 1..(Len(bs) + 1) /\ f.entry \in 1..Len(bs)
  /\ f.terms \in 0..Len(bs[f.entry].terms)
  /\ SwitchAt(bs, f.switch)

\* Where the code of a statement can be come to from outside.
Sources(bs, f) ==
  {f.entry} \cup (IF f.switch = None THEN {} ELSE bs[f.switch.at].terms[f.switch.term].to)

\* bs2 is bs with more, and E are the edges that the statement of f has more.
Extends(bs, bs2, f, E) ==
  /\ Rooted(bs2, f) /\ Len(bs) <= Len(bs2)
  /\ Sources(bs, f) \subseteq Sources(bs2, f)
  /\ \A b \in Region(bs2, f) : \A t :
       t \in EdgesFrom(bs2, f, b) <=>
         (b \in Region(bs, f) /\ t \in EdgesFrom(bs, f, b)) \/ <<b, t>> \in E

LEMMA RegionIn ==
  ASSUME NEW bs \in Seq(BB), NEW f, Rooted(bs, f)
  PROVE  Region(bs, f) \subseteq 1..Len(bs) /\ f.entry \in Region(bs, f)
<1>1. Len(bs) \in Nat
  OBVIOUS
<1>. QED  BY <1>1 DEF Rooted, Region

LEMMA BlockTerms ==
  ASSUME NEW bs \in Seq(BB)
  PROVE  \A b \in 1..Len(bs) : bs[b] \in BB /\ bs[b].terms \in Seq(Term) /\ Len(bs[b].terms) \in Nat
<1>. SUFFICES ASSUME NEW b \in 1..Len(bs)
              PROVE  bs[b] \in BB /\ bs[b].terms \in Seq(Term) /\ Len(bs[b].terms) \in Nat
  OBVIOUS
<1>1. bs[b] \in BB
  OBVIOUS
<1>2. bs[b].terms \in Seq(Term)
  BY <1>1 DEF BB
<1>. QED  BY <1>1, <1>2

\* No block is gone and no terminator, and none leads to less.
LEMMA StillRooted ==
  ASSUME NEW bs \in Seq(BB), NEW bs2 \in Seq(BB), Len(bs) <= Len(bs2), NEW f, Rooted(bs, f),
         \A b \in 1..Len(bs) :
           /\ Len(bs[b].terms) <= Len(bs2[b].terms)
           /\ \A i \in 1..Len(bs[b].terms) : bs[b].terms[i].to \subseteq bs2[b].terms[i].to
  PROVE  Rooted(bs2, f) /\ Sources(bs, f) \subseteq Sources(bs2, f)
<1>1. Len(bs) \in Nat /\ Len(bs2) \in Nat
  OBVIOUS
<1>2. f.first \in 1..(Len(bs2) + 1) /\ f.entry \in 1..Len(bs2) /\ f.entry \in 1..Len(bs)
  BY <1>1 DEF Rooted
<1>3. f.terms \in 0..Len(bs2[f.entry].terms)
  <2>1. Len(bs[f.entry].terms) \in Nat /\ Len(bs2[f.entry].terms) \in Nat
    BY <1>2, BlockTerms
  <2>2. Len(bs[f.entry].terms) <= Len(bs2[f.entry].terms)
    BY <1>2
  <2>. QED  BY <2>1, <2>2 DEF Rooted
<1>4. ASSUME f.switch # None
      PROVE  /\ f.switch.at \in 1..Len(bs2) /\ f.switch.term \in 1..Len(bs2[f.switch.at].terms)
             /\ bs2[f.switch.at].terms[f.switch.term].to # {}
             /\ bs[f.switch.at].terms[f.switch.term].to \subseteq bs2[f.switch.at].terms[f.switch.term].to
  <2>. DEFINE at == f.switch.at
              term == f.switch.term
  <2>1. at \in 1..Len(bs) /\ term \in 1..Len(bs[at].terms) /\ bs[at].terms[term].to # {}
    BY <1>4 DEF Rooted, SwitchAt
  <2>. HIDE DEF at, term
  <2>2. at \in 1..Len(bs2)
    BY <1>1, <2>1
  <2>3. Len(bs[at].terms) \in Nat /\ Len(bs2[at].terms) \in Nat
    BY <2>1, <2>2, BlockTerms
  <2>4. Len(bs[at].terms) <= Len(bs2[at].terms) /\ bs[at].terms[term].to \subseteq bs2[at].terms[term].to
    BY <2>1
  <2>5. term \in 1..Len(bs2[at].terms)
    BY <2>1, <2>3, <2>4
  <2>. QED  BY <2>1, <2>2, <2>4, <2>5 DEF at, term
<1>5. Rooted(bs2, f)
  BY <1>2, <1>3, <1>4 DEF Rooted, SwitchAt
<1>6. Sources(bs, f) \subseteq Sources(bs2, f)
  BY <1>4 DEF Sources
<1>. QED  BY <1>5, <1>6

\* One more terminator, after those there are.
LEMMA MoreTargets ==
  ASSUME NEW bb \in BB, NEW k \in {"br", "condbr", "switch", "ret"}, NEW to \in SUBSET Nat
  PROVE  LET bb2 == Terminated(bb, k, to)
             old == bb.terms
         IN /\ bb2 \in BB /\ Len(bb2.terms) = Len(old) + 1 /\ Len(old) \in Nat
            /\ \A i \in 1..Len(old) : bb2.terms[i] = old[i]
            /\ bb2.terms[Len(old) + 1].to = to
            /\ \A i \in 1..(Len(old) + 1) : Targets(bb2, i) = Targets(bb, i) \cup to
<1>. DEFINE old == bb.terms
            t == [k |-> k, to |-> to]
            new == Append(old, t)
            bb2 == Terminated(bb, k, to)
<1>1. old \in Seq(Term) /\ t \in Term /\ t.to = to
  BY DEF BB, Term
<1>2. bb2 = [bb EXCEPT !.terms = new]
  BY DEF Terminated
<1>. HIDE DEF old, t
<1>3. /\ new \in Seq(Term) /\ Len(new) = Len(old) + 1 /\ Len(old) \in Nat
      /\ \A i \in 1..Len(old) : new[i] = old[i]
      /\ new[Len(old) + 1] = t
  BY <1>1
<1>. HIDE DEF new
<1>4. bb2 \in BB /\ bb2.terms = new
  BY <1>2, <1>3 DEF BB
<1>. HIDE DEF bb2
<1>5. ASSUME NEW i \in 1..(Len(old) + 1)
      PROVE  Targets(bb2, i) = Targets(bb, i) \cup to
  <2>1. Targets(bb2, i) = UNION {new[j].to : j \in i..(Len(old) + 1)}
    BY <1>3, <1>4 DEF Targets
  <2>2. Targets(bb, i) = UNION {old[j].to : j \in i..Len(old)}
    BY DEF Targets, old
  <2>3. i..(Len(old) + 1) = i..Len(old) \cup {Len(old) + 1}
    BY <1>3
  <2>4. \A j \in i..Len(old) : new[j] = old[j]
    BY <1>3
  <2>. QED  BY <1>1, <1>3, <2>1, <2>2, <2>3, <2>4
<1>. QED  BY <1>1, <1>3, <1>4, <1>5 DEF bb2, old

LEMMA TermExtends ==
  ASSUME NEW bs \in Seq(BB), NEW at \in 1..Len(bs), NEW to \in SUBSET Nat,
         NEW k \in {"br", "condbr", "switch", "ret"}, NEW f, Rooted(bs, f)
  PROVE  Extends(bs, With(bs, at, Terminated(bs[at], k, to)), f, {at} \X to)
<1>. DEFINE bb == bs[at]
            e == Terminated(bb, k, to)
            bs2 == With(bs, at, e)
<1>1. bb \in BB
  OBVIOUS
<1>. HIDE DEF bb
<1>2. /\ e \in BB /\ Len(e.terms) = Len(bb.terms) + 1 /\ Len(bb.terms) \in Nat
      /\ \A i \in 1..Len(bb.terms) : e.terms[i] = bb.terms[i]
      /\ \A i \in 1..(Len(bb.terms) + 1) : Targets(e, i) = Targets(bb, i) \cup to
  BY <1>1, MoreTargets
<1>. HIDE DEF e
<1>3. \A b \in 1..Len(bs) : bs2[b] = IF b = at THEN e ELSE bs[b]
  BY <1>2, WithAt
<1>4. bs2 \in Seq(BB) /\ Len(bs2) = Len(bs) /\ Len(bs) \in Nat
  BY <1>2, BlockTyped
<1>. HIDE DEF bs2
<1>5. Rooted(bs2, f) /\ Sources(bs, f) \subseteq Sources(bs2, f)
  <2>1. \A b \in 1..Len(bs) :
          /\ Len(bs[b].terms) <= Len(bs2[b].terms)
          /\ \A i \in 1..Len(bs[b].terms) : bs[b].terms[i].to \subseteq bs2[b].terms[i].to
    <3>. SUFFICES ASSUME NEW b \in 1..Len(bs)
                  PROVE  /\ Len(bs[b].terms) <= Len(bs2[b].terms)
                         /\ \A i \in 1..Len(bs[b].terms) : bs[b].terms[i].to \subseteq bs2[b].terms[i].to
      OBVIOUS
    <3>1. Len(bs[b].terms) \in Nat
      BY BlockTerms
    <3>2. CASE b = at
      <4>1. bs2[b] = e /\ bs[b] = bb
        BY <1>3, <3>2 DEF bb
      <4>. QED  BY <1>2, <4>1
    <3>3. CASE b # at
      <4>1. bs2[b] = bs[b]
        BY <1>3, <3>3
      <4>. QED  BY <3>1, <4>1
    <3>. QED  BY <3>2, <3>3
  <2>2. Len(bs) <= Len(bs2)
    BY <1>4
  <2>. QED  BY <1>4, <2>1, <2>2, StillRooted
<1>6. Region(bs2, f) = Region(bs, f) /\ Region(bs, f) \subseteq 1..Len(bs)
  BY <1>4, RegionIn DEF Region
<1>7. ASSUME NEW b \in Region(bs2, f)
      PROVE  EdgesFrom(bs2, f, b) = EdgesFrom(bs, f, b) \cup (IF b = at THEN to ELSE {})
  <2>1. b \in 1..Len(bs)
    BY <1>6
  <2>2. CASE b = at
    <3>1. bs2[b] = e /\ bs[b] = bb
      BY <1>3, <2>1, <2>2 DEF bb
    <3>2. b = f.entry => f.terms + 1 \in 1..(Len(bb.terms) + 1)
      BY <1>2, <3>1 DEF Rooted
    <3>3. 1 \in 1..(Len(bb.terms) + 1)
      BY <1>2
    <3>. QED  BY <1>2, <2>2, <3>1, <3>2, <3>3 DEF EdgesFrom
  <2>3. CASE b # at
    <3>1. bs2[b] = bs[b]
      BY <1>3, <2>1, <2>3
    <3>. QED  BY <2>3, <3>1 DEF EdgesFrom
  <2>. QED  BY <2>2, <2>3
<1>8. \A b \in Region(bs2, f) : \A t :
        t \in EdgesFrom(bs2, f, b) <=>
          (b \in Region(bs, f) /\ t \in EdgesFrom(bs, f, b)) \/ <<b, t>> \in {at} \X to
  BY <1>6, <1>7
<1>9. Len(bs) <= Len(bs2)
  BY <1>4
<1>10. Extends(bs, bs2, f, {at} \X to)
  BY <1>5, <1>8, <1>9 DEF Extends
<1>. QED  BY <1>10 DEF bs2, e, bb

\* A change to a block that is not to its terminators.
LEMMA SameExtends ==
  ASSUME NEW bs \in Seq(BB), NEW bs2 \in Seq(BB), Len(bs2) = Len(bs),
         \A b \in 1..Len(bs) : bs2[b].terms = bs[b].terms, NEW f, Rooted(bs, f)
  PROVE  Extends(bs, bs2, f, {})
<1>1. Len(bs) \in Nat /\ Len(bs) <= Len(bs2)
  OBVIOUS
<1>2. \A b \in 1..Len(bs) :
        /\ Len(bs[b].terms) <= Len(bs2[b].terms)
        /\ \A i \in 1..Len(bs[b].terms) : bs[b].terms[i].to \subseteq bs2[b].terms[i].to
  BY BlockTerms
<1>3. Rooted(bs2, f) /\ Sources(bs, f) \subseteq Sources(bs2, f)
  BY <1>1, <1>2, StillRooted
<1>4. Region(bs2, f) = Region(bs, f) /\ Region(bs, f) \subseteq 1..Len(bs)
  BY RegionIn DEF Region
<1>5. ASSUME NEW b \in Region(bs2, f)
      PROVE  EdgesFrom(bs2, f, b) = EdgesFrom(bs, f, b)
  <2>1. bs2[b].terms = bs[b].terms
    BY <1>4
  <2>2. \A k : Targets(bs2[b], k) = Targets(bs[b], k)
    BY <2>1 DEF Targets
  <2>. QED  BY <2>2 DEF EdgesFrom
<1>6. \A b \in Region(bs2, f) : \A t :
        t \in EdgesFrom(bs2, f, b) <=>
          (b \in Region(bs, f) /\ t \in EdgesFrom(bs, f, b)) \/ <<b, t>> \in {}
  BY <1>4, <1>5
<1>. QED  BY <1>1, <1>3, <1>6 DEF Extends

LEMMA AttachExtends ==
  ASSUME NEW bs \in Seq(BB), NEW b, NEW f, Rooted(bs, f)
  PROVE  Attach(bs, b) \in Seq(BB) /\ Extends(bs, Attach(bs, b), f, {})
<1>. DEFINE bb == bs[b]
            e == [bb EXCEPT !.attached = @ + 1]
            bs2 == Attach(bs, b)
<1>1. bs2 \in Seq(BB) /\ Len(bs2) = Len(bs)
  BY AttachTyped
<1>2. \A i \in 1..Len(bs) : bs2[i].terms = bs[i].terms
  <2>1. CASE b \in 1..Len(bs)
    <3>1. bb \in BB
      BY <2>1
    <3>2. bs2 = With(bs, b, e)
      BY DEF Attach, With
    <3>. HIDE DEF bb
    <3>3. e \in BB /\ e.terms = bb.terms
      BY <3>1 DEF BB
    <3>. HIDE DEF e
    <3>4. \A i \in 1..Len(bs) : bs2[i] = IF i = b THEN e ELSE bs[i]
      BY <3>2, <3>3, WithAt
    <3>. QED  BY <3>3, <3>4 DEF bb
  <2>2. CASE b \notin 1..Len(bs)
    <3>1. DOMAIN bs = 1..Len(bs)
      OBVIOUS
    <3>2. bs2 = bs
      BY <2>2, <3>1 DEF Attach
    <3>. QED  BY <3>2
  <2>. QED  BY <2>1, <2>2
<1>. HIDE DEF bs2
<1>. QED  BY <1>1, <1>2, SameExtends DEF bs2

LEMMA BlocksExtend ==
  ASSUME NEW bs \in Seq(BB), NEW new \in Seq({0, 1}), NEW f, Rooted(bs, f)
  PROVE  Extends(bs, bs \o Blocks(new), f, {})
<1>. DEFINE bs2 == bs \o Blocks(new)
<1>1. /\ bs2 \in Seq(BB) /\ Len(bs2) = Len(bs) + Len(new)
      /\ \A b \in 1..Len(bs) : bs2[b] = bs[b]
      /\ \A b \in (Len(bs) + 1)..Len(bs2) : bs2[b].terms = <<>>
  BY BlocksEmpty
<1>. HIDE DEF bs2
<1>2. Len(bs) \in Nat /\ Len(bs2) \in Nat /\ Len(bs) <= Len(bs2)
  BY <1>1
<1>3. \A b \in 1..Len(bs) :
        /\ Len(bs[b].terms) <= Len(bs2[b].terms)
        /\ \A i \in 1..Len(bs[b].terms) : bs[b].terms[i].to \subseteq bs2[b].terms[i].to
  BY <1>1, BlockTerms
<1>4. Rooted(bs2, f) /\ Sources(bs, f) \subseteq Sources(bs2, f)
  BY <1>1, <1>2, <1>3, StillRooted
<1>5. f.entry \in 1..Len(bs) /\ f.first \in 1..(Len(bs) + 1)
  BY DEF Rooted
<1>6. ASSUME NEW b \in Region(bs2, f), NEW t
      PROVE  t \in EdgesFrom(bs2, f, b) <=> b \in Region(bs, f) /\ t \in EdgesFrom(bs, f, b)
  <2>1. CASE b \in 1..Len(bs)
    <3>1. b \in Region(bs, f)
      BY <1>2, <1>5, <2>1 DEF Region
    <3>. QED  BY <1>1, <2>1, <3>1 DEF EdgesFrom
  <2>2. CASE b \notin 1..Len(bs)
    <3>1. b \in (Len(bs) + 1)..Len(bs2) /\ b # f.entry
      BY <1>2, <1>5, <2>2 DEF Region
    <3>2. b \notin Region(bs, f)
      BY <2>2, RegionIn
    <3>3. Targets(bs2[b], 1) = {}
      BY <1>1, <3>1 DEF Targets
    <3>. QED  BY <3>1, <3>2, <3>3 DEF EdgesFrom
  <2>. QED  BY <2>1, <2>2
<1>. QED  BY <1>2, <1>4, <1>6 DEF Extends, bs2

\* One change after another.
LEMMA ThenExtends ==
  ASSUME NEW bs \in Seq(BB), NEW bs1 \in Seq(BB), NEW bs2 \in Seq(BB), NEW f, NEW E, NEW F,
         Rooted(bs, f), Extends(bs, bs1, f, E), Extends(bs1, bs2, f, F),
         \A b, t : <<b, t>> \in E => b \in 1..Len(bs1)
  PROVE  Extends(bs, bs2, f, E \cup F)
<1>1. Len(bs) \in Nat /\ Len(bs1) \in Nat /\ Len(bs2) \in Nat
  OBVIOUS
<1>2. /\ Rooted(bs1, f) /\ Rooted(bs2, f) /\ Len(bs) <= Len(bs1) /\ Len(bs1) <= Len(bs2)
      /\ Sources(bs, f) \subseteq Sources(bs2, f)
  BY DEF Extends
<1>3. /\ Region(bs, f) \subseteq Region(bs1, f) /\ Region(bs1, f) \subseteq Region(bs2, f)
      /\ \A b \in Region(bs2, f) : b \in 1..Len(bs1) => b \in Region(bs1, f)
  <2>1. f.first \in 1..(Len(bs) + 1) /\ f.entry \in 1..Len(bs)
    BY DEF Rooted
  <2>. QED  BY <1>1, <1>2, <2>1 DEF Region
<1>4. ASSUME NEW b \in Region(bs2, f), NEW t
      PROVE  t \in EdgesFrom(bs2, f, b) <=>
               (b \in Region(bs, f) /\ t \in EdgesFrom(bs, f, b)) \/ <<b, t>> \in E \cup F
  <2>1. t \in EdgesFrom(bs2, f, b) <=>
          (b \in Region(bs1, f) /\ t \in EdgesFrom(bs1, f, b)) \/ <<b, t>> \in F
    BY DEF Extends
  <2>2. CASE b \in Region(bs1, f)
    <3>1. t \in EdgesFrom(bs1, f, b) <=>
            (b \in Region(bs, f) /\ t \in EdgesFrom(bs, f, b)) \/ <<b, t>> \in E
      BY <2>2 DEF Extends
    <3>. QED  BY <2>1, <2>2, <3>1
  <2>3. CASE b \notin Region(bs1, f)
    <3>1. <<b, t>> \notin E
      BY <1>3, <2>3
    <3>. QED  BY <1>3, <2>1, <2>3, <3>1
  <2>. QED  BY <2>2, <2>3
<1>5. Len(bs) <= Len(bs2)
  BY <1>1, <1>2
<1>. QED  BY <1>2, <1>4, <1>5 DEF Extends

\* addCase: an edge more for a statement whose code has the instruction.
LEMMA AddCaseExtends ==
  ASSUME NEW bs \in Seq(BB), NEW b \in Nat, switch # None, SwitchAt(bs, switch),
         NEW f, Rooted(bs, f)
  PROVE  LET bs2 == AddCase(bs, b)
             has == f.entry # switch.at \/ f.terms < switch.term
         IN /\ bs2 \in Seq(BB) /\ Len(bs2) = Len(bs)
            /\ Extends(bs, bs2, f, IF has THEN {<<switch.at, b>>} ELSE {})
            /\ f.switch = switch => b \in Sources(bs2, f)
<1>. DEFINE at == switch.at
            t0 == switch.term
            bb == bs[at]
            old == bb.terms
            u == [old[t0] EXCEPT !.to = @ \cup {b}]
            new == [old EXCEPT ![t0] = u]
            e == WithCase(bb, t0, b)
            bs2 == AddCase(bs, b)
            has == f.entry # at \/ f.terms < t0
<1>1. at \in 1..Len(bs) /\ t0 \in 1..Len(old)
  BY DEF SwitchAt
<1>2. bs2 \in Seq(BB) /\ Len(bs2) = Len(bs) /\ Len(bs) \in Nat
  BY AddCaseTyped
<1>3. bb \in BB
  BY <1>1
<1>4. bs2 = With(bs, at, e) /\ e = [bb EXCEPT !.terms = new]
  BY DEF AddCase, With, WithCase
<1>. HIDE DEF bb, at, t0, e, bs2
<1>5. old \in Seq(Term) /\ Len(old) \in Nat
  BY <1>3 DEF BB
<1>6. old[t0] \in Term
  BY <1>1, <1>5
<1>7. u \in Term /\ u.to = old[t0].to \cup {b}
  BY <1>6 DEF Term
<1>. HIDE DEF u
<1>8. new \in Seq(Term) /\ Len(new) = Len(old) /\ \A i \in 1..Len(old) : new[i] = IF i = t0 THEN u ELSE old[i]
  <2>. HIDE DEF old
  <2>. QED  BY <1>1, <1>5, <1>7, ExceptSeq
<1>. HIDE DEF new
<1>9. e \in BB /\ e.terms = new
  BY <1>3, <1>4, <1>8 DEF BB
<1>10. \A i \in 1..Len(bs) : bs2[i] = IF i = at THEN e ELSE bs[i]
  BY <1>4, <1>9, WithAt
<1>11. \A i \in Nat \ {0} : Targets(e, i) = Targets(bb, i) \cup (IF i <= t0 THEN {b} ELSE {})
  <2>. SUFFICES ASSUME NEW i \in Nat \ {0}
                PROVE  Targets(e, i) = Targets(bb, i) \cup (IF i <= t0 THEN {b} ELSE {})
    OBVIOUS
  <2>1. Targets(e, i) = UNION {new[j].to : j \in i..Len(old)}
    BY <1>8, <1>9 DEF Targets
  <2>2. Targets(bb, i) = UNION {old[j].to : j \in i..Len(old)}
    BY DEF Targets
  <2>3. \A j \in i..Len(old) : new[j].to = IF j = t0 THEN old[j].to \cup {b} ELSE old[j].to
    <3>1. \A j \in i..Len(old) : j \in 1..Len(old)
      BY <1>5
    <3>. QED  BY <1>7, <1>8, <3>1
  <2>4. t0 \in i..Len(old) <=> i <= t0
    BY <1>1, <1>5
  <2>. HIDE DEF old
  <2>5. CASE i <= t0
    <3>1. t0 \in i..Len(old) /\ new[t0].to = old[t0].to \cup {b}
      BY <2>3, <2>4, <2>5
    <3>2. \A x : x \in Targets(e, i) <=> \E j \in i..Len(old) : x \in new[j].to
      BY <2>1
    <3>3. \A x : x \in Targets(bb, i) <=> \E j \in i..Len(old) : x \in old[j].to
      BY <2>2
    <3>4. \A x : x \in Targets(e, i) <=> x \in Targets(bb, i) \/ x = b
      BY <2>3, <3>1, <3>2, <3>3
    <3>. QED  BY <2>5, <3>4
  <2>6. CASE ~(i <= t0)
    BY <2>1, <2>2, <2>3, <2>4, <2>6
  <2>. QED  BY <2>5, <2>6
<1>12. Rooted(bs2, f) /\ Sources(bs, f) \subseteq Sources(bs2, f)
  <2>1. \A i \in 1..Len(bs) :
          /\ Len(bs[i].terms) <= Len(bs2[i].terms)
          /\ \A j \in 1..Len(bs[i].terms) : bs[i].terms[j].to \subseteq bs2[i].terms[j].to
    <3>. SUFFICES ASSUME NEW i \in 1..Len(bs)
                  PROVE  /\ Len(bs[i].terms) <= Len(bs2[i].terms)
                         /\ \A j \in 1..Len(bs[i].terms) : bs[i].terms[j].to \subseteq bs2[i].terms[j].to
      OBVIOUS
    <3>1. CASE i = at
      <4>1. bs2[i] = e /\ bs[i] = bb
        BY <1>10, <3>1 DEF bb
      <4>. QED  BY <1>5, <1>7, <1>8, <1>9, <4>1
    <3>2. CASE i # at
      BY <1>10, <3>2, BlockTerms
    <3>. QED  BY <3>1, <3>2
  <2>2. Len(bs) <= Len(bs2)
    BY <1>2
  <2>. QED  BY <1>2, <2>1, <2>2, StillRooted
<1>13. Region(bs2, f) = Region(bs, f) /\ Region(bs, f) \subseteq 1..Len(bs)
  BY <1>2, RegionIn DEF Region
<1>14. ASSUME NEW i \in Region(bs2, f)
       PROVE  EdgesFrom(bs2, f, i) = EdgesFrom(bs, f, i) \cup (IF has /\ i = at THEN {b} ELSE {})
  <2>1. i \in 1..Len(bs)
    BY <1>13
  <2>2. CASE i = at
    <3>1. bs2[i] = e /\ bs[i] = bb
      BY <1>10, <2>1, <2>2 DEF bb
    <3>2. CASE i = f.entry
      <4>1. f.terms \in Nat /\ t0 \in Nat /\ f.terms + 1 \in Nat \ {0}
        <5>1. f.terms \in 0..Len(bs[f.entry].terms)
          BY DEF Rooted
        <5>. QED  BY <1>1, <1>5, <5>1
      <4>2. f.terms + 1 <= t0 <=> has
        BY <2>2, <3>2, <4>1
      <4>3. Targets(e, f.terms + 1) = Targets(bb, f.terms + 1) \cup (IF f.terms + 1 <= t0 THEN {b} ELSE {})
        BY <1>11, <4>1
      <4>. HIDE DEF has
      <4>. QED  BY <2>2, <3>1, <3>2, <4>2, <4>3 DEF EdgesFrom
    <3>3. CASE i # f.entry
      <4>1. has
        BY <2>2, <3>3
      <4>2. 1 <= t0 /\ 1 \in Nat \ {0}
        BY <1>1, <1>5
      <4>3. Targets(e, 1) = Targets(bb, 1) \cup {b}
        BY <1>11, <4>2
      <4>. HIDE DEF has
      <4>. QED  BY <2>2, <3>1, <3>3, <4>1, <4>3 DEF EdgesFrom
    <3>. QED  BY <3>2, <3>3
  <2>3. CASE i # at
    <3>1. bs2[i] = bs[i]
      BY <1>10, <2>1, <2>3
    <3>. QED  BY <2>3, <3>1 DEF EdgesFrom
  <2>. QED  BY <2>2, <2>3
<1>. DEFINE E == IF has THEN {<<at, b>>} ELSE {}
<1>15. \A i, t : <<i, t>> \in E <=> has /\ i = at /\ t = b
  <2>. HIDE DEF has
  <2>. QED  OBVIOUS
<1>. HIDE DEF E, has
<1>16. \A i \in Region(bs2, f) : \A t :
         t \in EdgesFrom(bs2, f, i) <=>
           (i \in Region(bs, f) /\ t \in EdgesFrom(bs, f, i)) \/ <<i, t>> \in E
  BY <1>13, <1>14, <1>15
<1>17. Extends(bs, bs2, f, E)
  BY <1>2, <1>12, <1>16 DEF Extends
<1>18. f.switch = switch => b \in Sources(bs2, f)
  <2>1. bs2[at] = e /\ new[t0] = u
    BY <1>1, <1>8, <1>10
  <2>2. bs2[at].terms[t0].to = old[t0].to \cup {b}
    BY <1>7, <1>9, <2>1
  <2>. QED  BY <2>2 DEF Sources, at, t0
<1>. QED  BY <1>2, <1>17, <1>18 DEF bs2, E, has, at, t0

-----------------------------------------------------------------------------
(* Statements.  The blocks that code inside a statement branches to, where  *)
(* the control flow of the program wants it: those its handler makes, and   *)
(* those it goes on in that another has made.                               *)

\* The blocks the handler of f has made for itself.
Makes(f) ==
  IF f.k = "if" THEN {f.alt} \cup (IF f.own THEN {f.next} ELSE {})
  ELSE IF f.k \in {"while", "for", "switch"} THEN {f.alt, f.next}
  ELSE {}

\* Those it goes on in, or branches to.
Heads(f) ==
  Makes(f) \cup (IF f.k \in {"if", "case", "case_arrow"} THEN {f.next} ELSE {})
           \cup (IF f.k = "else" /\ f.merge # None THEN {f.merge} ELSE {})

\* Those that are led to from the beginning on.
Comes(f) ==
  IF f.k \in {"while", "for"} THEN {f.alt, f.next}
  ELSE IF f.k \in {"if", "switch"} THEN {f.alt}
  ELSE {}

\* No block of the statement branches out of it but where the code means to.
OneWay(bs, f) ==
  \A b \in Region(bs, f) : EdgesFrom(bs, f, b) \subseteq Region(bs, f) \cup Leave(f)

\* The branches of the statement lead to block x: any set of blocks that
\* follows them from its sources has it.
Follows(bs, f, S) ==
  /\ Sources(bs, f) \subseteq S
  /\ \A b \in S \cap Region(bs, f) : EdgesFrom(bs, f, b) \subseteq S

Leads(bs, f, x) == \A S : Follows(bs, f, S) => x \in S

\* Statement g is in statement f, or is it.
Holds(bs, f, g) ==
  /\ Makes(g) \subseteq f.first..Len(bs)
  /\ Heads(g) \subseteq (f.first..Len(bs)) \cup Leave(f)

\* What leads to g's blocks, and to its instruction if it is a switch, leads
\* there within f too.
Reaches(bs, f, g) ==
  /\ \A b \in Comes(g) : Leads(bs, f, b)
  /\ g.k = "switch" => /\ Leads(bs, f, g.entry) /\ g.entry \in Region(bs, f)
                       /\ g.entry = f.entry => f.terms <= g.terms

\* Code is inserted at block at, in the statement of f.
Stands(bs, f, at) ==
  /\ Rooted(bs, f) /\ OneWay(bs, f) /\ Leads(bs, f, at)
  /\ f.default \/ at \in Region(bs, f)

\* The switch_info_ that the handler of a switch sets.
InfoOf(f) == [merge |-> f.next, default |-> f.alt, at |-> f.entry, term |-> f.terms + 1]

\* The room each open statement has: it has one way out, what is open inside
\* it stays in it, and its cases find its instruction.
Rooms(bs, s, at, sw) ==
  /\ SwitchAt(bs, sw)
  /\ \A i \in 1..Len(s) : Stands(bs, s[i], at)
  /\ \A i \in 1..Len(s) : \A j \in 1..i : Holds(bs, s[j], s[i]) /\ Reaches(bs, s[j], s[i])
  /\ \A i \in 1..Len(s) : s[i].k = "switch" => SwitchInside(s, sw, i) = InfoOf(s[i])

LEMMA RegionGrows ==
  ASSUME NEW bs \in Seq(BB), NEW bs2 \in Seq(BB), Len(bs) <= Len(bs2), NEW f, Rooted(bs, f)
  PROVE  /\ Region(bs, f) \subseteq Region(bs2, f)
         /\ f.first..Len(bs) \subseteq f.first..Len(bs2)
         /\ (Len(bs) + 1)..Len(bs2) \subseteq f.first..Len(bs2)
         /\ f.first..Len(bs2) \subseteq Region(bs2, f)
<1>1. Len(bs) \in Nat /\ Len(bs2) \in Nat /\ f.first \in 1..(Len(bs) + 1)
  BY DEF Rooted
<1>2. /\ f.first..Len(bs) \subseteq f.first..Len(bs2)
      /\ (Len(bs) + 1)..Len(bs2) \subseteq f.first..Len(bs2)
  BY <1>1
<1>. QED  BY <1>2 DEF Region

LEMMA LeadsMore ==
  ASSUME NEW bs \in Seq(BB), NEW bs2 \in Seq(BB), NEW f, NEW E, Rooted(bs, f),
         Extends(bs, bs2, f, E), NEW x, Leads(bs, f, x)
  PROVE  Leads(bs2, f, x)
<1>. SUFFICES ASSUME NEW S, Follows(bs2, f, S) PROVE x \in S
  BY DEF Leads
<1>1. Region(bs, f) \subseteq Region(bs2, f)
  BY RegionGrows DEF Extends
<1>2. ASSUME NEW b \in S \cap Region(bs, f)
      PROVE  EdgesFrom(bs, f, b) \subseteq S
  <2>1. b \in S \cap Region(bs2, f)
    BY <1>1
  <2>2. EdgesFrom(bs2, f, b) \subseteq S
    BY <2>1 DEF Follows
  <2>3. \A t : t \in EdgesFrom(bs, f, b) => t \in EdgesFrom(bs2, f, b)
    BY <2>1 DEF Extends
  <2>. QED  BY <2>2, <2>3
<1>3. Sources(bs, f) \subseteq S
  BY DEF Extends, Follows
<1>4. Follows(bs, f, S)
  BY <1>2, <1>3 DEF Follows
<1>. QED  BY <1>4 DEF Leads

LEMMA GoesTo ==
  ASSUME NEW bs, NEW bs2, NEW f, NEW E, Extends(bs, bs2, f, E),
         NEW x, NEW t, Leads(bs2, f, x), x \in Region(bs2, f), <<x, t>> \in E
  PROVE  Leads(bs2, f, t)
<1>1. t \in EdgesFrom(bs2, f, x)
  BY DEF Extends
<1>. SUFFICES ASSUME NEW S, Follows(bs2, f, S) PROVE t \in S
  BY DEF Leads
<1>2. x \in S \cap Region(bs2, f)
  BY DEF Leads
<1>. QED  BY <1>1, <1>2 DEF Follows

LEMMA SourceLeads ==
  ASSUME NEW bs, NEW f, NEW x, x \in Sources(bs, f)
  PROVE  Leads(bs, f, x)
  BY DEF Leads, Follows

\* More blocks and edges, into them or where the statement has to go on.
LEMMA GrowStatement ==
  ASSUME NEW bs \in Seq(BB), NEW bs2 \in Seq(BB), NEW f, NEW g, NEW E, NEW at,
         Stands(bs, f, at), Extends(bs, bs2, f, E), Holds(bs, f, g),
         \A b, t : <<b, t>> \in E => t \in (Len(bs) + 1)..Len(bs2) \cup Heads(g)
  PROVE  Stands(bs2, f, at)
<1>1. Rooted(bs, f) /\ Rooted(bs2, f) /\ Len(bs) <= Len(bs2)
  BY DEF Stands, Extends
<1>2. /\ Region(bs, f) \subseteq Region(bs2, f)
      /\ f.first..Len(bs) \subseteq f.first..Len(bs2)
      /\ (Len(bs) + 1)..Len(bs2) \subseteq f.first..Len(bs2)
      /\ f.first..Len(bs2) \subseteq Region(bs2, f)
  BY <1>1, RegionGrows
<1>3. Leads(bs2, f, at)
  BY <1>1, LeadsMore DEF Stands
<1>4. ASSUME NEW b \in Region(bs2, f), NEW t \in EdgesFrom(bs2, f, b)
      PROVE  t \in Region(bs2, f) \cup Leave(f)
  <2>1. CASE b \in Region(bs, f) /\ t \in EdgesFrom(bs, f, b)
    BY <1>2, <2>1 DEF Stands, OneWay
  <2>2. CASE <<b, t>> \in E
    <3>1. t \in (Len(bs) + 1)..Len(bs2) \cup Heads(g)
      BY <2>2
    <3>. QED  BY <1>2, <3>1 DEF Holds
  <2>. QED  BY <2>1, <2>2 DEF Extends
<1>5. OneWay(bs2, f)
  BY <1>4 DEF OneWay
<1>. QED  BY <1>1, <1>2, <1>3, <1>5 DEF Stands

LEMMA GrowHolds ==
  ASSUME NEW bs \in Seq(BB), NEW bs2 \in Seq(BB), NEW f, NEW g, NEW E,
         Rooted(bs, f), Extends(bs, bs2, f, E), Holds(bs, f, g), Reaches(bs, f, g)
  PROVE  Holds(bs2, f, g) /\ Reaches(bs2, f, g)
<1>1. Len(bs) <= Len(bs2)
  BY DEF Extends
<1>2. Region(bs, f) \subseteq Region(bs2, f) /\ f.first..Len(bs) \subseteq f.first..Len(bs2)
  BY <1>1, RegionGrows
<1>3. Holds(bs2, f, g)
  BY <1>2 DEF Holds
<1>4. \A x : Leads(bs, f, x) => Leads(bs2, f, x)
  BY LeadsMore
<1>. QED  BY <1>2, <1>3, <1>4 DEF Reaches

LEMMA GrowRooms ==
  ASSUME NEW bs \in Seq(BB), NEW bs2 \in Seq(BB), NEW s, Len(s) \in Nat \ {0}, NEW at, NEW sw, NEW E,
         Rooms(bs, s, at, sw), SwitchAt(bs2, sw),
         \A i \in 1..Len(s) : Extends(bs, bs2, s[i], E),
         \A b, t : <<b, t>> \in E => t \in (Len(bs) + 1)..Len(bs2) \cup Heads(s[Len(s)])
  PROVE  Rooms(bs2, s, at, sw)
<1>1. ASSUME NEW i \in 1..Len(s) PROVE Stands(bs2, s[i], at)
  <2>. DEFINE g == s[Len(s)]
              f == s[i]
  <2>1. i \in 1..Len(s) /\ Len(s) \in 1..Len(s)
    OBVIOUS
  <2>2. Stands(bs, f, at) /\ Extends(bs, bs2, f, E) /\ Holds(bs, f, g)
    BY <2>1 DEF Rooms
  <2>3. \A b, t : <<b, t>> \in E => t \in (Len(bs) + 1)..Len(bs2) \cup Heads(g)
    OBVIOUS
  <2>. HIDE DEF f, g
  <2>4. Stands(bs2, f, at)
    BY <2>2, <2>3, GrowStatement
  <2>. QED  BY <2>4 DEF f
<1>2. ASSUME NEW i \in 1..Len(s), NEW j \in 1..i
      PROVE  Holds(bs2, s[j], s[i]) /\ Reaches(bs2, s[j], s[i])
  <2>. DEFINE f == s[j]
              g == s[i]
  <2>1. j \in 1..Len(s)
    OBVIOUS
  <2>2. Rooted(bs, f) /\ Extends(bs, bs2, f, E) /\ Holds(bs, f, g) /\ Reaches(bs, f, g)
    BY <2>1 DEF Rooms, Stands
  <2>. HIDE DEF f, g
  <2>3. Holds(bs2, f, g) /\ Reaches(bs2, f, g)
    BY <2>2, GrowHolds
  <2>. QED  BY <2>3 DEF f, g
<1>. QED  BY <1>1, <1>2 DEF Rooms

\* Code is inserted elsewhere.
LEMMA MoveRooms ==
  ASSUME NEW bs, NEW s, NEW at, NEW sw, Rooms(bs, s, at, sw), NEW at2,
         \A i \in 1..Len(s) :
           Leads(bs, s[i], at2) /\ (s[i].default \/ at2 \in Region(bs, s[i]))
  PROVE  Rooms(bs, s, at2, sw)
  BY DEF Rooms, Stands

LEMMA PushRooms ==
  ASSUME NEW S, NEW s \in Seq(S), NEW bs, NEW at, NEW sw, Rooms(bs, s, at, sw),
         NEW f, f.switch = sw, Stands(bs, f, at), Holds(bs, f, f), Reaches(bs, f, f),
         \A i \in 1..Len(s) : Holds(bs, s[i], f) /\ Reaches(bs, s[i], f),
         NEW sw2, SwitchAt(bs, sw2), f.k = "switch" => sw2 = InfoOf(f)
  PROVE  Rooms(bs, Append(s, f), at, sw2)
<1>. DEFINE t == Append(s, f)
<1>1. /\ Len(t) = Len(s) + 1
      /\ \A i \in 1..Len(s) : t[i] = s[i]
      /\ t[Len(s) + 1] = f
      /\ Len(s) \in Nat
  BY PushShape
<1>. HIDE DEF t
<1>2. \A i \in 1..Len(t) : (i \in 1..Len(s) /\ t[i] = s[i]) \/ (i = Len(s) + 1 /\ t[i] = f)
  BY <1>1
<1>3. \A i \in 1..Len(t) : Stands(bs, t[i], at)
  BY <1>2 DEF Rooms
<1>4. ASSUME NEW i \in 1..Len(t), NEW j \in 1..i
      PROVE  Holds(bs, t[j], t[i]) /\ Reaches(bs, t[j], t[i])
  <2>1. CASE i \in 1..Len(s)
    <3>1. t[i] = s[i] /\ t[j] = s[j]
      BY <1>1, <2>1
    <3>. QED  BY <2>1, <3>1 DEF Rooms
  <2>2. CASE i = Len(s) + 1
    <3>1. t[i] = f /\ (t[j] = f \/ (j \in 1..Len(s) /\ t[j] = s[j]))
      BY <1>1, <2>2
    <3>. QED  BY <3>1
  <2>. QED  BY <1>2, <2>1, <2>2
<1>5. ASSUME NEW i \in 1..Len(t), t[i].k = "switch"
      PROVE  SwitchInside(t, sw2, i) = InfoOf(t[i])
  <2>1. CASE i \in 1..Len(s)
    <3>1. SwitchInside(t, sw2, i) = SwitchInside(s, sw, i)
      <4>1. i # Len(t) /\ (i # Len(s) => t[i + 1] = s[i + 1]) /\ (i = Len(s) => t[i + 1] = f)
        BY <2>1, <1>1
      <4>. QED  BY <4>1 DEF SwitchInside
    <3>. QED  BY <2>1, <3>1, <1>1, <1>5 DEF Rooms
  <2>2. CASE i = Len(s) + 1
    BY <2>2, <1>1, <1>5 DEF SwitchInside
  <2>. QED  BY <1>2, <2>1, <2>2
<1>6. Rooms(bs, t, at, sw2)
  BY <1>3, <1>4, <1>5 DEF Rooms
<1>. QED  BY <1>6 DEF t

LEMMA PopRooms ==
  ASSUME NEW S, NEW s \in Seq(S), s # <<>>, NEW bs, NEW at, NEW sw, Rooms(bs, s, at, sw)
  PROVE  Rooms(bs, SubSeq(s, 1, Len(s) - 1), at, s[Len(s)].switch)
<1>. DEFINE t == SubSeq(s, 1, Len(s) - 1)
            sw2 == s[Len(s)].switch
<1>1. /\ Len(s) \in Nat /\ Len(s) > 0
      /\ Len(t) = Len(s) - 1
      /\ \A i \in 1..(Len(s) - 1) : t[i] = s[i]
  BY PopShape
<1>2. Len(s) \in 1..Len(s)
  BY <1>1
<1>3. SwitchAt(bs, sw2)
  BY <1>2 DEF Rooms, Stands, Rooted
<1>. HIDE DEF t
<1>4. \A i \in 1..Len(t) : i \in 1..Len(s) /\ t[i] = s[i]
  BY <1>1
<1>5. \A i \in 1..Len(t) : Stands(bs, t[i], at)
  BY <1>4 DEF Rooms
<1>6. ASSUME NEW i \in 1..Len(t), NEW j \in 1..i
      PROVE  Holds(bs, t[j], t[i]) /\ Reaches(bs, t[j], t[i])
  <2>1. t[i] = s[i] /\ t[j] = s[j] /\ i \in 1..Len(s)
    BY <1>1
  <2>. QED  BY <2>1 DEF Rooms
<1>7. ASSUME NEW i \in 1..Len(t), t[i].k = "switch"
      PROVE  SwitchInside(t, sw2, i) = InfoOf(t[i])
  <2>1. SwitchInside(t, sw2, i) = SwitchInside(s, sw, i)
    <3>1. i # Len(s) /\ (i # Len(t) => t[i + 1] = s[i + 1]) /\ (i = Len(t) => i + 1 = Len(s))
      BY <1>1
    <3>. QED  BY <3>1 DEF SwitchInside
  <2>. QED  BY <2>1, <1>4, <1>7 DEF Rooms
<1>8. Rooms(bs, t, at, sw2)
  BY <1>3, <1>5, <1>6, <1>7 DEF Rooms
<1>. QED  BY <1>8 DEF t

\* Frames that differ in what is not asked here.
SameFlow(f, g) ==
  /\ g.k = f.k /\ g.next = f.next /\ g.alt = f.alt /\ g.own = f.own /\ g.default = f.default
  /\ g.merge = f.merge /\ g.switch = f.switch
  /\ g.first = f.first /\ g.entry = f.entry /\ g.terms = f.terms

LEMMA FlowSame ==
  ASSUME NEW bs, NEW f, NEW g, SameFlow(f, g)
  PROVE  /\ Makes(g) = Makes(f) /\ Heads(g) = Heads(f) /\ Comes(g) = Comes(f)
         /\ Leave(g) = Leave(f) /\ Region(bs, g) = Region(bs, f) /\ InfoOf(g) = InfoOf(f)
         /\ \A x : Leads(bs, f, x) => Leads(bs, g, x)
         /\ \A at : Stands(bs, f, at) => Stands(bs, g, at)
<1>1. /\ Leave(g) = Leave(f) /\ Region(bs, g) = Region(bs, f) /\ InfoOf(g) = InfoOf(f)
      /\ Makes(g) = Makes(f) /\ Heads(g) = Heads(f) /\ Comes(g) = Comes(f)
  BY DEF SameFlow, Makes, Heads, Comes, Leave, Region, InfoOf
<1>2. Sources(bs, g) = Sources(bs, f) /\ \A b : EdgesFrom(bs, g, b) = EdgesFrom(bs, f, b)
  BY DEF SameFlow, Sources, EdgesFrom
<1>3. \A x : Leads(bs, f, x) => Leads(bs, g, x)
  BY <1>1, <1>2 DEF Leads, Follows
<1>4. OneWay(bs, f) => OneWay(bs, g)
  BY <1>1, <1>2 DEF OneWay
<1>5. Rooted(bs, f) => Rooted(bs, g)
  BY DEF SameFlow, Rooted
<1>6. \A at : Stands(bs, f, at) => Stands(bs, g, at)
  BY <1>1, <1>3, <1>4, <1>5 DEF Stands, SameFlow
<1>. QED  BY <1>1, <1>3, <1>6

LEMMA RoomsSame ==
  ASSUME NEW s, NEW t, Len(t) = Len(s), Len(s) \in Nat, \A i \in 1..Len(s) : SameFlow(s[i], t[i]),
         NEW bs, NEW at, NEW sw, Rooms(bs, s, at, sw)
  PROVE  Rooms(bs, t, at, sw)
<1>1. \A i \in 1..Len(t) : Stands(bs, t[i], at)
  BY FlowSame DEF Rooms
<1>2. ASSUME NEW i \in 1..Len(t), NEW j \in 1..i
      PROVE  Holds(bs, t[j], t[i]) /\ Reaches(bs, t[j], t[i])
  <2>. DEFINE f == s[j]
              g == s[i]
              f2 == t[j]
              g2 == t[i]
  <2>1. i \in 1..Len(s) /\ j \in 1..Len(s)
    OBVIOUS
  <2>2. Holds(bs, f, g) /\ Reaches(bs, f, g) /\ SameFlow(f, f2) /\ SameFlow(g, g2)
    BY <2>1 DEF Rooms
  <2>. HIDE DEF f, g, f2, g2
  <2>3. /\ Makes(g2) = Makes(g) /\ Heads(g2) = Heads(g) /\ Comes(g2) = Comes(g)
        /\ Leave(f2) = Leave(f) /\ Region(bs, f2) = Region(bs, f)
        /\ \A x : Leads(bs, f, x) => Leads(bs, f2, x)
    BY <2>2, FlowSame
  <2>4. Holds(bs, f2, g2)
    BY <2>2, <2>3 DEF Holds, SameFlow
  <2>5. Reaches(bs, f2, g2)
    BY <2>2, <2>3 DEF Reaches, SameFlow
  <2>. QED  BY <2>4, <2>5 DEF f2, g2
<1>3. ASSUME NEW i \in 1..Len(t), t[i].k = "switch"
      PROVE  SwitchInside(t, sw, i) = InfoOf(t[i])
  <2>1. SwitchInside(t, sw, i) = SwitchInside(s, sw, i)
    <3>1. i # Len(s) => i + 1 \in 1..Len(s)
      BY <1>3
    <3>2. i # Len(s) => t[i + 1].switch = s[i + 1].switch
      BY <3>1 DEF SameFlow
    <3>. QED  BY <3>2 DEF SwitchInside
  <2>2. SameFlow(s[i], t[i])
    OBVIOUS
  <2>3. InfoOf(t[i]) = InfoOf(s[i]) /\ s[i].k = "switch"
    BY <1>3, <2>2, FlowSame DEF SameFlow
  <2>. QED  BY <2>1, <2>3 DEF Rooms
<1>. QED  BY <1>1, <1>2, <1>3 DEF Rooms

-----------------------------------------------------------------------------
(* Instructions.                                                            *)

\* The blocks that are not come to yet lead nowhere (a default may return).
Quiet(bs, W) == \A b \in W : Targets(bs[b], 1) = {}

\* Every statement that was there has just the edges E more.
Edged(bs, bs2, E) == \A f : Rooted(bs, f) => Extends(bs, bs2, f, E)

\* A frame that looks at block b only.
Probe(bs, b, sw) == [entry |-> b, terms |-> 0, first |-> Len(bs) + 1, switch |-> sw]

LEMMA ProbeRooted ==
  ASSUME NEW bs \in Seq(BB), NEW b \in 1..Len(bs), NEW sw, SwitchAt(bs, sw)
  PROVE  LET f == Probe(bs, b, sw)
         IN /\ Rooted(bs, f) /\ Region(bs, f) = {b}
            /\ \A bs2 : EdgesFrom(bs2, f, b) = Targets(bs2[b], 1)
<1>. DEFINE f == Probe(bs, b, sw)
<1>1. f.entry = b /\ f.terms = 0 /\ f.first = Len(bs) + 1 /\ f.switch = sw
  BY DEF Probe
<1>. HIDE DEF f
<1>2. Len(bs) \in Nat /\ Len(bs[b].terms) \in Nat
  BY BlockTerms
<1>3. Rooted(bs, f)
  BY <1>1, <1>2 DEF Rooted
<1>4. Region(bs, f) = {b}
  BY <1>1, <1>2 DEF Region
<1>5. \A bs2 : EdgesFrom(bs2, f, b) = Targets(bs2[b], 1)
  BY <1>1 DEF EdgesFrom
<1>. QED  BY <1>3, <1>4, <1>5 DEF f

LEMMA EdgedSwitch ==
  ASSUME NEW bs \in Seq(BB), NEW at \in 1..Len(bs), NEW sw, SwitchAt(bs, sw),
         NEW bs2, NEW E, Edged(bs, bs2, E)
  PROVE  SwitchAt(bs2, sw)
<1>. DEFINE f == Probe(bs, at, sw)
<1>1. Rooted(bs, f) /\ f.switch = sw
  BY ProbeRooted DEF Probe
<1>. HIDE DEF f
<1>2. Rooted(bs2, f)
  BY <1>1 DEF Edged, Extends
<1>. QED  BY <1>1, <1>2 DEF Rooted

LEMMA EdgedQuiet ==
  ASSUME NEW bs \in Seq(BB), NEW at \in 1..Len(bs), NEW sw, SwitchAt(bs, sw),
         NEW bs2 \in Seq(BB), NEW E,
         Edged(bs, bs2, E), NEW W, Quiet(bs, W), NEW W2,
         \A b \in W2 : (b \in W /\ b \in 1..Len(bs)) \/ b \in (Len(bs) + 1)..Len(bs2),
         \A b, t : <<b, t>> \in E => b \notin W2
  PROVE  Quiet(bs2, W2)
<1>. SUFFICES ASSUME NEW b \in W2 PROVE Targets(bs2[b], 1) = {}
  BY DEF Quiet
<1>1. CASE b \in W /\ b \in 1..Len(bs)
  <2>. DEFINE f == Probe(bs, b, sw)
  <2>1. /\ Rooted(bs, f) /\ Region(bs, f) = {b} /\ f.entry = b
        /\ EdgesFrom(bs2, f, b) = Targets(bs2[b], 1)
        /\ EdgesFrom(bs, f, b) = Targets(bs[b], 1)
    BY <1>1, ProbeRooted DEF Probe
  <2>. HIDE DEF f
  <2>2. Extends(bs, bs2, f, E) /\ b \in Region(bs2, f)
    BY <2>1 DEF Edged, Region
  <2>3. \A t : t \in EdgesFrom(bs2, f, b) <=>
                 (b \in Region(bs, f) /\ t \in EdgesFrom(bs, f, b)) \/ <<b, t>> \in E
    BY <2>2 DEF Extends
  <2>. QED  BY <1>1, <2>1, <2>3 DEF Quiet
<1>2. CASE b \in (Len(bs) + 1)..Len(bs2)
  <2>. DEFINE f == Probe(bs, at, sw)
  <2>1. /\ Rooted(bs, f) /\ Region(bs, f) = {at} /\ f.entry = at /\ f.first = Len(bs) + 1
    BY ProbeRooted DEF Probe
  <2>. HIDE DEF f
  <2>2. Len(bs) \in Nat /\ b # at
    BY <1>2
  <2>3. Extends(bs, bs2, f, E) /\ b \in Region(bs2, f) /\ b \notin Region(bs, f)
    BY <1>2, <2>1, <2>2 DEF Edged, Region
  <2>4. EdgesFrom(bs2, f, b) = Targets(bs2[b], 1)
    BY <2>1, <2>2 DEF EdgesFrom
  <2>5. \A t : t \in EdgesFrom(bs2, f, b) <=>
                 (b \in Region(bs, f) /\ t \in EdgesFrom(bs, f, b)) \/ <<b, t>> \in E
    BY <2>3 DEF Extends
  <2>. QED  BY <2>3, <2>4, <2>5
<1>. QED  BY <1>1, <1>2

LEMMA BrEdged ==
  ASSUME NEW bs \in Seq(BB), NEW at \in 1..Len(bs), NEW to \in Nat
  PROVE  /\ Br(bs, at, to) \in Seq(BB) /\ Len(Br(bs, at, to)) = Len(bs)
         /\ Edged(bs, Br(bs, at, to), {<<at, to>>})
<1>1. Br(bs, at, to) \in Seq(BB) /\ Len(Br(bs, at, to)) = Len(bs)
  BY BrEnds DEF Ends
<1>. DEFINE k == "br"
            t == {to}
<1>2. t \in SUBSET Nat /\ k \in {"br", "condbr", "switch", "ret"} /\ {at} \X t = {<<at, to>>}
  OBVIOUS
<1>3. Br(bs, at, to) = With(bs, at, Terminated(bs[at], k, t))
  BY DEF Br, With
<1>. HIDE DEF k, t
<1>4. ASSUME NEW f, Rooted(bs, f)
      PROVE  Extends(bs, With(bs, at, Terminated(bs[at], k, t)), f, {at} \X t)
  BY <1>2, <1>4, TermExtends
<1>. QED  BY <1>1, <1>2, <1>3, <1>4 DEF Edged

LEMMA CondBrEdged ==
  ASSUME NEW bs \in Seq(BB), NEW at \in 1..Len(bs), NEW to \in SUBSET Nat
  PROVE  /\ CondBr(bs, at, to) \in Seq(BB) /\ Len(CondBr(bs, at, to)) = Len(bs)
         /\ Edged(bs, CondBr(bs, at, to), {at} \X to)
<1>1. CondBr(bs, at, to) \in Seq(BB) /\ Len(CondBr(bs, at, to)) = Len(bs)
  BY CondBrEnds DEF Ends
<1>. DEFINE k == "condbr"
<1>2. k \in {"br", "condbr", "switch", "ret"}
  OBVIOUS
<1>3. CondBr(bs, at, to) = With(bs, at, Terminated(bs[at], k, to))
  BY DEF CondBr, With
<1>. HIDE DEF k
<1>4. ASSUME NEW f, Rooted(bs, f)
      PROVE  Extends(bs, With(bs, at, Terminated(bs[at], k, to)), f, {at} \X to)
  BY <1>2, <1>4, TermExtends
<1>. QED  BY <1>1, <1>3, <1>4 DEF Edged

\* The instruction of a switch is there for the cases.
LEMMA SwitchMade ==
  ASSUME NEW bs \in Seq(BB), NEW at \in 1..Len(bs), NEW to \in Nat, NEW bs2,
         bs2 = With(bs, at, Terminated(bs[at], "switch", {to})),
         NEW sw, sw.at = at, sw.term = Len(bs[at].terms) + 1
  PROVE  Edged(bs, bs2, {<<at, to>>}) /\ SwitchAt(bs2, sw)
<1>. DEFINE k == "switch"
            t == {to}
            bb == bs[at]
            e == Terminated(bb, k, t)
<1>1. t \in SUBSET Nat /\ k \in {"br", "condbr", "switch", "ret"} /\ {at} \X t = {<<at, to>>}
      /\ bb \in BB /\ t # {}
  OBVIOUS
<1>2. bs2 = With(bs, at, e)
  OBVIOUS
<1>. HIDE DEF k, t
<1>3. ASSUME NEW f, Rooted(bs, f)
      PROVE  Extends(bs, With(bs, at, Terminated(bs[at], k, t)), f, {at} \X t)
  BY <1>1, <1>3, TermExtends
<1>4. Edged(bs, bs2, {<<at, to>>})
  BY <1>1, <1>2, <1>3 DEF Edged
<1>5. /\ e \in BB /\ Len(e.terms) = Len(bb.terms) + 1 /\ Len(bb.terms) \in Nat
      /\ e.terms[Len(bb.terms) + 1].to = t
  <2>. HIDE DEF bb
  <2>. QED  BY <1>1, MoreTargets
<1>. HIDE DEF e
<1>6. bs2[at] = e /\ at \in 1..Len(bs2)
  <2>1. Len(bs2) = Len(bs)
    BY <1>2 DEF With
  <2>. QED  BY <1>2, <1>5, <2>1, WithAt
<1>7. SwitchAt(bs2, sw)
  <2>1. sw.term = Len(bb.terms) + 1
    OBVIOUS
  <2>2. sw.term \in 1..Len(e.terms) /\ e.terms[sw.term].to # {}
    <3>. HIDE DEF bb
    <3>. QED  BY <1>1, <1>5, <2>1
  <2>. QED  BY <1>6, <2>2 DEF SwitchAt
<1>. QED  BY <1>4, <1>7

LEMMA RetEdged ==
  ASSUME NEW bs \in Seq(BB), NEW at \in 1..Len(bs)
  PROVE  LET bs2 == [bs EXCEPT ![at] = Terminated(@, "ret", {})]
         IN bs2 \in Seq(BB) /\ Edged(bs, bs2, {})
<1>. DEFINE k == "ret"
            t == {}
            bs2 == [bs EXCEPT ![at] = Terminated(@, "ret", {})]
<1>1. t \in SUBSET Nat /\ k \in {"br", "condbr", "switch", "ret"} /\ {at} \X t = {}
  OBVIOUS
<1>2. bs2 = With(bs, at, Terminated(bs[at], k, t))
  BY DEF With
<1>3. bs2 \in Seq(BB)
  BY RetTyped
<1>. HIDE DEF k, t, bs2
<1>4. ASSUME NEW f, Rooted(bs, f)
      PROVE  Extends(bs, With(bs, at, Terminated(bs[at], k, t)), f, {at} \X t)
  BY <1>1, <1>4, TermExtends
<1>. QED  BY <1>1, <1>2, <1>3, <1>4 DEF Edged, bs2

LEMMA AttachEdged ==
  ASSUME NEW bs \in Seq(BB), NEW b
  PROVE  /\ Attach(bs, b) \in Seq(BB) /\ Len(Attach(bs, b)) = Len(bs)
         /\ Edged(bs, Attach(bs, b), {})
<1>1. Attach(bs, b) \in Seq(BB) /\ Len(Attach(bs, b)) = Len(bs)
  BY AttachTyped
<1>. QED  BY <1>1, AttachExtends DEF Edged

LEMMA BlocksEdged ==
  ASSUME NEW bs \in Seq(BB), NEW new \in Seq({0, 1})
  PROVE  Edged(bs, bs \o Blocks(new), {})
  BY BlocksExtend DEF Edged

LEMMA ThenEdged ==
  ASSUME NEW bs \in Seq(BB), NEW bs1 \in Seq(BB), NEW bs2 \in Seq(BB), NEW E, NEW F,
         Edged(bs, bs1, E), Edged(bs1, bs2, F),
         \A b, t : <<b, t>> \in E => b \in 1..Len(bs1)
  PROVE  Edged(bs, bs2, E \cup F)
<1>. SUFFICES ASSUME NEW f, Rooted(bs, f) PROVE Extends(bs, bs2, f, E \cup F)
  BY DEF Edged
<1>1. Extends(bs, bs1, f, E)
  BY DEF Edged
<1>2. Extends(bs1, bs2, f, F)
  BY <1>1 DEF Edged, Extends
<1>. QED  BY <1>1, <1>2, ThenExtends

\* A branch to where the innermost statement goes on.
LEMMA BrRooms ==
  ASSUME NEW bs \in Seq(BB), NEW at \in 1..Len(bs), NEW to \in Nat,
         NEW s, Len(s) \in Nat \ {0}, NEW at0, NEW sw, Rooms(bs, s, at0, sw),
         to \in Heads(s[Len(s)]), NEW W, W \subseteq 1..Len(bs), Quiet(bs, W), at \notin W
  PROVE  LET bs2 == Br(bs, at, to)
         IN /\ bs2 \in Seq(BB) /\ Len(bs2) = Len(bs)
            /\ Rooms(bs2, s, at0, sw) /\ Quiet(bs2, W)
            /\ \A i \in 1..Len(s) : Leads(bs, s[i], at) /\ at \in Region(bs, s[i]) => Leads(bs2, s[i], to)
<1>. DEFINE bs2 == Br(bs, at, to)
            E == {<<at, to>>}
<1>1. bs2 \in Seq(BB) /\ Len(bs2) = Len(bs) /\ Edged(bs, bs2, E)
  BY BrEdged
<1>2. \A b, t : <<b, t>> \in E <=> b = at /\ t = to
  OBVIOUS
<1>. HIDE DEF bs2, E
<1>3. SwitchAt(bs, sw)
  BY DEF Rooms
<1>4. SwitchAt(bs2, sw)
  BY <1>1, <1>3, EdgedSwitch
<1>5. \A i \in 1..Len(s) : Rooted(bs, s[i]) /\ Extends(bs, bs2, s[i], E)
  BY <1>1 DEF Edged, Rooms, Stands
<1>6. Rooms(bs2, s, at0, sw)
  <2>1. \A b, t : <<b, t>> \in E => t \in (Len(bs) + 1)..Len(bs2) \cup Heads(s[Len(s)])
    BY <1>2
  <2>. QED  BY <1>1, <1>4, <1>5, <2>1, GrowRooms
<1>7. Quiet(bs2, W)
  <2>1. \A b \in W : (b \in W /\ b \in 1..Len(bs)) \/ b \in (Len(bs) + 1)..Len(bs2)
    OBVIOUS
  <2>2. \A b, t : <<b, t>> \in E => b \notin W
    BY <1>2
  <2>. QED  BY <1>1, <1>3, <2>1, <2>2, EdgedQuiet
<1>8. ASSUME NEW i \in 1..Len(s), Leads(bs, s[i], at), at \in Region(bs, s[i])
      PROVE  Leads(bs2, s[i], to)
  <2>1. Leads(bs2, s[i], at)
    BY <1>1, <1>5, <1>8, LeadsMore
  <2>2. at \in Region(bs2, s[i]) /\ <<at, to>> \in E
    BY <1>1, <1>2, <1>8 DEF Region
  <2>. QED  BY <1>5, <2>1, <2>2, GoesTo
<1>. QED  BY <1>1, <1>6, <1>7, <1>8 DEF bs2

LEMMA AttachRooms ==
  ASSUME NEW bs \in Seq(BB), NEW b, NEW at \in 1..Len(bs),
         NEW s, Len(s) \in Nat \ {0}, NEW at0, NEW sw, Rooms(bs, s, at0, sw),
         NEW W, W \subseteq 1..Len(bs), Quiet(bs, W)
  PROVE  LET bs2 == Attach(bs, b)
         IN /\ bs2 \in Seq(BB) /\ Len(bs2) = Len(bs)
            /\ Rooms(bs2, s, at0, sw) /\ Quiet(bs2, W)
            /\ \A i \in 1..Len(s) : \A x : Leads(bs, s[i], x) => Leads(bs2, s[i], x)
<1>. DEFINE bs2 == Attach(bs, b)
            E == {}
<1>1. bs2 \in Seq(BB) /\ Len(bs2) = Len(bs) /\ Edged(bs, bs2, E)
  BY AttachEdged
<1>2. \A x, t : <<x, t>> \notin E
  OBVIOUS
<1>. HIDE DEF bs2, E
<1>3. SwitchAt(bs, sw)
  BY DEF Rooms
<1>4. SwitchAt(bs2, sw)
  BY <1>1, <1>3, EdgedSwitch
<1>5. \A i \in 1..Len(s) : Rooted(bs, s[i]) /\ Extends(bs, bs2, s[i], E)
  BY <1>1 DEF Edged, Rooms, Stands
<1>6. Rooms(bs2, s, at0, sw)
  BY <1>1, <1>2, <1>4, <1>5, GrowRooms
<1>7. Quiet(bs2, W)
  <2>1. \A x \in W : (x \in W /\ x \in 1..Len(bs)) \/ x \in (Len(bs) + 1)..Len(bs2)
    OBVIOUS
  <2>. QED  BY <1>1, <1>2, <1>3, <2>1, EdgedQuiet
<1>8. \A i \in 1..Len(s) : \A x : Leads(bs, s[i], x) => Leads(bs2, s[i], x)
  BY <1>1, <1>5, LeadsMore
<1>. QED  BY <1>1, <1>6, <1>7, <1>8 DEF bs2

-----------------------------------------------------------------------------
(* Statements that end.                                                     *)

\* The control flow of what has been generated of a function so far.
Flowing == Rooms(bbs, stack, ip, switch) /\ Quiet(bbs, Awaiting(stack))

\* What is left of a statement that ends.
Finished ==
  Flowing' /\ Rooted(bbs', Top) /\ OneWay(bbs', Top) /\ Leads(bbs', Top, ip')

LEMMA LeaveFlows ==
  ASSUME Known, [Next]_vars, stack # <<>>, stack' = Below,
         Rooms(bbs', stack, ip', switch), Quiet(bbs', Awaiting(Below))
  PROVE  Finished
<1>1. stack \in Seq(Frame) /\ Len(stack) \in 1..Len(stack)
  BY KnownNow
<1>2. switch' = Top.switch
  BY SwitchBack
<1>3. Rooms(bbs', Below, ip', Top.switch)
  BY <1>1, PopRooms DEF Below, Top
<1>4. Rooted(bbs', Top) /\ OneWay(bbs', Top) /\ Leads(bbs', Top, ip')
  BY <1>1 DEF Rooms, Stands, Top
<1>. QED  BY <1>2, <1>3, <1>4 DEF Finished, Flowing

\* All statements that are open have the innermost in them.
LEMMA TopFlows ==
  ASSUME Known, stack # <<>>, NEW bs, NEW at, NEW sw, Rooms(bs, stack, at, sw)
  PROVE  /\ Len(stack) \in Nat \ {0} /\ stack[Len(stack)] = Top
         /\ \A i \in 1..Len(stack) :
              /\ Rooted(bs, stack[i]) /\ Leads(bs, stack[i], at)
              /\ ~InDefault(stack) => at \in Region(bs, stack[i])
              /\ Makes(Top) \subseteq Region(bs, stack[i])
              /\ \A b \in Comes(Top) : Leads(bs, stack[i], b)
<1>1. Len(stack) \in Nat \ {0} /\ Len(stack) \in 1..Len(stack) /\ stack[Len(stack)] = Top
  BY KnownNow DEF Top
<1>2. ASSUME NEW i \in 1..Len(stack)
      PROVE  /\ Rooted(bs, stack[i]) /\ Leads(bs, stack[i], at)
             /\ ~InDefault(stack) => at \in Region(bs, stack[i])
             /\ Makes(Top) \subseteq Region(bs, stack[i])
             /\ \A b \in Comes(Top) : Leads(bs, stack[i], b)
  <2>1. Stands(bs, stack[i], at) /\ Holds(bs, stack[i], Top) /\ Reaches(bs, stack[i], Top)
    BY <1>1 DEF Rooms
  <2>2. Makes(Top) \subseteq Region(bs, stack[i])
    BY <2>1 DEF Holds, Region
  <2>. QED  BY <2>1, <2>2 DEF Stands, InDefault, Reaches
<1>. QED  BY <1>1, <1>2

LEMMA ExitIdleFlows ==
  ASSUME Known, Flowing, [Next]_vars, ExitBlock \/ ExitElse
  PROVE  Finished
<1>1. /\ stack # <<>> /\ stack' = Below /\ UNCHANGED <<bbs, ip>>
  BY DEF ExitBlock, ExitElse, Leaving
<1>2. Quiet(bbs, Awaiting(Below))
  BY <1>1, TopBlocks DEF Flowing, Quiet
<1>. QED  BY <1>1, <1>2, LeaveFlows DEF Flowing

\* The then-branch of an `if` is done.
LEMMA ElseBegunFlows ==
  ASSUME Known, Flowing, stack # <<>>, Top.k = "if", Top.kids = 1
  PROVE  LET bs == ElseBegun(bbs, Top)
         IN /\ bs \in Seq(BB) /\ Len(bs) = Len(bbs)
            /\ Rooms(bs, stack, Top.alt, switch) /\ Quiet(bs, Awaiting(stack))
            /\ Top.own => \A i \in 1..Len(stack) : Leads(bs, stack[i], Top.next)
<1>. DEFINE W == Awaiting(stack)
            to == Top.next
            alt == Top.alt
            bs1 == Br(bbs, ip, to)
            bs == Attach(bs1, alt)
<1>1. /\ bbs \in Seq(BB) /\ Len(bbs) \in Nat /\ ip \in 1..Len(bbs) /\ W \subseteq 1..Len(bbs)
      /\ ip \notin W /\ ~InDefault(stack)
  BY KnownNow DEF Cases
<1>2. to \in Nat /\ to \in Heads(Top) /\ Comes(Top) = {alt} /\ alt \in Makes(Top)
  <2>1. Refers(Top, Len(bbs))
    BY TopTyped DEF Known
  <2>. QED  BY <1>1, <2>1 DEF Refers, GoesOn, Heads, Comes, Makes
<1>3. /\ Len(stack) \in Nat \ {0} /\ to \in Heads(stack[Len(stack)])
      /\ \A i \in 1..Len(stack) : Leads(bbs, stack[i], ip) /\ ip \in Region(bbs, stack[i])
  BY <1>1, <1>2, TopFlows DEF Flowing
<1>4. Rooms(bbs, stack, ip, switch) /\ Quiet(bbs, W)
  BY DEF Flowing
<1>. HIDE DEF W, to, alt
<1>5. /\ bs1 \in Seq(BB) /\ Len(bs1) = Len(bbs)
      /\ Rooms(bs1, stack, ip, switch) /\ Quiet(bs1, W)
      /\ \A i \in 1..Len(stack) :
           Leads(bbs, stack[i], ip) /\ ip \in Region(bbs, stack[i]) => Leads(bs1, stack[i], to)
  BY <1>1, <1>2, <1>3, <1>4, BrRooms
<1>. HIDE DEF bs1
<1>6. /\ bs \in Seq(BB) /\ Len(bs) = Len(bs1)
      /\ Rooms(bs, stack, ip, switch) /\ Quiet(bs, W)
      /\ \A i \in 1..Len(stack) : \A x : Leads(bs1, stack[i], x) => Leads(bs, stack[i], x)
  BY <1>1, <1>3, <1>5, AttachRooms
<1>. HIDE DEF bs
<1>7. \A i \in 1..Len(stack) : Leads(bs, stack[i], alt) /\ alt \in Region(bs, stack[i])
  BY <1>2, <1>6, TopFlows
<1>8. Rooms(bs, stack, alt, switch)
  BY <1>6, <1>7, MoveRooms
<1>9. \A i \in 1..Len(stack) : Leads(bs, stack[i], to)
  BY <1>3, <1>5, <1>6
<1>. QED  BY <1>5, <1>6, <1>8, <1>9 DEF ElseBegun, W, to, alt, bs1, bs

LEMMA ExitIfFlows ==
  ASSUME Known, Flowing, [Next]_vars, ExitIf
  PROVE  Finished
<1>. DEFINE one == Top.kids = 1
            W == Awaiting(stack)
            W2 == Awaiting(Below)
            at == IF one THEN Top.alt ELSE ip
            bs == IF one THEN ElseBegun(bbs, Top) ELSE bbs
            to == Top.next
            bs1 == Br(bs, at, to)
            bs2 == Attach(bs1, to)
<1>1. /\ stack # <<>> /\ stack' = Below /\ Top.k = "if" /\ Top.kids >= 1
      /\ bbs' = IF Top.own THEN bs2 ELSE bs
      /\ ip' = IF Top.own THEN to ELSE at
  BY DEF ExitIf, Leaving, ListKinds
<1>2. /\ bbs \in Seq(BB) /\ Len(bbs) \in Nat /\ ip \in 1..Len(bbs)
      /\ W \subseteq 1..Len(bbs) /\ ip \notin W /\ ~InDefault(stack)
  BY <1>1, KnownNow DEF Cases
<1>3. /\ Top.own \in BOOLEAN /\ Top.kids \in {1, 2} /\ W2 = W \ Pending(Top)
      /\ Pending(Top) \subseteq 1..Len(bbs) /\ W2 \subseteq W
  BY <1>1, TopBlocks
<1>4. /\ to \in Nat /\ to \in Heads(Top) /\ (Top.own => to \in Makes(Top))
  <2>1. Refers(Top, Len(bbs))
    BY <1>1, TopTyped DEF Known
  <2>. QED  BY <1>1, <1>2, <2>1 DEF Refers, GoesOn, Heads, Makes
<1>5. /\ bs \in Seq(BB) /\ Len(bs) = Len(bbs) /\ at \in 1..Len(bs)
      /\ Rooms(bs, stack, at, switch) /\ Quiet(bs, W) /\ at \notin W2
  <2>1. CASE one
    <3>1. Top.alt \in Pending(Top)
      BY <1>1, <2>1 DEF Pending
    <3>. QED  BY <1>1, <1>3, <2>1, <3>1, ElseBegunFlows
  <2>2. CASE ~one
    BY <1>2, <1>3, <2>2 DEF Flowing
  <2>. QED  BY <2>1, <2>2
<1>. HIDE DEF W, W2, at, bs, to
<1>6. Quiet(bs, W2)
  BY <1>3, <1>5 DEF Quiet
<1>7. CASE ~Top.own
  BY <1>1, <1>5, <1>6, <1>7, LeaveFlows DEF W2
<1>8. CASE Top.own
  <2>1. /\ Len(stack) \in Nat \ {0} /\ to \in Heads(stack[Len(stack)])
        /\ \A i \in 1..Len(stack) : Leads(bs, stack[i], at) /\ at \in Region(bs, stack[i])
    BY <1>1, <1>2, <1>4, <1>5, TopFlows
  <2>2. W2 \subseteq 1..Len(bs)
    BY <1>2, <1>3, <1>5
  <2>3. /\ bs1 \in Seq(BB) /\ Len(bs1) = Len(bs)
        /\ Rooms(bs1, stack, at, switch) /\ Quiet(bs1, W2)
        /\ \A i \in 1..Len(stack) :
             Leads(bs, stack[i], at) /\ at \in Region(bs, stack[i]) => Leads(bs1, stack[i], to)
    BY <1>4, <1>5, <1>6, <2>1, <2>2, BrRooms
  <2>. HIDE DEF bs1
  <2>4. /\ bs2 \in Seq(BB) /\ Rooms(bs2, stack, at, switch) /\ Quiet(bs2, W2)
        /\ \A i \in 1..Len(stack) : \A x : Leads(bs1, stack[i], x) => Leads(bs2, stack[i], x)
    BY <1>5, <2>1, <2>2, <2>3, AttachRooms
  <2>. HIDE DEF bs2
  <2>5. \A i \in 1..Len(stack) : Leads(bs2, stack[i], to) /\ to \in Region(bs2, stack[i])
    BY <1>1, <1>4, <1>8, <2>1, <2>3, <2>4, TopFlows
  <2>6. Rooms(bs2, stack, to, switch)
    BY <2>4, <2>5, MoveRooms
  <2>. QED  BY <1>1, <1>8, <2>4, <2>6, LeaveFlows DEF W2
<1>. QED  BY <1>7, <1>8

LEMMA ExitLoopFlows ==
  ASSUME Known, Flowing, [Next]_vars, stack # <<>>, stack' = Below,
         Top.k \in {"while", "for"}, LoopClosed
  PROVE  Finished
<1>. DEFINE W2 == Awaiting(Below)
            to == Top.next
            alt == Top.alt
            bs1 == Br(bbs, ip, alt)
            bs2 == Attach(bs1, to)
<1>1. bbs' = bs2 /\ ip' = to
  BY DEF LoopClosed
<1>2. /\ bbs \in Seq(BB) /\ Len(bbs) \in Nat /\ ip \in 1..Len(bbs) /\ ip \notin Awaiting(stack)
      /\ W2 \subseteq Awaiting(stack) /\ Awaiting(stack) \subseteq 1..Len(bbs)
  BY KnownNow, TopBlocks DEF Cases
<1>3. alt \in Nat /\ alt \in Heads(Top) /\ to \in Comes(Top) /\ to \in Makes(Top)
  <2>1. Refers(Top, Len(bbs))
    BY TopTyped DEF Known
  <2>. QED  BY <1>2, <2>1 DEF Refers, GoesOn, Heads, Makes, Comes
<1>4. Rooms(bbs, stack, ip, switch) /\ Quiet(bbs, W2)
  BY <1>2 DEF Flowing, Quiet
<1>5. Len(stack) \in Nat \ {0} /\ alt \in Heads(stack[Len(stack)])
  BY <1>3, <1>4, TopFlows
<1>. HIDE DEF W2, to, alt
<1>6. ip \notin W2 /\ W2 \subseteq 1..Len(bbs)
  BY <1>2
<1>7. bs1 \in Seq(BB) /\ Len(bs1) = Len(bbs) /\ Rooms(bs1, stack, ip, switch) /\ Quiet(bs1, W2)
  BY <1>2, <1>3, <1>4, <1>5, <1>6, BrRooms
<1>. HIDE DEF bs1
<1>8. Rooms(bs2, stack, ip, switch) /\ Quiet(bs2, W2)
  BY <1>2, <1>5, <1>6, <1>7, AttachRooms
<1>. HIDE DEF bs2
<1>9. \A i \in 1..Len(stack) : Leads(bs2, stack[i], to) /\ to \in Region(bs2, stack[i])
  BY <1>3, <1>8, TopFlows
<1>10. Rooms(bs2, stack, to, switch)
  BY <1>8, <1>9, MoveRooms
<1>. QED  BY <1>1, <1>8, <1>10, LeaveFlows DEF W2

LEMMA ExitSwitchFlows ==
  ASSUME Known, Flowing, [Next]_vars, ExitSwitch
  PROVE  Finished
<1>. DEFINE W2 == Awaiting(Below)
            to == Top.next
            alt == Top.alt
            bs1 == Br(bbs, alt, to)
            half == Attach(bs1, alt)
            bs2 == Attach(half, to)
<1>1. /\ stack # <<>> /\ stack' = Below /\ Top.k = "switch"
      /\ bbs' = bs2 /\ ip' = to
  BY DEF ExitSwitch, Leaving
<1>2. /\ bbs \in Seq(BB) /\ Len(bbs) \in Nat /\ ip \in 1..Len(bbs)
      /\ W2 = Awaiting(stack) \ Pending(Top) /\ Awaiting(stack) \subseteq 1..Len(bbs)
      /\ Pending(Top) \subseteq 1..Len(bbs)
  BY <1>1, KnownNow, TopBlocks
<1>3. Pending(Top) = {to, alt} /\ Makes(Top) = {to, alt} /\ Comes(Top) = {alt} /\ to \in Heads(Top)
  BY <1>1 DEF Pending, Makes, Comes, Heads
<1>4. alt \in 1..Len(bbs) /\ to \in Nat /\ alt \notin W2 /\ W2 \subseteq 1..Len(bbs)
  BY <1>2, <1>3
<1>5. Rooms(bbs, stack, ip, switch) /\ Quiet(bbs, W2)
  BY <1>2 DEF Flowing, Quiet
<1>6. /\ Len(stack) \in Nat \ {0} /\ to \in Heads(stack[Len(stack)])
      /\ \A i \in 1..Len(stack) : Leads(bbs, stack[i], alt) /\ alt \in Region(bbs, stack[i])
  BY <1>1, <1>3, <1>5, TopFlows
<1>. HIDE DEF W2, to, alt
<1>7. /\ bs1 \in Seq(BB) /\ Len(bs1) = Len(bbs)
      /\ Rooms(bs1, stack, ip, switch) /\ Quiet(bs1, W2)
      /\ \A i \in 1..Len(stack) :
           Leads(bbs, stack[i], alt) /\ alt \in Region(bbs, stack[i]) => Leads(bs1, stack[i], to)
  BY <1>2, <1>4, <1>5, <1>6, BrRooms
<1>. HIDE DEF bs1
<1>8. /\ half \in Seq(BB) /\ Len(half) = Len(bs1)
      /\ Rooms(half, stack, ip, switch) /\ Quiet(half, W2)
      /\ \A i \in 1..Len(stack) : \A x : Leads(bs1, stack[i], x) => Leads(half, stack[i], x)
  BY <1>2, <1>4, <1>6, <1>7, AttachRooms
<1>. HIDE DEF half
<1>9. /\ Rooms(bs2, stack, ip, switch) /\ Quiet(bs2, W2)
      /\ \A i \in 1..Len(stack) : \A x : Leads(half, stack[i], x) => Leads(bs2, stack[i], x)
  <2>1. ip \in 1..Len(half) /\ W2 \subseteq 1..Len(half)
    BY <1>2, <1>4, <1>7, <1>8
  <2>. QED  BY <1>6, <1>8, <2>1, AttachRooms
<1>. HIDE DEF bs2
<1>10. \A i \in 1..Len(stack) : Leads(bs2, stack[i], to) /\ to \in Region(bs2, stack[i])
  BY <1>1, <1>3, <1>6, <1>7, <1>8, <1>9, TopFlows
<1>11. Rooms(bs2, stack, to, switch)
  BY <1>9, <1>10, MoveRooms
<1>. QED  BY <1>1, <1>9, <1>11, LeaveFlows DEF W2

\* A handler in a default that is a case is the default's.
LEMMA CaseIsDefault ==
  ASSUME Known, stack # <<>>, Top.k \in Cases, InDefault(stack)
  PROVE  Top.default
<1>1. Placed(stack, ip, switch) /\ Len(stack) \in Nat
  BY KnownNow
<1>2. PICK i \in 1..Len(stack) : stack[i].default
  BY DEF InDefault
<1>3. Len(stack) > i => stack[Len(stack)].k = "block"
  BY <1>1, <1>2 DEF Placed
<1>4. ~(Len(stack) > i)
  BY <1>3 DEF Top, Cases
<1>5. i = Len(stack)
  BY <1>1, <1>4
<1>. QED  BY <1>2, <1>5 DEF Top

LEMMA ExitCaseFlows ==
  ASSUME Known, Flowing, [Next]_vars, ExitCase
  PROVE  Finished
<1>. DEFINE W2 == Awaiting(Below)
            to == Top.next
            bs1 == Br(bbs, ip, to)
<1>1. /\ stack # <<>> /\ stack' = Below /\ Top.k \in Cases
      /\ bbs' = (IF Top.default THEN bbs ELSE bs1) /\ ip' = ip
  BY DEF ExitCase, Leaving, Cases, CaseEnded
<1>2. Rooms(bbs, stack, ip, switch) /\ Quiet(bbs, W2)
  BY <1>1, TopBlocks DEF Flowing, Quiet
<1>3. CASE Top.default
  BY <1>1, <1>2, <1>3, LeaveFlows
<1>4. CASE ~Top.default
  <2>1. /\ bbs \in Seq(BB) /\ Len(bbs) \in Nat /\ ip \in 1..Len(bbs) /\ ip \notin Awaiting(stack)
        /\ W2 \subseteq Awaiting(stack) /\ Awaiting(stack) \subseteq 1..Len(bbs)
    BY <1>1, <1>4, KnownNow, TopBlocks, CaseIsDefault DEF Cases
  <2>2. to \in Nat /\ to \in Heads(Top)
    <3>1. Refers(Top, Len(bbs))
      BY <1>1, TopTyped DEF Known
    <3>. QED  BY <1>1, <2>1, <3>1 DEF Refers, GoesOn, Heads, Cases
  <2>3. Len(stack) \in Nat \ {0} /\ to \in Heads(stack[Len(stack)])
    BY <1>1, <1>2, <2>2, TopFlows
  <2>. HIDE DEF W2, to
  <2>4. ip \notin W2 /\ W2 \subseteq 1..Len(bbs)
    BY <2>1
  <2>5. Rooms(bs1, stack, ip, switch) /\ Quiet(bs1, W2)
    BY <1>2, <2>1, <2>2, <2>3, <2>4, BrRooms
  <2>. QED  BY <1>1, <1>4, <2>5, LeaveFlows DEF W2
<1>. QED  BY <1>3, <1>4

LEMMA ExitFlows ==
  ASSUME Known, Flowing, [Next]_vars, Exit, ~\E how : Stop(how)
  PROVE  Finished /\ stack # <<>> /\ stack' = Below
<1>1. stack # <<>> /\ stack' = Below
  BY DEF Exit, ExitBlock, ExitElse, ExitIf, ExitWhile, ExitFor, ExitSwitch, ExitCase, Leaving
<1>2. CASE ExitWhile
  BY <1>2, ExitLoopFlows DEF ExitWhile, Leaving
<1>3. CASE ExitFor
  BY <1>3, ExitLoopFlows DEF ExitFor, Leaving
<1>. QED  BY <1>1, <1>2, <1>3, ExitIdleFlows, ExitIfFlows, ExitSwitchFlows, ExitCaseFlows DEF Exit

-----------------------------------------------------------------------------
(* Statements that begin.                                                   *)

LEMMA BegunFlows ==
  ASSUME Known, stack = <<>> \/ Top.k \in ListKinds \/ Top.kids \in {0, 1},
         NEW bs, NEW at, NEW sw, Rooms(bs, stack, at, sw)
  PROVE  /\ Rooms(bs, Begun, at, sw)
         /\ stack # <<>> => Heads(Begun[Len(Begun)]) = Heads(Top)
<1>1. /\ stack \in Seq(Frame) /\ Len(stack) \in Nat
      /\ stack # <<>> => Top \in Frame
  BY KnownNow
<1>2. Begun \in Seq(Frame) /\ Len(Begun) = Len(stack)
  BY BegunSame
<1>3. \A i \in 1..Len(stack) : SameFlow(stack[i], Begun[i])
  <2>1. CASE stack = <<>> \/ Top.k \in ListKinds
    BY <1>1, <2>1 DEF SameFlow, Begun
  <2>2. CASE ~(stack = <<>> \/ Top.k \in ListKinds)
    <3>. DEFINE f == Top
                g == [f EXCEPT !.kids = @ + 1]
    <3>1. f \in Frame
      BY <1>1, <2>2
    <3>2. Begun = Append(Below, g)
      BY <2>2 DEF Begun
    <3>3. f = stack[Len(stack)]
      BY DEF Top
    <3>. HIDE DEF f
    <3>4. SameFlow(f, g)
      BY <3>1 DEF Frame, SameFlow
    <3>. HIDE DEF g
    <3>5. /\ Len(stack) > 0
          /\ Below \in Seq(Frame) /\ Len(Below) = Len(stack) - 1
          /\ \A i \in 1..(Len(stack) - 1) : Below[i] = stack[i]
      BY <1>1, <2>2, PopShape DEF Below
    <3>6. /\ \A i \in 1..Len(Below) : Begun[i] = Below[i]
          /\ Begun[Len(Below) + 1] = g
      BY <3>2, <3>5, PushShape
    <3>7. \A i \in 1..Len(stack) :
            \/ i \in 1..(Len(stack) - 1) /\ Begun[i] = stack[i]
            \/ Begun[i] = g /\ stack[i] = f
      BY <1>1, <3>3, <3>5, <3>6
    <3>8. \A h : SameFlow(h, h)
      BY DEF SameFlow
    <3>. QED  BY <3>4, <3>7, <3>8
  <2>. QED  BY <2>1, <2>2
<1>4. Rooms(bs, Begun, at, sw)
  BY <1>1, <1>2, <1>3, RoomsSame
<1>5. stack # <<>> => Heads(Begun[Len(Begun)]) = Heads(Top)
  <2>1. stack # <<>> => Len(stack) \in 1..Len(stack)
    BY <1>1
  <2>. QED  BY <1>2, <1>3, <2>1, FlowSame DEF Top
<1>. QED  BY <1>4, <1>5

\* A frame of a handler that begins, and the edges it begins with.
Begins(f) ==
  /\ f.switch = switch /\ f.merge = merge
  /\ f.first = Len(bbs) + 1 /\ f.entry = ip /\ f.terms = Len(bbs[ip].terms)

LEMMA BeginRooted ==
  ASSUME Known, Flowing, stack # <<>>, NEW f, Begins(f)
  PROVE  /\ Rooted(bbs, f) /\ Region(bbs, f) = {ip} /\ EdgesFrom(bbs, f, ip) = {}
<1>1. bbs \in Seq(BB) /\ Len(bbs) \in Nat /\ ip \in 1..Len(bbs)
  BY KnownNow
<1>2. Len(bbs[ip].terms) \in Nat
  BY <1>1, BlockTerms
<1>3. SwitchAt(bbs, switch)
  BY DEF Flowing, Rooms
<1>4. Rooted(bbs, f)
  BY <1>1, <1>2, <1>3 DEF Rooted, Begins
<1>5. Region(bbs, f) = {ip}
  BY <1>1 DEF Region, Begins
<1>6. EdgesFrom(bbs, f, ip) = {}
  BY <1>1, <1>2 DEF EdgesFrom, Begins, Targets
<1>. QED  BY <1>4, <1>5, <1>6

\* Its statement stays in it when all edges from there on do.
LEMMA BeginStands ==
  ASSUME NEW bs, NEW bs2, NEW f, NEW E, NEW at, Extends(bs, bs2, f, E),
         \A b \in Region(bs, f) : EdgesFrom(bs, f, b) = {},
         \A b, t : <<b, t>> \in E /\ b \in Region(bs2, f) => t \in Region(bs2, f) \cup Leave(f),
         Leads(bs2, f, at), f.default \/ at \in Region(bs2, f)
  PROVE  Stands(bs2, f, at)
<1>1. ASSUME NEW b \in Region(bs2, f), NEW t \in EdgesFrom(bs2, f, b)
      PROVE  t \in Region(bs2, f) \cup Leave(f)
  <2>1. <<b, t>> \in E
    BY DEF Extends
  <2>. QED  BY <2>1
<1>2. OneWay(bs2, f)
  BY <1>1 DEF OneWay
<1>. QED  BY <1>2 DEF Extends, Stands

\* The merge block an `if` joins is where the statement around it goes on.
LEMMA MergeIsHead ==
  ASSUME Known, stack # <<>>, Top.k # "switch", IfPlace, merge # None
  PROVE  merge \in Heads(Top)
<1>1. NestInv /\ "loops" \in rules
  BY DEF Known, Structured, Rules
<1>2. merge = InsideMerge(Top)
  BY <1>1, TopInside DEF Inside
<1>3. Top.k # "while"
  BY <1>1 DEF IfPlace, Keeps
<1>4. Top.k = "case" => Top.merge = None
  <2>. SUFFICES ASSUME Top.k = "case" PROVE Top.merge = None
    OBVIOUS
  <2>1. Placed(stack, ip, switch) /\ stack \in Seq(Frame) /\ Len(stack) \in 1..Len(stack)
    BY KnownNow
  <2>2. Len(stack) > 1 /\ stack[Len(stack) - 1].k = "switch"
    BY <2>1 DEF Placed, Top, Cases
  <2>3. Inside(stack[Len(stack) - 1], Top.merge, Top.switch)
    BY <1>1, <2>1, <2>2 DEF NestInv, HandlersNest, Nested, Top
  <2>. QED  BY <2>2, <2>3 DEF Inside, InsideMerge
<1>. QED  BY <1>2, <1>3, <1>4 DEF InsideMerge, Heads

\* A handler that ends the current block and makes others.
LEMMA BranchFlows ==
  ASSUME Known, Flowing, StmtExpected, Branching,
         NEW g, g.k \in {"if", "while", "for", "switch"}, Begins(g), ~g.default,
         stack' = Append(Begun, g), bbs' \in Seq(BB), Len(bbs) <= Len(bbs'),
         NEW E, Edged(bbs, bbs', E),
         \A b, t : <<b, t>> \in E =>
           /\ t \in (Len(bbs) + 1)..Len(bbs')
           /\ b = ip \/ (b \in (Len(bbs) + 1)..Len(bbs') /\ b \notin Pending(g)),
         Makes(g) \subseteq (Len(bbs) + 1)..Len(bbs'),
         Pending(g) \subseteq (Len(bbs) + 1)..Len(bbs'),
         g.k = "if" /\ ~g.own => IfPlace /\ merge # None /\ g.next = merge,
         \A f : Rooted(bbs, f) /\ Leads(bbs', f, ip) /\ ip \in Region(bbs', f) =>
                  \A b \in Comes(g) \cup {ip'} : Leads(bbs', f, b) /\ b \in Region(bbs', f),
         SwitchAt(bbs', switch'),
         IF g.k = "switch" THEN switch' = InfoOf(g) ELSE switch' = switch
  PROVE  Flowing'
<1>. DEFINE B == Begun
            bs == bbs'
            at == ip'
            sw == switch'
            new == (Len(bbs) + 1)..Len(bs)
<1>1. /\ stack # <<>> /\ (Top.k \in ListKinds \/ Top.kids = 0) /\ Top.k # "switch" /\ ~InDefault(stack)
  BY RulesNow DEF StmtExpected
<1>2. /\ bbs \in Seq(BB) /\ Len(bbs) \in Nat /\ ip \in 1..Len(bbs) /\ ip \notin Awaiting(stack)
      /\ Awaiting(stack) \subseteq 1..Len(bbs) /\ Len(stack) \in Nat \ {0}
  BY <1>1, KnownNow
<1>3. Rooms(bbs, B, ip, switch) /\ Heads(B[Len(B)]) = Heads(Top)
  BY <1>1, BegunFlows DEF Flowing
<1>4. /\ B \in Seq(Frame) /\ Len(B) \in Nat \ {0} /\ ~InDefault(B)
  BY <1>1, <1>2, BegunSame
<1>5. /\ Rooted(bbs, g) /\ Region(bbs, g) = {ip} /\ EdgesFrom(bbs, g, ip) = {}
      /\ g.entry = ip /\ g.first = Len(bbs) + 1 /\ g.terms = Len(bbs[ip].terms)
      /\ g.switch = switch /\ g.merge = merge
  BY <1>1, BeginRooted DEF Begins
<1>6. Extends(bbs, bs, g, E) /\ ip \in Region(bs, g) /\ Leads(bs, g, ip) /\ new \subseteq Region(bs, g)
      /\ new = g.first..Len(bs)
  <2>1. Extends(bbs, bs, g, E)
    BY <1>5 DEF Edged
  <2>2. ip \in Region(bs, g) /\ ip \in Sources(bs, g) /\ new \subseteq Region(bs, g)
    BY <1>5 DEF Region, Sources
  <2>. QED  BY <1>5, <2>1, <2>2, SourceLeads
<1>7. /\ bs \in Seq(BB) /\ Len(bbs) <= Len(bs)
      /\ \A b, t : <<b, t>> \in E =>
           t \in new /\ (b = ip \/ (b \in new /\ b \notin Pending(g)))
      /\ Makes(g) \subseteq new /\ Pending(g) \subseteq new
      /\ \A f : Rooted(bbs, f) /\ Leads(bs, f, ip) /\ ip \in Region(bs, f) =>
                  \A b \in Comes(g) \cup {at} : Leads(bs, f, b) /\ b \in Region(bs, f)
      /\ SwitchAt(bs, sw) /\ Edged(bbs, bs, E)
      /\ stack' = Append(B, g)
  OBVIOUS
<1>8. IF g.k = "switch" THEN sw = InfoOf(g) ELSE sw = switch
  OBVIOUS
<1>. HIDE DEF B, bs, at, sw
<1>9. SwitchAt(bbs, switch) /\ SwitchAt(bs, switch)
  <2>1. SwitchAt(bbs, switch)
    BY <1>3 DEF Rooms
  <2>. QED  BY <1>2, <1>7, <2>1, EdgedSwitch
<1>10. Rooms(bs, B, ip, switch)
  <2>1. \A i \in 1..Len(B) : Extends(bbs, bs, B[i], E)
    BY <1>3, <1>7 DEF Rooms, Stands, Edged
  <2>2. \A b, t : <<b, t>> \in E => t \in (Len(bbs) + 1)..Len(bs) \cup Heads(B[Len(B)])
    BY <1>7
  <2>. HIDE DEF new
  <2>. QED  BY <1>2, <1>3, <1>4, <1>7, <1>9, <2>1, <2>2, GrowRooms
<1>11. \A i \in 1..Len(B) :
         /\ Rooted(bbs, B[i]) /\ Leads(bs, B[i], ip) /\ ip \in Region(bs, B[i])
         /\ \A b \in Comes(g) \cup {at} : Leads(bs, B[i], b) /\ b \in Region(bs, B[i])
  <2>1. \A i \in 1..Len(B) : Rooted(bbs, B[i]) /\ Leads(bs, B[i], ip) /\ ip \in Region(bs, B[i])
    BY <1>3, <1>4, <1>10 DEF Rooms, Stands, InDefault
  <2>. QED  BY <1>7, <2>1
<1>12. Rooms(bs, B, at, switch)
  BY <1>10, <1>11, MoveRooms
<1>13. \A b \in Comes(g) \cup {at} : Leads(bs, g, b) /\ b \in Region(bs, g)
  BY <1>5, <1>6, <1>7
<1>14. Stands(bs, g, at)
  <2>1. \A b \in Region(bbs, g) : EdgesFrom(bbs, g, b) = {}
    BY <1>5
  <2>2. \A b, t : <<b, t>> \in E /\ b \in Region(bs, g) => t \in Region(bs, g) \cup Leave(g)
    BY <1>6, <1>7
  <2>. QED  BY <1>6, <1>13, <2>1, <2>2, BeginStands
<1>15. Heads(g) \subseteq Makes(g) \cup (IF g.k = "if" /\ ~g.own THEN {merge} ELSE {})
  BY DEF Heads, Makes
<1>16. g.k = "if" /\ ~g.own => merge \in Heads(Top) /\ merge \in Leave(g)
  BY <1>1, <1>5, MergeIsHead DEF Leave
<1>17. Holds(bs, g, g)
  BY <1>6, <1>7, <1>15, <1>16 DEF Holds
<1>18. ASSUME NEW i \in 1..Len(B) PROVE Holds(bs, B[i], g)
  <2>1. B[i].first..Len(bs) \subseteq B[i].first..Len(bs) /\ new \subseteq B[i].first..Len(bs)
    BY <1>2, <1>7, <1>11, RegionGrows
  <2>2. Heads(Top) \subseteq (B[i].first..Len(bs)) \cup Leave(B[i])
    <3>1. Len(B) \in 1..Len(B) /\ i \in 1..Len(B)
      BY <1>4
    <3>2. Holds(bs, B[i], B[Len(B)])
      BY <1>12, <3>1 DEF Rooms
    <3>. QED  BY <1>3, <3>2 DEF Holds
  <2>. HIDE DEF new
  <2>. QED  BY <1>7, <1>15, <1>16, <2>1, <2>2 DEF Holds
<1>19. ASSUME NEW f, Rooted(bbs, f), Leads(bs, f, ip), ip \in Region(bs, f)
       PROVE  Reaches(bs, f, g)
  <2>1. \A b \in Comes(g) : Leads(bs, f, b)
    BY <1>7, <1>19
  <2>2. g.entry = f.entry => f.terms <= g.terms
    <3>1. Len(bbs[ip].terms) \in Nat
      BY <1>2, BlockTerms
    <3>. QED  BY <1>5, <1>19, <3>1 DEF Rooted
  <2>. QED  BY <1>5, <1>19, <2>1, <2>2 DEF Reaches
<1>20. Rooms(bs, Append(B, g), at, sw)
  <2>1. Reaches(bs, g, g) /\ \A i \in 1..Len(B) : Reaches(bs, B[i], g)
    BY <1>5, <1>6, <1>11, <1>19
  <2>2. g.k = "switch" => sw = InfoOf(g)
    BY <1>8
  <2>. QED  BY <1>4, <1>5, <1>7, <1>12, <1>14, <1>17, <1>18, <2>1, <2>2, PushRooms
<1>21. Quiet(bs, Awaiting(stack'))
  <2>. DEFINE W == Awaiting(stack)
              W2 == Awaiting(stack')
  <2>1. W2 = W \cup Pending(g)
    BY <1>1, <1>4, <1>7, BegunAwaits, AwaitingPush DEF B
  <2>2. Quiet(bbs, W)
    BY DEF Flowing
  <2>3. \A b \in W2 : (b \in W /\ b \in 1..Len(bbs)) \/ b \in (Len(bbs) + 1)..Len(bs)
    BY <1>2, <1>7, <2>1
  <2>4. \A b, t : <<b, t>> \in E => b \notin W2
    BY <1>2, <1>7, <2>1
  <2>. HIDE DEF W, W2
  <2>5. Quiet(bs, W2)
    BY <1>2, <1>7, <1>9, <2>2, <2>3, <2>4, EdgedQuiet
  <2>. QED  BY <2>5 DEF W2
<1>. QED  BY <1>7, <1>20, <1>21 DEF Flowing, bs, at, sw

\* Blocks of a statement that a new edge leads to.
LEMMA StepsTo ==
  ASSUME NEW bs, NEW bs2, NEW E, Edged(bs, bs2, E), NEW f, Rooted(bs, f), f.first \in Nat,
         NEW x, NEW t, Leads(bs2, f, x), x \in Region(bs2, f), <<x, t>> \in E,
         t \in f.first..Len(bs2)
  PROVE  Leads(bs2, f, t) /\ t \in Region(bs2, f)
<1>1. Leads(bs2, f, t)
  BY GoesTo DEF Edged
<1>. QED  BY <1>1 DEF Region

LEMMA IfFlows ==
  ASSUME Known, Flowing, NEW node, If(node), ~\E how : Stop(how)
  PROVE  Flowing'
<1>. DEFINE n == Len(bbs)
            own == merge = None
            next == IF own THEN n + 3 ELSE merge
            f == [Enter("if") EXCEPT !.next = next, !.alt = n + 2, !.own = own]
            to == {n + 1, n + 2}
            bs == CondBr(bbs, ip, to)
            new == IF own THEN <<1, 0, 0>> ELSE <<1, 0>>
            all == bs \o Blocks(new)
            E == {ip} \X to
            F == E \cup {}
<1>1. /\ StmtExpected /\ Branching /\ IfPlace
      /\ stack' = Append(Begun, f) /\ bbs' = all
      /\ ip' = n + 1 /\ UNCHANGED switch
  BY DEF If, IfBlocks
<1>2. bbs \in Seq(BB) /\ n \in Nat /\ ip \in 1..n
  BY <1>1, KnownNow DEF StmtExpected
<1>3. to \in SUBSET Nat
  BY <1>2
<1>4. /\ f.k = "if" /\ f.kids = 0 /\ f.next = next /\ f.alt = n + 2
      /\ Begins(f) /\ ~f.default
      /\ IF own THEN f.own ELSE ~f.own
  <2>1. /\ f.k = "if" /\ f.kids = 0 /\ f.next = next /\ f.alt = n + 2 /\ ~f.default
        /\ IF own THEN f.own ELSE ~f.own
    BY DEF Enter
  <2>2. Begins(f)
    <3>. HIDE DEF next, own
    <3>. QED  BY <1>2 DEF Enter, Begins
  <2>. QED  BY <2>1, <2>2
<1>5. new \in Seq({0, 1}) /\ IF own THEN Len(new) = 3 ELSE Len(new) = 2
  <2>1. CASE own
    BY <2>1
  <2>2. CASE ~own
    BY <2>2
  <2>. QED  BY <2>1, <2>2
<1>6. \A b, t : <<b, t>> \in F <=> b = ip /\ t \in to
  OBVIOUS
<1>. HIDE DEF f, new
<1>7. bs \in Seq(BB) /\ Len(bs) = n /\ Edged(bbs, bs, E)
  BY <1>2, <1>3, CondBrEdged
<1>8. \A b, t : <<b, t>> \in E => b \in 1..Len(bs)
  BY <1>2, <1>7
<1>. HIDE DEF bs, E
<1>9. all \in Seq(BB) /\ Len(all) = Len(bs) + Len(new) /\ Edged(bs, all, {})
  BY <1>5, <1>7, BlocksEmpty, BlocksEdged
<1>. HIDE DEF all
<1>10. Edged(bbs, all, F)
  BY <1>2, <1>7, <1>8, <1>9, ThenEdged
<1>11. Pending(f) = (IF own THEN {n + 2, n + 3} ELSE {n + 2}) /\ Makes(f) = Pending(f)
       /\ Comes(f) = {n + 2}
  BY <1>4 DEF Pending, Makes, Comes
<1>12. Len(all) = IF own THEN n + 3 ELSE n + 2
  BY <1>2, <1>5, <1>7, <1>9
<1>13. Pending(f) \subseteq (n + 1)..Len(all) /\ n <= Len(all) /\ to \subseteq (n + 1)..Len(all)
       /\ to = {n + 1, n + 2}
  BY <1>2, <1>11, <1>12
<1>14. ASSUME NEW g, Rooted(bbs, g), Leads(all, g, ip), ip \in Region(all, g)
       PROVE  \A b \in Comes(f) \cup {ip'} : Leads(all, g, b) /\ b \in Region(all, g)
  <2>1. g.first \in Nat /\ to \subseteq g.first..Len(all)
    <3>1. g.first \in 1..(n + 1)
      BY <1>14 DEF Rooted
    <3>2. Len(all) \in Nat
      BY <1>9
    <3>. HIDE DEF to, n
    <3>. QED  BY <1>2, <1>13, <3>1, <3>2
  <2>. HIDE DEF F, to
  <2>2. \A b \in to : Leads(all, g, b) /\ b \in Region(all, g)
    BY <1>6, <1>10, <1>14, <2>1, StepsTo
  <2>. QED  BY <1>1, <1>11, <1>13, <2>2
<1>15. SwitchAt(bbs, switch)
  BY DEF Flowing, Rooms
<1>16. SwitchAt(all, switch')
  BY <1>1, <1>2, <1>10, <1>15, EdgedSwitch
<1>17. \A b, t : <<b, t>> \in F => t \in (n + 1)..Len(all) /\ b = ip
  BY <1>6, <1>13
<1>18. f.k = "if" /\ ~f.own => IfPlace /\ merge # None /\ f.next = merge
  BY <1>1, <1>4
<1>. HIDE DEF n, F
<1>. QED  BY <1>1, <1>4, <1>9, <1>10, <1>11, <1>13, <1>14, <1>16, <1>17, <1>18, BranchFlows DEF n

LEMMA LoopFlows ==
  ASSUME Known, Flowing, StmtExpected, Branching, UNCHANGED switch,
         NEW f0 \in Frame, f0.k \in {"while", "for"}, Begins(f0), ~f0.default,
         Loop(f0)
  PROVE  Flowing'
<1>. DEFINE n == Len(bbs)
            f == [f0 EXCEPT !.alt = n + 1, !.next = n + 3]
            bs == Br(bbs, ip, n + 1)
            new == <<1, 1, 0>>
            all == bs \o Blocks(new)
            to == {n + 2, n + 3}
            end == CondBr(all, n + 1, to)
            E == {<<ip, n + 1>>}
            E2 == E \cup {}
            G == {n + 1} \X to
            F == E2 \cup G
<1>1. stack' = Append(Begun, f) /\ bbs' = end /\ ip' = n + 2
  BY DEF Loop, LoopBlocks
<1>2. bbs \in Seq(BB) /\ n \in Nat /\ ip \in 1..n
  BY KnownNow DEF StmtExpected
<1>3. to \in SUBSET Nat /\ n + 1 \in Nat
  BY <1>2
<1>4. f.k = f0.k /\ f.next = n + 3 /\ f.alt = n + 1 /\ Begins(f) /\ ~f.default
  BY DEF Frame, Begins
<1>5. new \in Seq({0, 1}) /\ Len(new) = 3
  OBVIOUS
<1>6. /\ \A b, t : <<b, t>> \in F <=> (b = ip /\ t = n + 1) \/ (b = n + 1 /\ t \in {n + 2, n + 3})
      /\ \A b, t : <<b, t>> \in E2 => b = ip
      /\ \A b, t : <<b, t>> \in E => b = ip
  OBVIOUS
<1>. HIDE DEF f, to, new
<1>7. bs \in Seq(BB) /\ Len(bs) = n /\ Edged(bbs, bs, E)
  BY <1>2, <1>3, BrEdged
<1>. HIDE DEF bs, E
<1>8. all \in Seq(BB) /\ Len(all) = Len(bs) + Len(new) /\ Edged(bs, all, {})
  BY <1>5, <1>7, BlocksEmpty, BlocksEdged
<1>. HIDE DEF all
<1>9. Edged(bbs, all, E2)
  BY <1>2, <1>6, <1>7, <1>8, ThenEdged
<1>10. Len(all) = n + 3 /\ n + 1 \in 1..Len(all)
  BY <1>2, <1>5, <1>7, <1>8
<1>11. end \in Seq(BB) /\ Len(end) = Len(all) /\ Edged(all, end, G)
  BY <1>3, <1>8, <1>10, CondBrEdged
<1>. HIDE DEF end, E2, G
<1>12. Edged(bbs, end, F)
  <2>1. \A b, t : <<b, t>> \in E2 => b \in 1..Len(all)
    BY <1>2, <1>6, <1>10
  <2>. QED  BY <1>2, <1>8, <1>9, <1>11, <2>1, ThenEdged
<1>. HIDE DEF F
<1>13. Pending(f) = {n + 3} /\ Makes(f) = {n + 1, n + 3} /\ Comes(f) = {n + 1, n + 3}
  BY <1>4 DEF Pending, Makes, Comes
<1>14. /\ n <= Len(end) /\ {n + 1, n + 2, n + 3} \subseteq (n + 1)..Len(end) /\ n + 1 # n + 3
  BY <1>2, <1>10, <1>11
<1>15. Makes(f) \subseteq (n + 1)..Len(end) /\ Pending(f) \subseteq (n + 1)..Len(end)
       /\ n + 1 \notin Pending(f)
  BY <1>13, <1>14
<1>16. ASSUME NEW g, Rooted(bbs, g), Leads(end, g, ip), ip \in Region(end, g)
       PROVE  \A b \in Comes(f) \cup {ip'} : Leads(end, g, b) /\ b \in Region(end, g)
  <2>. DEFINE n1 == n + 1  n2 == n + 2  n3 == n + 3
  <2>1. g.first \in Nat /\ n1 \in g.first..Len(end) /\ n2 \in g.first..Len(end)
        /\ n3 \in g.first..Len(end)
    <3>1. g.first \in 1..(n + 1)
      BY <1>16 DEF Rooted
    <3>2. Len(end) = n + 3
      BY <1>10, <1>11
    <3>. HIDE DEF n
    <3>. QED  BY <1>2, <3>1, <3>2
  <2>2. /\ <<ip, n1>> \in F /\ <<n1, n2>> \in F /\ <<n1, n3>> \in F
        /\ Comes(f) \cup {ip'} = {n1, n2, n3}
    BY <1>1, <1>6, <1>13
  <2>. HIDE DEF n1, n2, n3
  <2>3. Leads(end, g, n1) /\ n1 \in Region(end, g)
    BY <1>12, <1>16, <2>1, <2>2, StepsTo
  <2>4. Leads(end, g, n2) /\ n2 \in Region(end, g)
    BY <1>12, <1>16, <2>1, <2>2, <2>3, StepsTo
  <2>5. Leads(end, g, n3) /\ n3 \in Region(end, g)
    BY <1>12, <1>16, <2>1, <2>2, <2>3, StepsTo
  <2>. QED  BY <2>2, <2>3, <2>4, <2>5
<1>17. SwitchAt(bbs, switch)
  BY DEF Flowing, Rooms
<1>18. SwitchAt(end, switch')
  BY <1>2, <1>12, <1>17, EdgedSwitch
<1>19. \A b, t : <<b, t>> \in F =>
         /\ t \in (n + 1)..Len(end)
         /\ b = ip \/ (b \in (n + 1)..Len(end) /\ b \notin Pending(f))
  BY <1>6, <1>14, <1>15
<1>20. f.k \in {"if", "while", "for", "switch"} /\ f.k # "switch" /\ f.k # "if"
  BY <1>4
<1>21. ~(f.k = "if" /\ ~f.own) /\ n <= Len(end)
  BY <1>14, <1>20
<1>. HIDE DEF n
<1>. QED  BY <1>1, <1>4, <1>11, <1>12, <1>15, <1>16, <1>18, <1>19, <1>20, <1>21, BranchFlows DEF n

LEMMA WhileFlows ==
  ASSUME Known, Flowing
  PROVE  /\ \A node : While(node) /\ (~\E how : Stop(how)) => Flowing'
         /\ \A node \in ForNodes : For(node) /\ (~\E how : Stop(how)) => Flowing'
<1>1. ASSUME NEW node, While(node), ~\E how : Stop(how) PROVE Flowing'
  <2>. DEFINE f == Enter("while")
  <2>1. StmtExpected /\ Branching /\ Loop(f) /\ UNCHANGED switch
    BY <1>1 DEF While
  <2>2. ip # 0
    BY <2>1, KnownNow DEF StmtExpected
  <2>3. f.k = "while" /\ Begins(f) /\ ~f.default
    BY <2>2 DEF Enter, Begins
  <2>4. f \in Frame
    BY EnterTyped DEF Known, SingleKinds
  <2>. HIDE DEF f
  <2>. QED  BY <2>1, <2>3, <2>4, LoopFlows
<1>2. ASSUME NEW node \in ForNodes, For(node), ~\E how : Stop(how) PROVE Flowing'
  <2>. DEFINE e == Enter("for")
              f == [e EXCEPT !.end = node.end]
  <2>1. StmtExpected /\ Branching /\ Loop(f) /\ UNCHANGED switch
    BY <1>2 DEF For
  <2>2. ip # 0
    BY <2>1, KnownNow DEF StmtExpected
  <2>3. f.k = "for" /\ Begins(f) /\ ~f.default
    BY <2>2 DEF Enter, Begins
  <2>4. e \in Frame
    BY EnterTyped DEF Known, SingleKinds
  <2>. HIDE DEF e
  <2>5. node.end \in Seq(STRING)
    BY StatementsAssumption
  <2>6. f \in Frame
    BY <2>4, <2>5 DEF Frame
  <2>. HIDE DEF f
  <2>. QED  BY <2>1, <2>3, <2>6, LoopFlows
<1>. QED  BY <1>1, <1>2

LEMMA SwitchFlows ==
  ASSUME Known, Flowing, NEW node, Switch(node), ~\E how : Stop(how)
  PROVE  Flowing'
<1>. DEFINE n == Len(bbs)
            f == [Enter("switch") EXCEPT !.next = n + 1, !.alt = n + 2]
            bs == [bbs EXCEPT ![ip] = Terminated(@, "switch", {n + 2})]
            new == <<0, 0>>
            all == bs \o Blocks(new)
            E == {<<ip, n + 2>>}
            F == E \cup {}
            info == [merge |-> n + 1, default |-> n + 2,
                     at |-> ip, term |-> Len(bbs[ip].terms) + 1]
<1>1. /\ StmtExpected /\ Branching
      /\ stack' = Append(Begun, f) /\ bbs' = all
      /\ ip' = ip /\ switch' = info
  BY DEF Switch
<1>2. bbs \in Seq(BB) /\ n \in Nat /\ ip \in 1..n /\ n + 2 \in Nat
  BY <1>1, KnownNow DEF StmtExpected
<1>3. /\ f.k = "switch" /\ f.next = n + 1 /\ f.alt = n + 2
      /\ Begins(f) /\ ~f.default
  BY <1>2 DEF Enter, Begins
<1>4. new \in Seq({0, 1}) /\ Len(new) = 2
  OBVIOUS
<1>5. \A b, t : <<b, t>> \in F <=> b = ip /\ t = n + 2
  OBVIOUS
<1>. HIDE DEF f, new
<1>6. info = InfoOf(f)
  <2>1. f.entry = ip /\ f.terms = Len(bbs[ip].terms)
    BY <1>3 DEF Begins
  <2>. QED  BY <1>3, <2>1 DEF InfoOf
<1>7. info.at = ip /\ info.term = Len(bbs[ip].terms) + 1
  OBVIOUS
<1>. HIDE DEF info
<1>8. bs \in Seq(BB) /\ Len(bs) = n /\ Edged(bbs, bs, E) /\ SwitchAt(bs, info)
  <2>. DEFINE t == n + 2
  <2>1. t \in Nat /\ bs = With(bbs, ip, Terminated(bbs[ip], "switch", {t})) /\ E = {<<ip, t>>}
    BY <1>2 DEF With
  <2>2. bs \in Seq(BB) /\ Ends(bbs, bs, ip)
    BY <1>2, SwitchEnds
  <2>. HIDE DEF t, bs, E
  <2>3. Edged(bbs, bs, E) /\ SwitchAt(bs, info)
    BY <1>2, <1>7, <2>1, SwitchMade
  <2>. QED  BY <2>2, <2>3 DEF Ends
<1>9. \A b, t : <<b, t>> \in E => b \in 1..Len(bs)
  BY <1>2, <1>8
<1>. HIDE DEF bs, E
<1>10. /\ all \in Seq(BB) /\ Len(all) = Len(bs) + Len(new) /\ Edged(bs, all, {})
       /\ \A b \in 1..Len(bs) : all[b] = bs[b]
  BY <1>4, <1>8, BlocksEmpty, BlocksEdged
<1>. HIDE DEF all
<1>11. Edged(bbs, all, F)
  BY <1>2, <1>8, <1>9, <1>10, ThenEdged
<1>12. Len(all) = n + 2
  BY <1>2, <1>4, <1>8, <1>10
<1>13. Pending(f) = {n + 1, n + 2} /\ Makes(f) = {n + 1, n + 2} /\ Comes(f) = {n + 2}
  BY <1>3 DEF Pending, Makes, Comes
<1>14. {n + 1, n + 2} \subseteq (n + 1)..Len(all) /\ n <= Len(all)
  BY <1>2, <1>12
<1>15. SwitchAt(all, info)
  <2>1. ip \in 1..Len(bs)
    BY <1>2, <1>8
  <2>. QED  BY <1>8, <1>10, <2>1, EdgedSwitch
<1>16. ASSUME NEW g, Rooted(bbs, g), Leads(all, g, ip), ip \in Region(all, g)
       PROVE  \A b \in Comes(f) \cup {ip'} : Leads(all, g, b) /\ b \in Region(all, g)
  <2>. DEFINE t == n + 2
  <2>1. g.first \in Nat /\ t \in g.first..Len(all)
    <3>1. g.first \in 1..(n + 1)
      BY <1>16 DEF Rooted
    <3>. HIDE DEF n
    <3>. QED  BY <1>2, <1>12, <3>1
  <2>2. <<ip, t>> \in F /\ Comes(f) \cup {ip'} = {t, ip}
    BY <1>1, <1>5, <1>13
  <2>. HIDE DEF t, F
  <2>3. Leads(all, g, t) /\ t \in Region(all, g)
    BY <1>11, <1>16, <2>1, <2>2, StepsTo
  <2>. QED  BY <1>16, <2>2, <2>3
<1>17. \A b, t : <<b, t>> \in F => t \in (n + 1)..Len(all) /\ b = ip
  BY <1>5, <1>14
<1>. HIDE DEF F, n
<1>. QED  BY <1>1, <1>3, <1>6, <1>10, <1>11, <1>13, <1>14, <1>15, <1>16, <1>17, BranchFlows DEF n

LEMMA SimpleFlows ==
  ASSUME Known, Flowing, NEW node, Simple(node), ~Stop("error")
  PROVE  Flowing'
<1>1. /\ StmtExpected /\ stack' = Begun /\ UNCHANGED <<ip, switch>>
      /\ bbs' = IF node.k = "return"
                THEN [bbs EXCEPT ![ip] = Terminated(@, "ret", {})] ELSE bbs
  BY DEF Simple
<1>2. stack # <<>> /\ (Top.k \in ListKinds \/ Top.kids = 0)
  BY <1>1 DEF StmtExpected
<1>3. /\ bbs \in Seq(BB) /\ Len(bbs) \in Nat /\ ip \in 1..Len(bbs)
      /\ Awaiting(stack) \subseteq 1..Len(bbs) /\ Len(stack) \in Nat \ {0}
  BY <1>2, KnownNow
<1>4. Rooms(bbs, Begun, ip, switch) /\ Quiet(bbs, Awaiting(stack))
  BY <1>2, BegunFlows DEF Flowing
<1>5. Len(Begun) = Len(stack) /\ Awaiting(Begun) = Awaiting(stack)
  BY <1>2, BegunSame, BegunAwaits
<1>6. CASE node.k = "return"
  <2>. DEFINE bs == [bbs EXCEPT ![ip] = Terminated(@, "ret", {})]
              W == Awaiting(stack)
              E == {}
              s == Begun
  <2>1. bs \in Seq(BB) /\ Edged(bbs, bs, E) /\ bbs' = bs
    BY <1>1, <1>3, <1>6, RetEdged
  <2>2. \A b, t : <<b, t>> \notin E
    OBVIOUS
  <2>. HIDE DEF bs, W, E, s
  <2>3. SwitchAt(bbs, switch) /\ Len(s) \in Nat \ {0} /\ W \subseteq 1..Len(bbs)
        /\ Rooms(bbs, s, ip, switch) /\ Quiet(bbs, W)
    BY <1>3, <1>4, <1>5 DEF Rooms, s, W
  <2>4. SwitchAt(bs, switch)
    BY <1>3, <2>1, <2>3, EdgedSwitch
  <2>5. \A i \in 1..Len(s) : Extends(bbs, bs, s[i], E)
    BY <2>1, <2>3 DEF Rooms, Stands, Edged
  <2>6. Rooms(bs, s, ip, switch)
    BY <1>3, <2>1, <2>2, <2>3, <2>4, <2>5, GrowRooms
  <2>7. Quiet(bs, W)
    <3>1. \A b \in W : (b \in W /\ b \in 1..Len(bbs)) \/ b \in (Len(bbs) + 1)..Len(bs)
      BY <2>3
    <3>. QED  BY <1>3, <2>1, <2>2, <2>3, <3>1, EdgedQuiet
  <2>. QED  BY <1>1, <1>5, <2>1, <2>6, <2>7 DEF Flowing, s, W
<1>7. CASE node.k # "return"
  BY <1>1, <1>4, <1>5, <1>7 DEF Flowing
<1>. QED  BY <1>6, <1>7

\* A handler that makes no block before it recurses.
LEMMA IdleFlows ==
  ASSUME Known, Flowing, StmtExpected \/ (stack # <<>> /\ Top.k = "if" /\ Top.kids = 0),
         NEW g, g.k \in {"block", "arrow"}, Begins(g), UNCHANGED <<bbs, ip, switch>>,
         stack' = Append(Begun, g)
  PROVE  Flowing'
<1>1. stack # <<>> /\ (Top.k \in ListKinds \/ Top.kids = 0)
  BY DEF StmtExpected
<1>2. /\ Rooms(bbs, Begun, ip, switch) /\ Quiet(bbs, Awaiting(stack)) /\ SwitchAt(bbs, switch)
      /\ Begun \in Seq(Frame) /\ Awaiting(Begun) = Awaiting(stack)
  BY <1>1, BegunFlows, BegunSame, BegunAwaits DEF Flowing, Rooms
<1>3. Makes(g) = {} /\ Heads(g) = {} /\ Comes(g) = {} /\ Pending(g) = {} /\ g.k # "switch"
  BY DEF Makes, Heads, Comes, Pending
<1>4. /\ Rooted(bbs, g) /\ Region(bbs, g) = {ip} /\ EdgesFrom(bbs, g, ip) = {}
      /\ g.switch = switch /\ g.entry = ip
  BY <1>1, BeginRooted DEF Begins
<1>5. Stands(bbs, g, ip)
  <2>1. Leads(bbs, g, ip)
    BY <1>4, SourceLeads DEF Sources
  <2>. QED  BY <1>4, <2>1 DEF Stands, OneWay
<1>6. \A f : Holds(bbs, f, g) /\ Reaches(bbs, f, g)
  BY <1>3 DEF Holds, Reaches
<1>7. Rooms(bbs, Append(Begun, g), ip, switch)
  <2>. DEFINE B == Begun
              sw == switch
              at == ip
              bs == bbs
  <2>1. /\ Rooms(bs, B, at, sw) /\ B \in Seq(Frame) /\ SwitchAt(bs, sw) /\ g.switch = sw
        /\ Stands(bs, g, at) /\ \A f : Holds(bs, f, g) /\ Reaches(bs, f, g)
    BY <1>2, <1>4, <1>5, <1>6
  <2>. HIDE DEF B, sw, at, bs
  <2>2. Rooms(bs, Append(B, g), at, sw)
    BY <1>3, <2>1, PushRooms
  <2>. QED  BY <2>2 DEF B, sw, at, bs
<1>8. Awaiting(stack') = Awaiting(stack)
  BY <1>2, <1>3, AwaitingPush
<1>. QED  BY <1>2, <1>7, <1>8 DEF Flowing

LEMMA BlockFlows ==
  ASSUME Known, Flowing
  PROVE  /\ Block => Flowing'
         /\ \A params : Arrow(params) /\ ~Stop("abort") => Flowing'
<1>1. ASSUME Block PROVE Flowing'
  <2>. DEFINE f == Enter("block")
  <2>1. StmtExpected /\ stack' = Append(Begun, f) /\ UNCHANGED <<bbs, ip, switch>>
    BY <1>1 DEF Block
  <2>2. ip # 0
    BY <2>1, KnownNow DEF StmtExpected
  <2>3. f.k = "block" /\ Begins(f)
    BY <2>2 DEF Enter, Begins
  <2>. HIDE DEF f
  <2>. QED  BY <2>1, <2>3, IdleFlows
<1>2. ASSUME NEW params, Arrow(params), ~Stop("abort") PROVE Flowing'
  <2>. DEFINE f == [Enter("arrow") EXCEPT !.values = values']
  <2>1. /\ stack # <<>> /\ Top.k = "if" /\ Top.kids = 0
        /\ stack' = Append(Begun, f) /\ UNCHANGED <<bbs, ip, switch>>
    BY <1>2 DEF Arrow, Inject
  <2>2. ip # 0
    BY <2>1, KnownNow
  <2>3. f.k = "arrow" /\ Begins(f)
    BY <2>2 DEF Enter, Begins
  <2>. HIDE DEF f
  <2>. QED  BY <2>1, <2>3, IdleFlows
<1>. QED  BY <1>1, <1>2

LEMMA ElseFlows ==
  ASSUME Known, Flowing, Else
  PROVE  Flowing'
<1>. DEFINE f == [Enter("else") EXCEPT !.entry = Top.alt, !.terms = 0]
            bs == ElseBegun(bbs, Top)
            alt == Top.alt
            W == Awaiting(stack)
            B == Begun
            sw == switch
<1>1. /\ stack # <<>> /\ Top.k = "if" /\ Top.kids = 1
      /\ bbs' = bs /\ ip' = alt /\ UNCHANGED switch
      /\ stack' = Append(B, f)
  BY DEF Else
<1>2. /\ f.k = "else" /\ f.switch = sw /\ f.merge = merge /\ ~f.default
      /\ f.entry = alt /\ f.terms = 0 /\ f.first = Len(bbs) + 1
  BY DEF Enter
<1>. HIDE DEF f
<1>3. /\ bs \in Seq(BB) /\ Len(bs) = Len(bbs) /\ Rooms(bs, stack, alt, sw) /\ Quiet(bs, W)
  BY <1>1, ElseBegunFlows
<1>4. /\ bbs \in Seq(BB) /\ Len(bbs) \in Nat /\ W \subseteq 1..Len(bbs) /\ ~InDefault(stack)
  BY <1>1, KnownNow DEF Cases
<1>5. alt \in W
  <2>1. alt \in Pending(Top)
    BY <1>1 DEF Pending
  <2>. QED  BY <1>1, <2>1, TopBlocks
<1>. HIDE DEF bs
<1>6. Rooms(bs, B, alt, sw) /\ Heads(B[Len(B)]) = Heads(Top) /\ SwitchAt(bs, sw)
  <2>1. Rooms(bs, B, alt, sw) /\ Heads(B[Len(B)]) = Heads(Top)
    <3>. HIDE DEF alt, sw
    <3>. QED  BY <1>1, <1>3, BegunFlows
  <2>. QED  BY <2>1 DEF Rooms
<1>7. /\ B \in Seq(Frame) /\ Len(B) \in Nat \ {0}
      /\ Awaiting(B) = W \ {alt}
  <2>1. Len(stack) \in Nat \ {0}
    BY <1>1, KnownNow
  <2>. QED  BY <1>1, <2>1, BegunSame, BegunAwaits
<1>8. Makes(f) = {} /\ Comes(f) = {} /\ Pending(f) = {} /\ f.k # "switch"
      /\ Heads(f) = (IF merge # None THEN {merge} ELSE {})
      /\ (merge # None => merge \in Leave(f))
  BY <1>2 DEF Makes, Heads, Comes, Pending, Leave
<1>9. merge # None => merge \in Heads(Top)
  <2>1. merge # None => merge = InsideMerge(Top)
    BY <1>1, TopInside DEF Inside, Known
  <2>. QED  BY <1>1, <2>1 DEF InsideMerge, Heads
<1>. HIDE DEF alt, W, B, sw
<1>10. Rooted(bs, f) /\ Region(bs, f) = {alt} /\ EdgesFrom(bs, f, alt) = {}
  <2>1. alt \in 1..Len(bs) /\ Len(bs[alt].terms) \in Nat
    BY <1>3, <1>4, <1>5, BlockTerms
  <2>2. Rooted(bs, f)
    BY <1>2, <1>3, <1>4, <1>6, <2>1 DEF Rooted
  <2>3. Region(bs, f) = {alt}
    BY <1>2, <1>3, <1>4 DEF Region
  <2>4. EdgesFrom(bs, f, alt) = {}
    <3>1. f.terms + 1 = 1
      BY <1>2
    <3>2. Targets(bs[alt], 1) = {}
      BY <1>3, <1>5 DEF Quiet
    <3>. QED  BY <1>2, <3>1, <3>2 DEF EdgesFrom
  <2>. QED  BY <2>2, <2>3, <2>4
<1>11. Stands(bs, f, alt)
  <2>1. Leads(bs, f, alt)
    BY <1>2, SourceLeads DEF Sources
  <2>. QED  BY <1>10, <2>1 DEF Stands, OneWay
<1>12. Holds(bs, f, f) /\ \A g : Reaches(bs, g, f)
  BY <1>8 DEF Holds, Reaches
<1>13. ASSUME NEW i \in 1..Len(B) PROVE Holds(bs, B[i], f)
  <2>1. Len(B) \in 1..Len(B) /\ i \in 1..Len(B)
    BY <1>7
  <2>2. Holds(bs, B[i], B[Len(B)])
    BY <1>6, <2>1 DEF Rooms
  <2>. QED  BY <1>6, <1>8, <1>9, <2>2 DEF Holds
<1>14. Rooms(bs, Append(B, f), alt, sw)
  BY <1>2, <1>6, <1>7, <1>8, <1>11, <1>12, <1>13, PushRooms
<1>15. Quiet(bs, Awaiting(stack'))
  <2>1. Awaiting(stack') = W \ {alt}
    BY <1>1, <1>7, <1>8, AwaitingPush
  <2>. QED  BY <1>3, <2>1 DEF Quiet
<1>. QED  BY <1>1, <1>14, <1>15 DEF Flowing, sw

\* What a case finds.
LEMMA CaseFinds ==
  ASSUME Known, Flowing, stack # <<>>, Top.k = "switch", switch # None
  PROVE  /\ switch = InfoOf(Top) /\ switch.at = Top.entry /\ switch.term = Top.terms + 1
         /\ switch.default = Top.alt /\ switch.merge = Top.next
         /\ SwitchAt(bbs, switch) /\ switch.at \notin Awaiting(stack)
         /\ \A i \in 1..Len(stack) :
              /\ Rooted(bbs, stack[i])
              /\ Leads(bbs, stack[i], switch.at) /\ switch.at \in Region(bbs, stack[i])
              /\ stack[i].entry # switch.at \/ stack[i].terms < switch.term
<1>1. /\ bbs \in Seq(BB) /\ Len(stack) \in Nat \ {0} /\ Len(stack) \in 1..Len(stack)
      /\ Rooms(bbs, stack, ip, switch) /\ Quiet(bbs, Awaiting(stack))
  BY KnownNow DEF Flowing
<1>2. switch = InfoOf(Top)
  <2>1. SwitchInside(stack, switch, Len(stack)) = switch
    BY DEF SwitchInside
  <2>. QED  BY <1>1, <2>1 DEF Rooms, Top
<1>3. /\ switch.at = Top.entry /\ switch.term = Top.terms + 1
      /\ switch.default = Top.alt /\ switch.merge = Top.next
  BY <1>2 DEF InfoOf
<1>4. SwitchAt(bbs, switch)
  BY <1>1 DEF Rooms
<1>5. switch.at \notin Awaiting(stack)
  <2>1. /\ switch.term \in 1..Len(bbs[switch.at].terms)
        /\ bbs[switch.at].terms[switch.term].to # {}
    BY <1>4 DEF SwitchAt
  <2>2. Targets(bbs[switch.at], 1) # {}
    BY <2>1 DEF Targets
  <2>. QED  BY <1>1, <2>2 DEF Quiet
<1>6. ASSUME NEW i \in 1..Len(stack)
      PROVE  /\ Rooted(bbs, stack[i])
             /\ Leads(bbs, stack[i], switch.at) /\ switch.at \in Region(bbs, stack[i])
             /\ stack[i].entry # switch.at \/ stack[i].terms < switch.term
  <2>. DEFINE f == stack[i]
  <2>1. Rooted(bbs, f) /\ Rooted(bbs, Top) /\ Reaches(bbs, f, Top)
    BY <1>1 DEF Rooms, Stands, Top
  <2>. HIDE DEF f
  <2>2. /\ Leads(bbs, f, Top.entry) /\ Top.entry \in Region(bbs, f)
        /\ Top.entry = f.entry => f.terms <= Top.terms
    BY <2>1 DEF Reaches
  <2>3. f.terms \in Nat /\ Top.terms \in Nat
    <3>1. f.entry \in 1..Len(bbs) /\ Top.entry \in 1..Len(bbs)
      BY <2>1 DEF Rooted
    <3>2. Len(bbs[f.entry].terms) \in Nat /\ Len(bbs[Top.entry].terms) \in Nat
      BY <1>1, <3>1, BlockTerms
    <3>. QED  BY <2>1, <3>2 DEF Rooted
  <2>4. f.entry # switch.at \/ f.terms < switch.term
    BY <1>3, <2>2, <2>3
  <2>. QED  BY <1>3, <2>1, <2>2, <2>4 DEF f
<1>. QED  BY <1>2, <1>3, <1>4, <1>5, <1>6

\* The block of a case, and the edge to it.
LEMMA CaseMade ==
  ASSUME Known, Flowing, stack # <<>>, Top.k = "switch", switch # None, NEW node, node.default \in BOOLEAN
  PROVE  LET bs == IF node.default THEN bbs ELSE bbs \o Blocks(<<1>>)
             at == CaseBlock(node)
         IN /\ bs \in Seq(BB) /\ Edged(bbs, bs, {}) /\ SwitchAt(bs, switch)
            /\ Len(bbs) <= Len(bs) /\ at \in 1..Len(bs)
            /\ \A b \in 1..Len(bbs) : bs[b] = bbs[b]
            /\ IF node.default THEN at = Top.alt ELSE at \in (Len(bbs) + 1)..Len(bs)
<1>. DEFINE n == Len(bbs)
            new == <<1>>
            bs == IF node.default THEN bbs ELSE bbs \o Blocks(new)
            at == CaseBlock(node)
<1>1. /\ bbs \in Seq(BB) /\ n \in Nat /\ Pending(Top) \subseteq 1..n
      /\ SwitchAt(bbs, switch) /\ switch.default = Top.alt
      /\ Top.alt \in Pending(Top)
  BY KnownNow, TopBlocks, CaseFinds DEF Pending
<1>2. switch.at \in 1..n
  BY <1>1 DEF SwitchAt
<1>3. new \in Seq({0, 1}) /\ Len(new) = 1
  OBVIOUS
<1>. HIDE DEF new
<1>4. CASE node.default
  <2>1. bs = bbs /\ at = Top.alt
    BY <1>1, <1>4 DEF CaseBlock
  <2>2. Edged(bbs, bbs, {})
    BY <1>1, SameExtends DEF Edged
  <2>. HIDE DEF bs, at, n
  <2>3. n <= Len(bs)
    BY <1>1, <2>1 DEF n
  <2>. QED  BY <1>1, <1>4, <2>1, <2>2, <2>3 DEF n, bs, at, new
<1>5. CASE ~node.default
  <2>1. bs = bbs \o Blocks(new) /\ at = n + 1
    BY <1>5 DEF CaseBlock
  <2>. HIDE DEF bs, at
  <2>2. /\ bs \in Seq(BB) /\ Len(bs) = n + 1 /\ Edged(bbs, bs, {})
        /\ \A b \in 1..n : bs[b] = bbs[b]
    BY <1>1, <1>3, <2>1, BlocksEmpty, BlocksEdged
  <2>3. SwitchAt(bs, switch)
    BY <1>1, <1>2, <2>2, EdgedSwitch
  <2>4. n <= Len(bs) /\ at \in 1..Len(bs) /\ at \in (n + 1)..Len(bs)
    BY <1>1, <2>1, <2>2
  <2>. QED  BY <1>5, <2>2, <2>3, <2>4 DEF bs, at, new
<1>. QED  BY <1>4, <1>5

LEMMA CaseFlows ==
  ASSUME Known, Flowing, NEW node \in CaseNodes, Case(node), ~\E how : Stop(how)
  PROVE  Flowing'
<1>. DEFINE n == Len(bbs)
            W == Awaiting(stack)
            kind == IF node.arrow THEN "case_arrow" ELSE "case"
            entered == [Enter(kind) EXCEPT !.next = switch.merge, !.default = node.default]
            f == [entered EXCEPT !.values = values']
            bs == IF node.default THEN bbs ELSE bbs \o Blocks(<<1>>)
            at == CaseBlock(node)
            end == AddCase(bs, at)
            E == {<<switch.at, at>>}
            none == {}
            F == none \cup E
<1>1. /\ StmtExpected /\ CasePlace /\ switch # None
      /\ stack' = Append(Begun, f) /\ bbs' = end /\ ip' = at /\ UNCHANGED switch
  BY DEF Case, Inject
<1>2. stack # <<>> /\ Top.k = "switch" /\ Begun = stack /\ node.default \in BOOLEAN
  BY <1>1, RulesNow, StatementsAssumption DEF StmtExpected, ListKinds, Begun
<1>3. /\ bbs \in Seq(BB) /\ n \in Nat /\ ip \in 1..n /\ W \subseteq 1..n
      /\ stack \in Seq(Frame) /\ Len(stack) \in Nat \ {0}
      /\ Rooms(bbs, stack, ip, switch) /\ Quiet(bbs, W)
  BY <1>2, KnownNow DEF Flowing
<1>4. /\ f.k \in Cases /\ f.switch = switch /\ f.next = switch.merge /\ (f.default <=> node.default)
      /\ Begins(f)
  <2>1. f.k \in Cases
    BY DEF Enter, Cases
  <2>. HIDE DEF kind
  <2>2. ip # 0
    BY <1>3
  <2>. QED  BY <2>1, <2>2 DEF Enter, Begins
<1>. HIDE DEF f
<1>5. /\ bs \in Seq(BB) /\ Edged(bbs, bs, none) /\ SwitchAt(bs, switch)
      /\ n <= Len(bs) /\ at \in 1..Len(bs) /\ Len(bs) \in Nat
      /\ \A b \in 1..n : bs[b] = bbs[b]
      /\ IF node.default THEN at = Top.alt ELSE at \in (n + 1)..Len(bs)
  BY <1>1, <1>2, CaseMade
<1>6. \A b, t : <<b, t>> \in F <=> b = switch.at /\ t = at
  OBVIOUS
<1>. HIDE DEF bs, at, E, W
<1>7. \A b \in W : end[b] = bs[b] /\ b \in 1..n
  <2>1. \A b \in W : b \in 1..n /\ b \in DOMAIN bs /\ b # switch.at
    BY <1>1, <1>2, <1>3, <1>5, CaseFinds DEF W
  <2>. QED  BY <2>1 DEF AddCase
<1>. HIDE DEF end
<1>8. /\ end \in Seq(BB) /\ Len(end) = Len(bs) /\ at \in Nat
      /\ \A g : Rooted(bs, g) =>
           /\ Extends(bs, end, g, IF g.entry # switch.at \/ g.terms < switch.term THEN E ELSE {})
           /\ g.switch = switch => at \in Sources(end, g)
  <2>1. at \in Nat
    BY <1>5
  <2>. HIDE DEF n, F
  <2>2. switch.at \in 1..Len(bs)
    BY <1>1, <1>5 DEF SwitchAt
  <2>3. Rooted(bs, Probe(bs, switch.at, switch))
    BY <1>5, <2>2, ProbeRooted
  <2>. QED  BY <1>1, <1>5, <2>1, <2>3, AddCaseExtends DEF end, E
<1>9. SwitchAt(end, switch)
  <2>1. switch.at \in 1..Len(bs)
    BY <1>1, <1>5 DEF SwitchAt
  <2>. DEFINE p == Probe(bs, switch.at, switch)
  <2>2. Rooted(bs, p) /\ p.switch = switch
    BY <1>5, <2>1, ProbeRooted DEF Probe
  <2>. HIDE DEF p
  <2>3. Rooted(end, p)
    BY <1>8, <2>2 DEF Extends
  <2>. QED  BY <2>2, <2>3 DEF Rooted
<1>10. ASSUME NEW i \in 1..Len(stack)
       PROVE  /\ Rooted(bbs, stack[i]) /\ Extends(bbs, end, stack[i], F)
              /\ Leads(bbs, stack[i], switch.at) /\ switch.at \in Region(bbs, stack[i])
  <2>. DEFINE g == stack[i]
  <2>1. /\ Rooted(bbs, g) /\ Leads(bbs, g, switch.at) /\ switch.at \in Region(bbs, g)
        /\ g.entry # switch.at \/ g.terms < switch.term
    BY <1>1, <1>2, CaseFinds
  <2>. HIDE DEF g
  <2>2. Extends(bbs, bs, g, none)
    BY <1>5, <2>1 DEF Edged
  <2>3. Extends(bs, end, g, E)
    BY <1>8, <2>1, <2>2 DEF Extends
  <2>4. \A b, t : <<b, t>> \in none => b \in 1..Len(bs)
    OBVIOUS
  <2>. HIDE DEF none
  <2>5. Extends(bbs, end, g, F)
    BY <1>3, <1>5, <1>8, <2>1, <2>2, <2>3, <2>4, ThenExtends
  <2>. QED  BY <2>1, <2>5 DEF g
<1>11. Holds(bbs, Top, Top) /\ Makes(Top) = {Top.alt, Top.next} /\ Makes(Top) \subseteq Heads(Top)
  <2>1. Len(stack) \in 1..Len(stack)
    BY <1>3
  <2>. QED  BY <1>2, <1>3, <2>1 DEF Rooms, Top, Makes, Heads
<1>. HIDE DEF F
<1>12. Rooms(end, stack, ip, switch)
  <2>1. \A b, t : <<b, t>> \in F => t \in (n + 1)..Len(end) \cup Heads(stack[Len(stack)])
    BY <1>5, <1>6, <1>8, <1>11 DEF Top
  <2>2. \A i \in 1..Len(stack) : Extends(bbs, end, stack[i], F)
    BY <1>10
  <2>. QED  BY <1>3, <1>8, <1>9, <2>1, <2>2, GrowRooms
<1>13. ASSUME NEW i \in 1..Len(stack)
       PROVE  Leads(end, stack[i], at) /\ at \in Region(end, stack[i])
  <2>. DEFINE g == stack[i]
  <2>1. /\ Rooted(bbs, g) /\ Extends(bbs, end, g, F)
        /\ Leads(bbs, g, switch.at) /\ switch.at \in Region(bbs, g)
    BY <1>10
  <2>2. Holds(end, g, Top)
    <3>1. Len(stack) \in 1..Len(stack) /\ i \in 1..Len(stack)
      BY <1>3
    <3>. QED  BY <1>12, <3>1 DEF Rooms, Top
  <2>. HIDE DEF g
  <2>3. Leads(end, g, switch.at)
    BY <1>3, <1>8, <2>1, LeadsMore
  <2>4. /\ Region(bbs, g) \subseteq Region(end, g)
        /\ (n + 1)..Len(end) \subseteq g.first..Len(end)
        /\ g.first..Len(end) \subseteq Region(end, g)
    BY <1>3, <1>5, <1>8, <2>1, RegionGrows
  <2>5. at \in Region(end, g)
    BY <1>5, <1>8, <1>11, <2>2, <2>4 DEF Holds
  <2>6. Leads(end, g, at)
    <3>1. switch.at \in Region(end, g) /\ <<switch.at, at>> \in F
      BY <1>6, <2>1, <2>4
    <3>. QED  BY <2>1, <2>3, <3>1, GoesTo
  <2>. QED  BY <2>5, <2>6 DEF g
<1>14. Rooms(end, stack, at, switch)
  BY <1>12, <1>13, MoveRooms
<1>15. Stands(end, f, at)
  <2>. DEFINE G == IF f.entry # switch.at \/ f.terms < switch.term THEN E ELSE {}
              H == none \cup G
  <2>1. Rooted(bbs, f) /\ Region(bbs, f) = {ip} /\ EdgesFrom(bbs, f, ip) = {}
    BY <1>2, <1>4, BeginRooted
  <2>2. Extends(bbs, bs, f, none) /\ Rooted(bs, f)
    BY <1>5, <2>1 DEF Edged, Extends
  <2>3. Extends(bs, end, f, G) /\ at \in Sources(end, f)
    BY <1>4, <1>8, <2>2
  <2>4. \A b, t : <<b, t>> \in none => b \in 1..Len(bs)
    OBVIOUS
  <2>5. \A b, t : <<b, t>> \in H => b = switch.at /\ (f.entry # switch.at \/ f.terms < switch.term)
    BY DEF E
  <2>. HIDE DEF none, G
  <2>6. Extends(bbs, end, f, H)
    BY <1>3, <1>5, <1>8, <2>1, <2>2, <2>3, <2>4, ThenExtends
  <2>. HIDE DEF H
  <2>7. \A b, t : <<b, t>> \in H => b \notin Region(end, f)
    <3>1. /\ switch.at \in 1..n /\ switch.term \in 1..Len(bbs[switch.at].terms)
          /\ Len(bbs[switch.at].terms) \in Nat
      BY <1>1, <1>2, <1>3, CaseFinds, BlockTerms DEF SwitchAt
    <3>2. f.entry = ip /\ f.first = n + 1 /\ f.terms = Len(bbs[ip].terms)
      BY <1>4 DEF Begins
    <3>3. f.entry = switch.at => ~(f.terms < switch.term)
      BY <3>1, <3>2
    <3>4. f.entry # switch.at => switch.at \notin Region(end, f)
      BY <1>3, <3>1, <3>2 DEF Region
    <3>. QED  BY <2>5, <3>3, <3>4
  <2>8. Leads(end, f, at)
    BY <2>3, SourceLeads
  <2>9. f.default \/ at \in Region(end, f)
    BY <1>4, <1>5, <1>8 DEF Region, Begins
  <2>10. \A b \in Region(bbs, f) : EdgesFrom(bbs, f, b) = {}
    BY <2>1
  <2>. QED  BY <2>6, <2>7, <2>8, <2>9, <2>10, BeginStands
<1>16. Makes(f) = {} /\ Heads(f) = {f.next} /\ Comes(f) = {} /\ Pending(f) = {} /\ f.k # "switch"
  BY <1>4 DEF Makes, Heads, Comes, Pending, Cases
<1>17. Holds(end, f, f) /\ \A g : Reaches(end, g, f)
  <2>1. f.next \in Leave(f)
    BY <1>1, <1>4 DEF Leave
  <2>. QED  BY <1>16, <2>1 DEF Holds, Reaches
<1>18. ASSUME NEW i \in 1..Len(stack) PROVE Holds(end, stack[i], f)
  <2>1. Len(stack) \in 1..Len(stack) /\ i \in 1..Len(stack)
    BY <1>3
  <2>2. Holds(end, stack[i], Top)
    BY <1>14, <2>1 DEF Rooms, Top
  <2>3. f.next = Top.next
    BY <1>1, <1>2, <1>4, CaseFinds
  <2>. QED  BY <1>11, <1>16, <2>2, <2>3 DEF Holds
<1>19. Rooms(end, Append(stack, f), at, switch)
  BY <1>3, <1>4, <1>9, <1>14, <1>15, <1>16, <1>17, <1>18, PushRooms
<1>20. Quiet(end, Awaiting(stack'))
  <2>1. Awaiting(stack') = W
    BY <1>1, <1>2, <1>3, <1>16, AwaitingPush DEF W
  <2>. QED  BY <1>3, <1>5, <1>7, <2>1 DEF Quiet
<1>. QED  BY <1>1, <1>2, <1>19, <1>20 DEF Flowing

LEMMA FnFlows ==
  ASSUME Known, NEW node, Fn(node), ~\E how : Stop(how)
  PROVE  Flowing'
<1>. DEFINE f == [Enter("fn") EXCEPT !.merge = None, !.switch = None,
                    !.values = Added(node), !.first = 1, !.entry = 1, !.terms = 0]
            new == <<1>>
<1>1. bbs' = Blocks(new) /\ ip' = 1 /\ stack' = <<f>> /\ switch' = None
  BY DEF Fn
<1>2. /\ f.k = "fn" /\ ~f.default /\ f.switch = None
      /\ f.first = 1 /\ f.entry = 1 /\ f.terms = 0
  BY DEF Enter
<1>. HIDE DEF f
<1>3. stack' \in Seq({f}) /\ Len(stack') = 1 /\ stack'[1] = f
  BY <1>1
<1>4. Pending(f) = {} /\ Makes(f) = {} /\ Heads(f) = {} /\ Comes(f) = {} /\ f.k # "switch"
  BY <1>2 DEF Pending, Makes, Heads, Comes
<1>5. Awaiting(stack') = {}
  BY <1>3, <1>4 DEF Awaiting
<1>. DEFINE bs == Blocks(new)
            s == stack'
<1>6. Len(bs) = 1 /\ bs[1].terms = <<>>
  BY DEF Blocks
<1>7. Len(s) = 1 /\ s[1] = f
  BY <1>3
<1>. HIDE DEF bs, s
<1>8. Rooted(bs, f) /\ Region(bs, f) = {1} /\ Sources(bs, f) = {1}
  <2>1. f.terms \in 0..Len(bs[1].terms)
    BY <1>2, <1>6
  <2>. QED  BY <1>2, <1>6, <2>1 DEF Rooted, Region, Sources, SwitchAt
<1>9. EdgesFrom(bs, f, 1) = {}
  <2>1. Targets(bs[1], 1) = {}
    BY <1>6 DEF Targets
  <2>2. f.terms + 1 = 1
    BY <1>2
  <2>. QED  BY <1>2, <2>1, <2>2 DEF EdgesFrom
<1>10. Stands(bs, f, 1)
  <2>1. Leads(bs, f, 1)
    BY <1>8, SourceLeads
  <2>. QED  BY <1>8, <1>9, <2>1 DEF Stands, OneWay
<1>11. Holds(bs, f, f) /\ Reaches(bs, f, f)
  BY <1>4 DEF Holds, Reaches
<1>12. Rooms(bs, s, 1, None)
  BY <1>4, <1>7, <1>10, <1>11 DEF Rooms, SwitchAt
<1>13. Quiet(bs, Awaiting(stack'))
  BY <1>5 DEF Quiet
<1>. QED  BY <1>1, <1>12, <1>13 DEF Flowing, bs, s

\* The control flow of a program that is structured.
FlowInv == Structured => Flowing

LEMMA StepFlows ==
  ASSUME TypeInv, NestInv, BlocksInv, EndInv, FlowInv, [Next]_vars
  PROVE  FlowInv'
<1>1. UNCHANGED rules
  BY DEF Next, vars, Fn, ExternFn, TypeDecl, Simple, Block, If, Arrow, Else, While,
     For, Switch, Case, Entering, Visiting, Exit, ExitBlock, ExitElse, ExitIf,
     ExitWhile, ExitFor, ExitSwitch, ExitCase, Leaving
<1>2. CASE UNCHANGED <<bbs, ip, switch, stack>>
  BY <1>1, <1>2 DEF FlowInv, Structured, Flowing
<1>3. CASE ~UNCHANGED <<bbs, ip, switch, stack>>
  <2>. SUFFICES ASSUME Structured PROVE Flowing'
    BY <1>1 DEF FlowInv, Structured
  <2>1. Known /\ Flowing
    BY DEF Known, FlowInv
  <2>2. Next
    BY <1>3 DEF vars
  <2>3. ~\E how : Stop(how)
    BY <1>3 DEF Stop
  <2>4. ASSUME NEW node, ExternFn(node) \/ TypeDecl(node) PROVE FALSE
    BY <1>3, <2>3, <2>4 DEF ExternFn, TypeDecl
  <2>5. Exit => Flowing'
    BY <2>1, <2>3, ExitFlows DEF Finished
  <2>. QED  BY <2>1, <2>2, <2>3, <2>4, <2>5, FnFlows, SimpleFlows, BlockFlows, IfFlows, ElseFlows,
               WhileFlows, SwitchFlows, CaseFlows DEF Next
<1>. QED  BY <1>2, <1>3

(***************************************************************************)
(* However structured statements are nested, the code of each open         *)
(* statement has one way out, which is led to once the statement goes on   *)
(* there, every block that has been made and not come to is led to and     *)
(* leads nowhere yet, and the code that is inserted at is reached (the     *)
(* handlers codegen_if, codegen_while, codegen_for, codegen_switch,        *)
(* codegen_case and codegen_return, which branch and move the insert       *)
(* point).                                                                 *)
(***************************************************************************)
THEOREM ControlFlows == Spec => []FlowInv
<1>1. Init => FlowInv
  <2>. SUFFICES ASSUME Init PROVE FlowInv
    OBVIOUS
  <2>1. bbs = <<>> /\ stack = <<>> /\ Len(stack) = 0 /\ switch = None
    BY DEF Init
  <2>. QED  BY <2>1 DEF FlowInv, Flowing, Rooms, SwitchAt, Quiet, Awaiting
<1>2. TypeInv /\ NestInv /\ BlocksInv /\ EndInv /\ FlowInv /\ [Next]_vars => FlowInv'
  BY StepFlows
<1>. QED  BY <1>1, <1>2, TypesHold, HandlersNestAlways, BlocksAccountedFor, BlocksEnd, PTL DEF Spec

-----------------------------------------------------------------------------
(* Handlers that return.                                                    *)

LEMMA ReturnsExit ==
  ASSUME NestInv, Next, Len(stack') < Len(stack)
  PROVE  Exit /\ ~\E how : Stop(how)
<1>1. Len(stack) \in Nat /\ Len(Begun) = Len(stack)
  BY BegunNests DEF NestInv, HandlersNest
<1>2. \A f : Len(Append(Begun, f)) = Len(stack) + 1
  <2>1. PICK S : Begun \in Seq(S)
    BY BegunNests DEF HandlersNest
  <2>. QED  BY <1>1, <2>1, PushShape
<1>3. ~\E how : Stop(how)
  BY <1>1 DEF Stop
<1>4. stack' # Begun /\ stack' # stack /\ stack # <<>> /\ \A f : stack' # Append(Begun, f)
  <2>1. stack # <<>>
    <3>1. stack = <<>> => Len(stack) = 0
      OBVIOUS
    <3>2. Len(stack') >= 0 \/ stack = <<>> => stack # <<>>
      BY <3>1
    <3>. QED  BY <1>1
  <2>. QED  BY <1>1, <1>2, <2>1
<1>5. \A node : ~Fn(node) /\ ~ExternFn(node) /\ ~TypeDecl(node)
  BY <1>4 DEF Fn, ExternFn, TypeDecl
<1>6. ~Block /\ ~Else /\ \A node : ~Simple(node)
  BY <1>3, <1>4 DEF Block, Else, Simple
<1>7. \A node : ~If(node) /\ ~While(node) /\ ~For(node) /\ ~Switch(node)
  BY <1>3, <1>4 DEF If, While, For, Switch, Loop
<1>8. \A node : ~Arrow(node) /\ ~Case(node)
  BY <1>3, <1>4 DEF Arrow, Case, Inject
<1>. QED  BY <1>3, <1>5, <1>6, <1>7, <1>8 DEF Next

(***************************************************************************)
(* Whatever structured statements are nested in a statement, once its      *)
(* handler is back every branch out of the blocks of its code goes to      *)
(* where the handler leaves the insert point, or, in a case, to the block  *)
(* of the enclosing switch that it was given.                              *)
(***************************************************************************)
THEOREM StatementsAreSingleExitAlways == Spec => StatementsAreSingleExit
<1>1. ASSUME TypeInv, NestInv, BlocksInv, EndInv, FlowInv, [Next]_vars
      PROVE  [Structured /\ out' = "run" /\ Len(stack') < Len(stack) =>
                \A b \in Region(bbs', Top) :
                  EdgesFrom(bbs', Top, b) \subseteq Region(bbs', Top) \cup Leave(Top)]_vars
  <2>. SUFFICES ASSUME Next, Structured, Len(stack') < Len(stack)
                PROVE  OneWay(bbs', Top)
    BY <1>1 DEF OneWay
  <2>1. Known /\ Flowing /\ Exit /\ ~\E how : Stop(how)
    BY <1>1, ReturnsExit DEF Known, FlowInv
  <2>. QED  BY <1>1, <2>1, ExitFlows DEF Finished
<1>. QED  BY <1>1, TypesHold, HandlersNestAlways, BlocksAccountedFor, BlocksEnd, ControlFlows, PTL
          DEF Spec, StatementsAreSingleExit

\* One step of Reached.
Spread(bs, f, S) == S \cup UNION {EdgesFrom(bs, f, b) : b \in S \cap Region(bs, f)}

\* r is the function that Reached defines recursively.
IsReach(r, bs, f, n) ==
  r = [i \in 0..n |-> IF i = 0 THEN Sources(bs, f) ELSE Spread(bs, f, r[i - 1])]

LEMMA ReachExists ==
  ASSUME NEW bs, NEW f, NEW n \in Nat
  PROVE  \E r : IsReach(r, bs, f, n)
<1>. DEFINE T == {m \in 0..n : ~\E r : IsReach(r, bs, f, m)}
<1>. SUFFICES ASSUME T # {} PROVE FALSE
  BY DEF T
<1>1. PICK m \in T : \A y \in T : m <= y
  <2>1. T \in SUBSET Nat
    OBVIOUS
  <2>. HIDE DEF T
  <2>. QED  BY <2>1, LeastNat
<1>2. m \in 0..n /\ ~\E r : IsReach(r, bs, f, m)
  BY <1>1
<1>3. m # 0
  <2>. DEFINE g == [i \in 0..0 |-> Sources(bs, f)]
  <2>1. \A i \in 0..0 : i = 0
    OBVIOUS
  <2>2. IsReach(g, bs, f, 0)
    BY <2>1 DEF IsReach
  <2>. QED  BY <1>2, <2>2
<1>4. m - 1 \in 0..n /\ m - 1 \notin T /\ m - 1 \in Nat
  BY <1>1, <1>2, <1>3
<1>5. PICK h : IsReach(h, bs, f, m - 1)
  BY <1>4
<1>. HIDE DEF T
<1>. DEFINE g == [i \in 0..m |-> IF i = m THEN Spread(bs, f, h[m - 1]) ELSE h[i]]
<1>6. ASSUME NEW i \in 0..m
      PROVE  g[i] = IF i = 0 THEN Sources(bs, f) ELSE Spread(bs, f, g[i - 1])
  <2>1. i # 0 => i - 1 \in 0..m /\ i - 1 # m /\ g[i - 1] = h[i - 1]
    BY <1>2
  <2>2. CASE i = m
    BY <1>3, <2>1, <2>2
  <2>3. CASE i # m
    <3>1. i \in 0..m - 1
      BY <1>2, <2>3
    <3>2. h[i] = IF i = 0 THEN Sources(bs, f) ELSE Spread(bs, f, h[i - 1])
      BY <1>5, <3>1 DEF IsReach
    <3>. QED  BY <2>1, <2>3, <3>2
  <2>. QED  BY <2>2, <2>3
<1>7. g = [i \in 0..m |-> g[i]]
  OBVIOUS
<1>. HIDE DEF g
<1>8. IsReach(g, bs, f, m)
  BY <1>6, <1>7 DEF IsReach
<1>. QED  BY <1>2, <1>8

LEMMA ReachedIs ==
  ASSUME NEW bs, NEW f, Len(bs) \in Nat
  PROVE  \E r : IsReach(r, bs, f, Len(bs)) /\ Reached(bs, f) = r[Len(bs)]
<1>. DEFINE n == Len(bs)
            r == CHOOSE g : IsReach(g, bs, f, n)
<1>1. IsReach(r, bs, f, n)
  BY ReachExists
<1>2. Reached(bs, f) = r[n]
  BY DEF Reached, IsReach, Spread, Sources
<1>. QED  BY <1>1, <1>2

\* Its steps only add blocks.
LEMMA ReachGrows ==
  ASSUME NEW bs, NEW f, NEW n \in Nat, NEW r, IsReach(r, bs, f, n),
         NEW i \in 0..n, NEW j \in i..n
  PROVE  r[i] \subseteq r[j]
<1>. DEFINE T == {k \in i..n : ~(r[i] \subseteq r[k])}
<1>. SUFFICES ASSUME T # {} PROVE FALSE
  BY DEF T
<1>1. PICK k \in T : \A y \in T : k <= y
  <2>1. T \in SUBSET Nat
    OBVIOUS
  <2>. HIDE DEF T
  <2>. QED  BY <2>1, LeastNat
<1>2. k \in i..n /\ k # i /\ ~(r[i] \subseteq r[k])
  BY <1>1
<1>3. k - 1 \in i..n /\ k - 1 \notin T
  BY <1>1, <1>2
<1>4. r[i] \subseteq r[k - 1]
  BY <1>3
<1>5. r[k] = Spread(bs, f, r[k - 1])
  <2>1. k \in 0..n /\ k # 0
    BY <1>2
  <2>. QED  BY <2>1 DEF IsReach
<1>. QED  BY <1>2, <1>4, <1>5 DEF Spread

\* A statement has no more blocks than there are, so one step adds none of
\* them, and what there is then follows all branches.
LEMMA LedToIsReached ==
  ASSUME NEW bs \in Seq(BB), NEW f, Rooted(bs, f), NEW x, Leads(bs, f, x)
  PROVE  x \in Reached(bs, f)
<1>. DEFINE n == Len(bs)
            R == Region(bs, f)
            D(r, i) == r[i] \cap R
<1>1. n \in Nat /\ R \subseteq 1..n /\ f.entry \in R
  BY RegionIn
<1>2. PICK r : IsReach(r, bs, f, n) /\ Reached(bs, f) = r[n]
  BY <1>1, ReachedIs
<1>. HIDE DEF n
<1>3. /\ r[0] = Sources(bs, f)
      /\ \A i \in 1..n : r[i] = Spread(bs, f, r[i - 1])
  <2>1. 0 \in 0..n /\ \A i \in 1..n : i \in 0..n /\ i # 0
    BY <1>1
  <2>. QED  BY <1>2, <2>1 DEF IsReach
<1>4. \A i \in 0..n : \A j \in i..n : r[i] \subseteq r[j]
  BY <1>1, <1>2, ReachGrows
<1>5. IsFiniteSet(1..n) /\ Cardinality(1..n) = n
  <2>1. 1 \in Int /\ n \in Int /\ n - 1 + 1 = n
    BY <1>1
  <2>2. /\ IsFiniteSet(1..n)
        /\ Cardinality(1..n) = IF 1 > n THEN 0 ELSE n - 1 + 1
    BY <2>1, FS_Interval
  <2>. QED  BY <1>1, <2>1, <2>2
<1>6. \A i \in 0..n : /\ IsFiniteSet(D(r, i)) /\ Cardinality(D(r, i)) \in Nat
                      /\ Cardinality(D(r, i)) <= n
  <2>. SUFFICES ASSUME NEW i \in 0..n
                PROVE  /\ IsFiniteSet(D(r, i)) /\ Cardinality(D(r, i)) \in Nat
                       /\ Cardinality(D(r, i)) <= n
    OBVIOUS
  <2>. DEFINE d == D(r, i)
  <2>1. d \in SUBSET (1..n)
    BY <1>1
  <2>. HIDE DEF d
  <2>2. IsFiniteSet(d) /\ Cardinality(d) <= n
    BY <1>5, <2>1, FS_Subset
  <2>3. Cardinality(d) \in Nat
    BY <2>2, FS_CardinalityType
  <2>. QED  BY <2>2, <2>3 DEF d
<1>7. PICK i \in 1..n : D(r, i) = D(r, i - 1)
  <2>. SUFFICES ASSUME \A i \in 1..n : D(r, i) # D(r, i - 1) PROVE FALSE
    OBVIOUS
  <2>. DEFINE T == {k \in 0..n : ~(k < Cardinality(D(r, k)))}
  <2>1. n \in T
    <3>1. n \in 0..n
      BY <1>1
    <3>2. Cardinality(D(r, n)) \in Nat /\ Cardinality(D(r, n)) <= n
      BY <1>6, <3>1
    <3>. HIDE DEF D
    <3>. QED  BY <1>1, <3>1, <3>2
  <2>2. PICK k \in T : \A y \in T : k <= y
    <3>1. T \subseteq Nat /\ T # {}
      <4>. HIDE DEF D
      <4>1. \A k \in T : k \in 0..n
        OBVIOUS
      <4>. QED  BY <1>1, <2>1, <4>1
    <3>. HIDE DEF T
    <3>. QED  BY <3>1, LeastNat
  <2>3. k \in 0..n /\ ~(k < Cardinality(D(r, k)))
    BY <2>2
  <2>4. k # 0
    <3>1. f.entry \in D(r, 0)
      BY <1>1, <1>3 DEF Sources
    <3>2. 0 \in 0..n
      BY <1>1
    <3>. DEFINE d == D(r, 0)
    <3>3. IsFiniteSet(d) /\ Cardinality(d) \in Nat /\ d # {}
      BY <1>6, <3>1, <3>2
    <3>. HIDE DEF d
    <3>4. Cardinality(d) # 0
      BY <3>3, FS_EmptySet
    <3>5. 0 < Cardinality(d)
      BY <3>3, <3>4
    <3>. QED  BY <2>3, <3>5 DEF d
  <2>5. k \in 1..n /\ k - 1 \in 0..n /\ k \in (k - 1)..n
    BY <1>1, <2>3, <2>4
  <2>6. k - 1 \notin T
    BY <2>2, <2>5
  <2>7. k - 1 < Cardinality(D(r, k - 1))
    BY <2>5, <2>6
  <2>. DEFINE d0 == D(r, k - 1)
              d == D(r, k)
  <2>8. d0 \in SUBSET d /\ d # d0 /\ IsFiniteSet(d) /\ Cardinality(d) \in Nat /\ Cardinality(d0) \in Nat
    BY <1>4, <1>6, <2>5
  <2>9. k - 1 < Cardinality(d0) /\ ~(k < Cardinality(d))
    BY <2>3, <2>7
  <2>. HIDE DEF d0, d, T
  <2>10. Cardinality(d0) <= Cardinality(d) /\ Cardinality(d) # Cardinality(d0)
    BY <2>8, FS_Subset
  <2>. QED  BY <2>5, <2>8, <2>9, <2>10
<1>8. Follows(bs, f, r[i])
  <2>1. i - 1 \in 0..n /\ i \in 0..n /\ 0 \in 0..n /\ i \in 0..n
    BY <1>1
  <2>2. Sources(bs, f) \subseteq r[i]
    BY <1>3, <1>4, <2>1
  <2>3. ASSUME NEW b \in r[i] \cap Region(bs, f)
        PROVE  EdgesFrom(bs, f, b) \subseteq r[i]
    <3>1. b \in r[i - 1] \cap Region(bs, f)
      BY <1>7, <2>3
    <3>2. r[i] = Spread(bs, f, r[i - 1])
      BY <1>3
    <3>. QED  BY <3>1, <3>2 DEF Spread
  <2>. QED  BY <2>2, <2>3 DEF Follows
<1>9. x \in r[i]
  BY <1>8 DEF Leads
<1>10. i \in 0..n /\ n \in i..n
  BY <1>1
<1>. QED  BY <1>2, <1>4, <1>9, <1>10

(***************************************************************************)
(* Whatever structured statements are nested in a statement, what its      *)
(* handler leaves to be generated after it is reached from where the       *)
(* handler was entered, following the branches of its own code (and, after *)
(* a case, the dispatch of the enclosing switch).                          *)
(***************************************************************************)
THEOREM CodeAfterIsReachedAlways == Spec => CodeAfterIsReached
<1>1. ASSUME TypeInv, TypeInv', NestInv, BlocksInv, EndInv, FlowInv, [Next]_vars
      PROVE  [Structured /\ out' = "run" /\ Len(stack') < Len(stack) =>
                ip' \in Reached(bbs', Top)]_vars
  <2>. SUFFICES ASSUME Next, Structured, Len(stack') < Len(stack)
                PROVE  ip' \in Reached(bbs', Top)
    BY <1>1
  <2>1. Known /\ Flowing /\ Exit /\ ~\E how : Stop(how)
    BY <1>1, ReturnsExit DEF Known, FlowInv
  <2>2. Rooted(bbs', Top) /\ Leads(bbs', Top, ip')
    BY <1>1, <2>1, ExitFlows DEF Finished
  <2>3. bbs' \in Seq(BB)
    BY <1>1 DEF TypeInv, TypeOK
  <2>. QED  BY <2>2, <2>3, LedToIsReached
<1>. QED  BY <1>1, TypesHold, HandlersNestAlways, BlocksAccountedFor, BlocksEnd, ControlFlows, PTL
          DEF Spec, CodeAfterIsReached
=============================================================================
