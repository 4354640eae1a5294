----------------------------- MODULE CondStack -----------------------------
(***************************************************************************)
(* interpreter.cpp ConditionStack: the stack of IF/NOTIF/ELSE branch       *)
(* values, kept as two uint32 counters instead of a vector of booleans.   *)
(*                                                                         *)
(* The optimized representation is a record [size, ffp] (m_stack_size,     *)
(* m_first_false_pos).  Arithmetic is unsigned 32-bit, as in the code.     *)
(* The materialized representation is the vector of booleans the class    *)
(* stands for; it is the reference the optimized one is checked against.  *)
(***************************************************************************)
EXTENDS Integers, Sequences

(* 2^32, the modulus of uint32_t arithmetic.  TLC's integers are 32-bit   *)
(* signed, so a model gives it a smaller power of two that still exceeds  *)
(* every stack size the model reaches.                                     *)
CONSTANT U32

ASSUME U32 \in Nat /\ U32 > 1

(* ConditionStack::NO_FALSE = std::numeric_limits<uint32_t>::max().        *)
NO_FALSE == U32 - 1

(* A default-constructed ConditionStack.                                   *)
OptInit == [size |-> 0, ffp |-> NO_FALSE]

OptEmpty(c) == c.size = 0

OptAllTrue(c) == c.ffp = NO_FALSE

(* push_back(f): a false pushed onto an all-true stack becomes the first  *)
(* false, at the current size.                                            *)
OptPushBack(c, f) ==
    [size |-> (c.size + 1) % U32,
     ffp  |-> IF c.ffp = NO_FALSE /\ ~f THEN c.size ELSE c.ffp]

(* pop_back(): popping the first false makes the stack all true.          *)
OptPopBack(c) ==
    LET s == (c.size - 1) % U32
    IN  [size |-> s, ffp |-> IF c.ffp = s THEN NO_FALSE ELSE c.ffp]

OptToggleTop(c) ==
    LET top == (c.size - 1) % U32
    IN  [c EXCEPT !.ffp = CASE c.ffp = NO_FALSE -> top
                            [] c.ffp = top      -> NO_FALSE
                            [] OTHER            -> c.ffp]

(***************************************************************************)
(* The materialized condition stack: std::vector<bool> semantics.          *)
(***************************************************************************)
MatInit == <<>>

MatEmpty(v) == v = <<>>

MatAllTrue(v) == \A i \in DOMAIN v : v[i]

MatPushBack(v, f) == Append(v, f)

MatPopBack(v) == SubSeq(v, 1, Len(v) - 1)

MatToggleTop(v) == [v EXCEPT ![Len(v)] = ~@]

(***************************************************************************)
(* Both representations side by side: the interpreter decides with the    *)
(* optimized one; the materialized one is an auxiliary variable that the  *)
(* refinement mapping exposes.                                             *)
(***************************************************************************)
PairInit == [opt |-> OptInit, mat |-> MatInit]

PairEmpty(p) == OptEmpty(p.opt)

PairAllTrue(p) == OptAllTrue(p.opt)

PairPushBack(p, f) ==
    [opt |-> OptPushBack(p.opt, f), mat |-> MatPushBack(p.mat, f)]

PairPopBack(p) == [opt |-> OptPopBack(p.opt), mat |-> MatPopBack(p.mat)]

PairToggleTop(p) == [opt |-> OptToggleTop(p.opt), mat |-> MatToggleTop(p.mat)]

=============================================================================
