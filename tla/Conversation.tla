---------------------------- MODULE Conversation ----------------------------
(***************************************************************************)
(* The messages an agent exchanges with a model (core.LLMMessage), without *)
(* their texts: who speaks, which tools an answer calls, and which call of *)
(* the last answer a tool message is about.                                *)
(***************************************************************************)
EXTENDS Integers, Sequences, FiniteSets, SequencesExt

Said(role, calls, call) == [role |-> role, calls |-> calls, call |-> call]
FromUser == Said("user", <<>>, 0)
Answer(calls) == Said("assistant", calls, 0)
ToolResult(k) == Said("tool", <<>>, k)

(* Where the answers of a conversation stand, and which call of the last   *)
(* answer is the next one, of those still to do.                           *)
Answers(said) == {i \in DOMAIN said : said[i].role = "assistant"}
Unanswered(said, todo) == Len(said[Max(Answers(said))].calls) - Len(todo) + 1

(* What a sequence has at the places P, in their order.  (SelectSeq is     *)
(* recursive, and nothing could be proved about what it selects.)          *)
Rank(P, i) == Cardinality({j \in P : j <= i})
Picked(s, P) == [n \in 1..Cardinality(P) |-> s[CHOOSE i \in P : Rank(P, i) = n]]

(* What a provider accepts: every tool call of an answer is answered once  *)
(* and in order before anything else is said.                              *)
AnsweredInOrder(said) ==
  \A i \in DOMAIN said : said[i].role = "assistant" =>
    LET n == Len(said[i].calls)
    IN /\ i + n <= Len(said)
       /\ \A k \in 1..n : said[i + k] = ToolResult(k)
       /\ i + n < Len(said) => said[i + n + 1].role = "assistant"
=============================================================================
