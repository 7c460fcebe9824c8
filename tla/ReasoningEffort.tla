--------------------------- MODULE ReasoningEffort --------------------------
(***************************************************************************)
(* The reasoning effort asked of an OpenAI model for the thinking budget   *)
(* of a Claude request, and what the models are documented to support.     *)
(***************************************************************************)
EXTENDS Integers

(* Families of models, by the prefix of their name.                        *)
Models == {"gpt-5-pro", "gpt-5.2-pro", "gpt-5.1", "gpt-5.2", "other"}
Efforts == {"low", "medium", "high", "xhigh"}

rank(e) == CASE e = "low" -> 1 [] e = "medium" -> 2 [] e = "high" -> 3 [] e = "xhigh" -> 4

(* A budget that is missing or not positive asks for "medium".             *)
desired_effort(budget) ==
    CASE budget <= 0 -> "medium"
      [] budget > 0 /\ budget <= 2048 -> "low"
      [] budget > 2048 /\ budget <= 8192 -> "medium"
      [] budget > 8192 /\ budget <= 24576 -> "high"
      [] budget > 24576 -> "xhigh"

model_supports_xhigh(model) == model \in {"gpt-5.2", "gpt-5.2-pro"}

clamp_openai_reasoning_effort_for_model(effort, model) ==
    CASE model = "gpt-5-pro" -> "high"
      [] model = "gpt-5.2-pro" -> IF effort = "low" THEN "medium" ELSE effort
      [] model = "gpt-5.1" -> IF effort = "xhigh" THEN "high" ELSE effort
      [] OTHER -> IF effort = "xhigh" /\ ~model_supports_xhigh(model) THEN "high" ELSE effort

claude_thinking_to_openai_reasoning_effort(budget, model) ==
    clamp_openai_reasoning_effort_for_model(desired_effort(budget), model)

(* The efforts a model accepts, as the comments and tests of common.rs     *)
(* have them.                                                              *)
supported(model) ==
    CASE model = "gpt-5-pro" -> {"high"}
      [] model = "gpt-5.2-pro" -> {"medium", "high", "xhigh"}
      [] model = "gpt-5.2" -> Efforts
      [] OTHER -> {"low", "medium", "high"}

effortFits(b1, b2, model) ==
    /\ claude_thinking_to_openai_reasoning_effort(b1, model) \in supported(model)
    /\ 0 < b1 /\ b1 <= b2 =>
          rank(claude_thinking_to_openai_reasoning_effort(b1, model))
            <= rank(claude_thinking_to_openai_reasoning_effort(b2, model))

(* No request asks for an effort the model rejects and, for positive       *)
(* budgets, a larger one never asks a model for less: the ladder and the   *)
(* clamp of common.rs fit together.                                        *)
EffortLadder ==
    \A b1, b2 \in Int, model \in Models : effortFits(b1, b2, model)
=============================================================================
