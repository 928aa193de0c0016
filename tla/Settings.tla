-------------------------------- MODULE Settings --------------------------------
(* What becomes of a request's settings: the thinking budget, the temperature and   *)
(* the forced choice of a tool, which the providers take in different ways and in   *)
(* different combinations. build_anthropic_body and its helpers, and complete() of  *)
(* openai.rs and gemini.rs.                                                         *)
EXTENDS Integers, Sequences

(* thinking_mode: families of models; a gateway's model is none of Anthropic's. *)
Modes == {"always_on", "adaptive", "manual", "gateway"}
MinBudget == 1024
None == "none"

\* Mutant: the budget is only kept below max_tokens.
ClampBelowMax(budget, max) ==
    IF max < MinBudget THEN 0
    ELSE IF budget < MinBudget THEN MinBudget
    ELSE IF budget > max - 1 THEN max - 1 ELSE budget

(* clamp_thinking_budget: a quarter of max_tokens is kept for the answer; 0 where
   there is no legal budget. *)
clamp_thinking_budget(budget, max) ==
    LET ceiling == max - max \div 4
    IN IF ceiling < MinBudget THEN 0
       ELSE IF budget < MinBudget THEN MinBudget
       ELSE IF budget > ceiling THEN ceiling ELSE budget

effort_for_budget(budget) ==
    CASE budget <= 2559 -> "low" [] budget \in 2560..6143 -> "medium"
      [] budget \in 6144..20479 -> "high" [] OTHER -> "max"

\* 0 asks for no thinking, as no budget at all does; a manual budget is a number
NoBudget == -1
Thinks(s) ==
    CASE s.budget \in {0, NoBudget} \/ s.mode = "always_on" -> None
      [] s.budget > 0 /\ s.mode = "adaptive"  -> "adaptive"
      [] s.budget > 0 /\ s.mode \in {"manual", "gateway"} ->
           IF clamp_thinking_budget(s.budget, s.max) = 0 THEN None ELSE "enabled"

\* Mutant: whether a temperature is sent depends on the model alone.
ModelDecides(s) == s.temperature /\ s.mode \in {"manual", "gateway"}

(* accepts_sampling_params: models that lost the parameter, and any Claude model
   on a request that thinks. *)
SendsTemperature(s) ==
    /\ s.temperature /\ s.mode \in {"manual", "gateway"}
    /\ ~(Thinks(s) # None /\ s.mode = "manual")

\* Mutant: the nudge's choice is forced whatever else is sent.
AlwaysForced(s, tools) == s.forced /\ tools # <<>>

(* A forced choice needs tools, and gives way to a manual thinking budget. *)
SendsChoice(s, tools) == s.forced /\ tools # <<>> /\ Thinks(s) # "enabled"

AnthropicOptions(s, tools) ==
    [thinking    |-> Thinks(s),
     budget      |-> IF Thinks(s) = "enabled" THEN clamp_thinking_budget(s.budget, s.max) ELSE NoBudget,
     effort      |-> IF s.budget > 0 /\ s.mode \in {"adaptive", "always_on"}
                     THEN effort_for_budget(s.budget) ELSE None,
     temperature |-> SendsTemperature(s),
     choice      |-> SendsChoice(s, tools)]

(* OpenAI-compatible servers get no budget (the effort some of them take is an option
   of its own); Gemini gets it as it is, and 0 turns thinking off. Both are sent the
   temperature. *)
OtherOptions(provider, s, tools) ==
    [thinking    |-> IF provider = "gemini" /\ s.budget # NoBudget THEN "budget" ELSE None,
     budget      |-> IF provider = "gemini" THEN s.budget ELSE NoBudget,
     effort      |-> None,
     temperature |-> s.temperature,
     choice      |-> s.forced /\ tools # <<>>]

Options(provider, s, tools) ==
    IF provider = "anthropic" THEN AnthropicOptions(s, tools) ELSE OtherOptions(provider, s, tools)

(* The settings an agent can ask for: budgets and maxima are of 32 bits in the code,
   where none of the arithmetic above overflows. *)
AllSettings ==
    [mode : Modes, budget : Nat \cup {NoBudget}, max : Nat, temperature : BOOLEAN, forced : BOOLEAN]

(* What anthropic.rs:292-295, 322-331, 340-348 and 432 say the API refuses: a manual budget
   below 1024, one that reaches max_tokens, or one on a model without it; a temperature next to
   thinking; a forced choice next to a manual budget or without tools. A caller who asks
   for thinking gets some where the API has a legal form. *)
LegalOptions(s, tools, o) ==
    /\ o.thinking = "enabled" => /\ s.mode \in {"manual", "gateway"}
                                 /\ o.budget >= MinBudget /\ o.budget < s.max
                                 /\ 4 * (s.max - o.budget) >= s.max - 3
                                 /\ ~o.choice
    /\ o.temperature => s.mode \in {"manual", "gateway"}
    /\ o.temperature /\ s.mode = "manual" => o.thinking = None
    /\ o.choice => tools # <<>>
    /\ s.budget > 0 /\ s.max >= 2 * MinBudget => o.thinking # None \/ o.effort # None
=================================================================================
