--------------------------- MODULE MCProviderCall ---------------------------
(* ProviderCall with three configured providers: the default one, whose     *)
(* backoff reaches its cap and then overflows; one with a shorter timeout   *)
(* and the zero backoff of a configuration that gives none; and one with a  *)
(* URL that cannot be parsed.                                               *)
EXTENDS ProviderCall, TLC

CONSTANTS openai, anthropic, broken, unknown, m1, m2

MCProviders == {openai, anthropic, broken}

MCModels == openai :> {m1} @@ anthropic :> {m2} @@ broken :> {m1}

MCRequestTimeout == openai :> 3 @@ anthropic :> 1 @@ broken :> 0

MCMaxRetries == openai :> 4 @@ anthropic :> 1 @@ broken :> 1

MCMinBackoff == openai :> 1 @@ anthropic :> 0 @@ broken :> 0

MCMaxBackoff == openai :> 3 @@ anthropic :> 0 @@ broken :> 1

MCTimeout == [direct |-> 9, worker |-> 7]

MCRequests == [provider : MCProviders \cup {unknown, Empty}, model : {m1, m2, Empty}]
=============================================================================
