------------------------------- MODULE MCAgent ------------------------------
(* A small instance of Agent for TLC.                                       *)
EXTENDS Agent, MCWorkspace

AllOrTheBank == {{}, {d1}}

(* A vendor picked by its key, none, and one forced without its key.        *)
SomeSettings ==
  { [forced |-> None, keys |-> {"groq", "openai"}],
    [forced |-> None, keys |-> {}],
    [forced |-> "gemini", keys |-> {"openai"}] }
=============================================================================
