------------------------- MODULE MCPetitioDispatcher -------------------------
(* TLC instance of PetitioDispatcher.                                      *)
EXTENDS PetitioDispatcher

NoFailure  == {}
Recovered  == {"engine", "handle"}
=============================================================================
