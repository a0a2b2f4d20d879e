----------------------------- MODULE MCAccounts -----------------------------
(* The tokens of an X account and the settings of a bot, one or the other: *)
(* a behaviour is one of the component that part names.                    *)
EXTENDS MCXAccounts, BotAdmin

CONSTANTS s1, s2

VARIABLE part

MCInit == Init /\ BotInit /\ part \in {"tokens", "bot"}

(* The forms a bot is created from in this instance: they all have a       *)
(* persona, and name topics or one pair of source and category at most.    *)
CreatedFrom(f) ==
  /\ f.persona # NoPersona
  /\ Cardinality(f.sources) <= 1
  /\ f.sources # {} => f.topics = {}

MCNext ==
  /\ part' = part
  /\ \/ part = "tokens" /\ Next /\ UNCHANGED botVars
     \/ part = "bot" /\ BotNext /\ UNCHANGED vars
        /\ \A r \in Requests : operation'[r] = "create" => CreatedFrom(sent'[r])

MCSpec == MCInit /\ [][MCNext]_<<part, vars, botVars>>
=============================================================================
