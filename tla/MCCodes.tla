------------------------------ MODULE MCCodes ------------------------------
(* The codes of the links, and the checks of their destinations.  The two      *)
(* parts share no state: which of them moves is chosen in the beginning, and   *)
(* the other rests.                                                            *)
EXTENDS Codes, MCValues, TLC

CONSTANTS
  Value, Brand, Host, Domain, Contains, Admin, Server, Check, MaxEntry, MaxBoot, MaxSafetyFail

VARIABLES part, row, domains, keywords, form, boot, check, forms, boots, outages, alone, astray

Safety == INSTANCE Safety WITH fails <- outages, MaxForm <- MaxEntry, MaxFail <- MaxSafetyFail

ASSUME MCCodesAssumption == Safety!SafetyAssumption

safety == <<row, domains, keywords, form, boot, check, forms, boots, outages, alone, astray>>

PartInit ==
  /\ part \in {"codes", "safety"}
  /\ Init /\ Safety!Init
  /\ part # "codes" => prev[1] = <<>>
  /\ part # "safety" => \A v \in Value : row[v] = Safety!NoEntry

PartNext ==
  \/ part = "codes" /\ Next /\ UNCHANGED <<part, safety>>
  \/ part = "safety" /\ Safety!Next /\ UNCHANGED <<part, vars>>

PartSpec == PartInit /\ [][PartNext]_<<part, vars, safety>>

\* Handlers, administrators and the codes that are not named are alike.
MCSymmetry ==
  Permutations(Proc) \cup Permutations(Admin) \cup Permutations(Code \ (Reserved \cup {First}))

\* That the rows decide about a destination, stated and explained in Safety.
RowsDecide == Safety!RowsDecide
=============================================================================
